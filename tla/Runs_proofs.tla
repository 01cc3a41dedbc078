----------------------------- MODULE Runs_proofs -----------------------------
(***************************************************************************)
(* The runs around the documents, proved for all values of the constants:  *)
(* what MCPlatform states of its services, which follows from the theorems *)
(* of the components and from those proved here for settings and media,    *)
(* what MCPermalinkLifecycle states of requests that come one at a time,   *)
(* and what MCClient states of what its users do.  A behaviour of a run is *)
(* one of the specification of its part (the lemmas ...Part), so that a    *)
(* theorem about a component holds of the run whenever that part is        *)
(* played.                                                                 *)
(***************************************************************************)
EXTENDS MCPlatform, MCPermalinkLifecycle, MCClient, Sequences, FiniteSets, FiniteSetTheorems,
        SequenceTheorems, WellFoundedInduction, TLAPS

-----------------------------------------------------------------------------
(* A behaviour of the platform is one of its service                       *)

LEMMA AccountsPart ==
    PlatformSpec =>
        /\ service = "accounts" => Accounts!Spec
        /\ [](service = "accounts") \/ []~(service = "accounts")
<1>1. PlatformInit /\ service = "accounts" => Accounts!Init
  BY DEF PlatformInit
<1>2. service = "accounts" /\ [PlatformNext]_platformVars => [Accounts!Next]_(Accounts!vars)
  BY DEF PlatformNext, platformVars, accountVars, Accounts!vars
<1>3. [PlatformNext]_platformVars => ((service = "accounts")' <=> service = "accounts")
  BY DEF PlatformNext, platformVars
<1> QED BY <1>1, <1>2, <1>3, PTL DEF PlatformSpec, Accounts!Spec

LEMMA SharedAccountsPart ==
    PlatformSpec =>
        /\ service = "shared accounts" => SharedAccounts!Spec
        /\ [](service = "shared accounts") \/ []~(service = "shared accounts")
<1>1. PlatformInit /\ service = "shared accounts" => SharedAccounts!Init
  BY DEF PlatformInit
<1>2. service = "shared accounts" /\ [PlatformNext]_platformVars => [SharedAccounts!Next]_(SharedAccounts!vars)
  BY DEF PlatformNext, platformVars, accountVars, SharedAccounts!vars
<1>3. [PlatformNext]_platformVars => ((service = "shared accounts")' <=> service = "shared accounts")
  BY DEF PlatformNext, platformVars
<1> QED BY <1>1, <1>2, <1>3, PTL DEF PlatformSpec, SharedAccounts!Spec

LEMMA OrganizationsPart ==
    PlatformSpec =>
        /\ service = "organizations" => Orgs!Spec
        /\ [](service = "organizations") \/ []~(service = "organizations")
<1>1. PlatformInit /\ service = "organizations" => Orgs!Init
  BY DEF PlatformInit
<1>2. service = "organizations" /\ [PlatformNext]_platformVars => [Orgs!Next]_(Orgs!vars)
  BY DEF PlatformNext, platformVars, organizationVars, Orgs!vars
<1>3. [PlatformNext]_platformVars => ((service = "organizations")' <=> service = "organizations")
  BY DEF PlatformNext, platformVars
<1> QED BY <1>1, <1>2, <1>3, PTL DEF PlatformSpec, Orgs!Spec

LEMMA SharedOrganizationsPart ==
    PlatformSpec =>
        /\ service = "shared organizations" => SharedOrgs!Spec
        /\ [](service = "shared organizations") \/ []~(service = "shared organizations")
<1>1. PlatformInit /\ service = "shared organizations" => SharedOrgs!Init
  BY DEF PlatformInit
<1>2. service = "shared organizations" /\ [PlatformNext]_platformVars => [SharedOrgs!Next]_(SharedOrgs!vars)
  BY DEF PlatformNext, platformVars, organizationVars, SharedOrgs!vars
<1>3. [PlatformNext]_platformVars => ((service = "shared organizations")' <=> service = "shared organizations")
  BY DEF PlatformNext, platformVars
<1> QED BY <1>1, <1>2, <1>3, PTL DEF PlatformSpec, SharedOrgs!Spec

LEMMA SeedingPart ==
    PlatformSpec =>
        /\ service = "seeding" => Seeding!Spec
        /\ [](service = "seeding") \/ []~(service = "seeding")
<1>1. PlatformInit /\ service = "seeding" => Seeding!Init
  BY DEF PlatformInit
<1>2. service = "seeding" /\ [PlatformNext]_platformVars => [Seeding!Next]_(Seeding!vars)
  BY DEF PlatformNext, platformVars, organizationVars, Seeding!vars
<1>3. [PlatformNext]_platformVars => ((service = "seeding")' <=> service = "seeding")
  BY DEF PlatformNext, platformVars
<1> QED BY <1>1, <1>2, <1>3, PTL DEF PlatformSpec, Seeding!Spec

LEMMA SettingsPart ==
    PlatformSpec =>
        /\ service = "settings" => Settings!Spec
        /\ [](service = "settings") \/ []~(service = "settings")
<1>1. PlatformInit /\ service = "settings" => Settings!Init
  BY DEF PlatformInit
<1>2. service = "settings" /\ [PlatformNext]_platformVars => [Settings!Next]_(Settings!vars)
  BY DEF PlatformNext, platformVars, settingVars, Settings!vars
<1>3. [PlatformNext]_platformVars => ((service = "settings")' <=> service = "settings")
  BY DEF PlatformNext, platformVars
<1> QED BY <1>1, <1>2, <1>3, PTL DEF PlatformSpec, Settings!Spec

LEMMA SharedSettingsPart ==
    PlatformSpec =>
        /\ service = "shared settings" => SharedSettings!Spec
        /\ [](service = "shared settings") \/ []~(service = "shared settings")
<1>1. PlatformInit /\ service = "shared settings" => SharedSettings!Init
  BY DEF PlatformInit
<1>2. service = "shared settings" /\ [PlatformNext]_platformVars => [SharedSettings!Next]_(SharedSettings!vars)
  BY DEF PlatformNext, platformVars, settingVars, SharedSettings!vars
<1>3. [PlatformNext]_platformVars => ((service = "shared settings")' <=> service = "shared settings")
  BY DEF PlatformNext, platformVars
<1> QED BY <1>1, <1>2, <1>3, PTL DEF PlatformSpec, SharedSettings!Spec

LEMMA MediaPart ==
    PlatformSpec =>
        /\ service = "media" => Media!Spec
        /\ [](service = "media") \/ []~(service = "media")
<1>1. PlatformInit /\ service = "media" => Media!Init
  BY DEF PlatformInit
<1>2. service = "media" /\ [PlatformNext]_platformVars => [Media!Next]_(Media!vars)
  BY DEF PlatformNext, platformVars, mediaVars, Media!vars
<1>3. [PlatformNext]_platformVars => ((service = "media")' <=> service = "media")
  BY DEF PlatformNext, platformVars
<1> QED BY <1>1, <1>2, <1>3, PTL DEF PlatformSpec, Media!Spec

LEMMA SharedMediaPart ==
    PlatformSpec =>
        /\ service = "shared media" => SharedMedia!Spec
        /\ [](service = "shared media") \/ []~(service = "shared media")
<1>1. PlatformInit /\ service = "shared media" => SharedMedia!Init
  BY DEF PlatformInit
<1>2. service = "shared media" /\ [PlatformNext]_platformVars => [SharedMedia!Next]_(SharedMedia!vars)
  BY DEF PlatformNext, platformVars, mediaVars, SharedMedia!vars
<1>3. [PlatformNext]_platformVars => ((service = "shared media")' <=> service = "shared media")
  BY DEF PlatformNext, platformVars
<1> QED BY <1>1, <1>2, <1>3, PTL DEF PlatformSpec, SharedMedia!Spec

LEMMA QuotaPart ==
    PlatformSpec =>
        /\ service = "quota" => Quota!Spec
        /\ [](service = "quota") \/ []~(service = "quota")
<1>1. PlatformInit /\ service = "quota" => Quota!Init
  BY DEF PlatformInit
<1>2. service = "quota" /\ [PlatformNext]_platformVars => [Quota!Next]_(Quota!vars)
  BY DEF PlatformNext, platformVars, quotaVars, Quota!vars
<1>3. [PlatformNext]_platformVars => ((service = "quota")' <=> service = "quota")
  BY DEF PlatformNext, platformVars
<1> QED BY <1>1, <1>2, <1>3, PTL DEF PlatformSpec, Quota!Spec

LEMMA SharedQuotaPart ==
    PlatformSpec =>
        /\ service = "shared quota" => SharedQuota!Spec
        /\ [](service = "shared quota") \/ []~(service = "shared quota")
<1>1. PlatformInit /\ service = "shared quota" => SharedQuota!Init
  BY DEF PlatformInit
<1>2. service = "shared quota" /\ [PlatformNext]_platformVars => [SharedQuota!Next]_(SharedQuota!vars)
  BY DEF PlatformNext, platformVars, quotaVars, SharedQuota!vars
<1>3. [PlatformNext]_platformVars => ((service = "shared quota")' <=> service = "shared quota")
  BY DEF PlatformNext, platformVars
<1> QED BY <1>1, <1>2, <1>3, PTL DEF PlatformSpec, SharedQuota!Spec

-----------------------------------------------------------------------------
(* Accounts and organizations                                              *)

\* What a user was told is pending stays pending; with overlapping requests,
\* every pending change has its revoke link out, unless a crash came between,
\* and nobody is left with a change to the address they already have
\* (requestEmailChange, cancelEmailChange, email-change-hooks.ts).
THEOREM PendingChangesAlwaysAgree ==
    ASSUME NEW h, Handler = {h}
    PROVE  PlatformSpec => []PendingChangesAgree
<1>1. Accounts!Spec => []Accounts!TypeOK
  BY Accounts!TypeCorrect, PlatformAssumptions DEF PlatformAssumptions
<1>2. Accounts!Spec => []Accounts!ToldPendingIsPending
  BY Accounts!LoneToldIsPending, PlatformAssumptions DEF PlatformAssumptions
<1>3. SharedAccounts!Spec => []SharedAccounts!TypeOK
  BY SharedAccounts!TypeCorrect, PlatformAssumptions DEF PlatformAssumptions
<1>4. SharedAccounts!Spec => []SharedAccounts!PendingIsRevocable
  BY SharedAccounts!PendingChangesAreRevocable, PlatformAssumptions DEF PlatformAssumptions
<1>5. SharedAccounts!Spec => []SharedAccounts!NoPendingForOwnAddress
  BY SharedAccounts!OwnAddressIsNotPending, PlatformAssumptions DEF PlatformAssumptions
<1> QED BY <1>1, <1>2, <1>3, <1>4, <1>5, AccountsPart, SharedAccountsPart, PTL
        DEF PendingChangesAgree

\* An address changes only by a link for exactly this change, even when other
\* requests save the user in between, and, with one request at a time, never
\* once the user was told that the change is revoked.
THEOREM EmailChangesAlwaysConfirmed ==
    ASSUME NEW h, Handler = {h}
    PROVE  PlatformSpec => EmailChangesAreConfirmed
<1>1. Accounts!Spec => [][Accounts!ChangesUnrevoked]_(Accounts!vars)
  BY Accounts!LoneRevokedNeverCompletes, PlatformAssumptions
     DEF PlatformAssumptions, Accounts!RevokedNeverCompletes
<1>2. SharedAccounts!Spec => [][SharedAccounts!ChangesLinked]_(SharedAccounts!vars)
  BY SharedAccounts!ChangesFollowLinks, PlatformAssumptions DEF PlatformAssumptions
<1>3. /\ service = "accounts" => [Accounts!ChangesUnrevoked]_(Accounts!vars)
      /\ service = "shared accounts" => [SharedAccounts!ChangesLinked]_(SharedAccounts!vars)
      => [/\ service = "accounts" => Accounts!ChangesUnrevoked
          /\ service = "shared accounts" => SharedAccounts!ChangesLinked]_accountVars
  BY DEF accountVars, Accounts!vars, SharedAccounts!vars
<1> QED BY <1>1, <1>2, <1>3, AccountsPart, SharedAccountsPart, PTL
        DEF EmailChangesAreConfirmed

\* Members are founders or hold an invited address, invitations are sent by
\* those who may, roles change by owners, and no start seeds an administrator
\* while there is one (acceptInvitation, inviteMember, updateMemberRole,
\* ensureAdminSeeded).
THEOREM MembershipAlwaysGranted ==
    ASSUME NEW h, Handler = {h}
    PROVE  PlatformSpec => MembershipIsGranted
<1>1. Orgs!Spec => [][Orgs!FoundedOrInvited]_(Orgs!vars)
  BY Orgs!LoneMembersAreGranted, PlatformAssumptions DEF PlatformAssumptions
<1>2. Orgs!Spec => [][Orgs!SentByManagers]_(Orgs!vars)
  BY Orgs!LoneInvitationsAreSentByManagers, PlatformAssumptions DEF PlatformAssumptions
<1>3. SharedOrgs!Spec => [][SharedOrgs!ChangesByOwners]_(SharedOrgs!vars)
  BY SharedOrgs!RolesChangeByOwners, PlatformAssumptions DEF PlatformAssumptions
<1>4. Seeding!Spec => [][Seeding!SeedsWithoutAdmin]_(Seeding!vars)
  BY Seeding!SeedsOnlyWithoutAdmin
<1>5. /\ service = "organizations" =>
            /\ [Orgs!FoundedOrInvited]_(Orgs!vars)
            /\ [Orgs!SentByManagers]_(Orgs!vars)
      /\ service = "shared organizations" => [SharedOrgs!ChangesByOwners]_(SharedOrgs!vars)
      /\ service = "seeding" => [Seeding!SeedsWithoutAdmin]_(Seeding!vars)
      => [/\ service = "organizations" => Orgs!FoundedOrInvited /\ Orgs!SentByManagers
          /\ service = "shared organizations" => SharedOrgs!ChangesByOwners
          /\ service = "seeding" => Seeding!SeedsWithoutAdmin]_organizationVars
  BY DEF organizationVars, Orgs!vars, SharedOrgs!vars, Seeding!vars
<1> QED BY <1>1, <1>2, <1>3, <1>4, <1>5, OrganizationsPart, SharedOrganizationsPart,
           SeedingPart, PTL DEF MembershipIsGranted

-----------------------------------------------------------------------------
(* Settings                                                                *)

\* A handler that is about to save has the settings that are stored, but for
\* what it was asked to change, in hand.
SettingsInv ==
    /\ Settings!TypeOK
    /\ \A h \in Handler :
         writers[h].at = "save" =>
           /\ documents # <<>> /\ writers[h].id = 1
           /\ \A n \in Names :
                \/ writers[h].next[n] = documents[1][n]
                \/ writers[h].next[n] = writers[h].asked[n]

LEMMA SettingsHandlers ==
    ASSUME NEW s \in Settings!HandlerStates
    PROVE  /\ s.at \in {"idle", "create", "save"}
           /\ s.at = "idle" => s = Settings!Idle
           /\ s.at = "create" => s.asked \in Settings!Updates \cup {None}
           /\ s.at = "save" => /\ s.asked \in Settings!Updates
                               /\ s.id = 1 /\ s.next \in Settings!Values
BY DEF Settings!HandlerStates, Settings!Idle

\* What ReadToUpdate leaves in hand.
LEMMA SettingsInHand ==
    ASSUME SettingsInv, NEW h \in Handler, NEW update \in Settings!Updates,
           NEW found \in Settings!Values,
           Settings!ReadToUpdate(h, update, 1, found)
    PROVE  /\ writers' \in [Handler -> Settings!HandlerStates]
           /\ \A g \in Handler : g # h => writers'[g] = writers[g]
           /\ writers'[h].at = "save" =>
                /\ writers'[h].id = 1
                /\ \A n \in Names : \/ writers'[h].next[n] = found[n]
                                    \/ writers'[h].next[n] = writers'[h].asked[n]
<1> DEFINE next == Settings!Update(Settings!WithEnvOverrides(found), update)
           state == [at |-> "save", asked |-> update, id |-> 1, next |-> next]
<1>1. environment = [n \in Names |-> None]
  BY DEF SettingsInv, Settings!TypeOK
<1>2. \A n \in Names : next[n] = IF update[n] # None THEN update[n] ELSE found[n]
  BY <1>1 DEF Settings!Update, Settings!WithEnvOverrides, Settings!Locked
<1>3. next \in Settings!Values
  <2>1. next = [n \in Names |-> next[n]]
    BY DEF Settings!Update
  <2>2. ASSUME NEW n \in Names PROVE next[n] \in BOOLEAN
    <3>1. found[n] \in BOOLEAN /\ update[n] \in BOOLEAN \cup {None}
      BY DEF Settings!Values, Settings!Updates
    <3> QED BY <1>2, <3>1
  <2> HIDE DEF next
  <2> QED BY <2>1, <2>2 DEF Settings!Values
<1>4. state \in Settings!HandlerStates
  BY <1>3 DEF Settings!HandlerStates
<1>5. Settings!Idle \in Settings!HandlerStates /\ Settings!Idle.at # "save"
  BY DEF Settings!HandlerStates, Settings!Idle
<1>6. \/ writers' = [writers EXCEPT ![h] = state]
      \/ writers' = [writers EXCEPT ![h] = Settings!Idle]
  BY DEF Settings!ReadToUpdate, Settings!Goto, Settings!Answer
<1>7. writers \in [Handler -> Settings!HandlerStates]
  BY DEF SettingsInv, Settings!TypeOK
<1>8. state.id = 1 /\ state.next = next /\ state.asked = update
  OBVIOUS
<1> HIDE DEF state, next
<1> QED BY <1>2, <1>4, <1>5, <1>6, <1>7, <1>8

LEMMA SettingsStep ==
    ASSUME SettingsInv, NEW h, Handler = {h},
           [Settings!Next]_(Settings!vars)
    PROVE  SettingsInv' /\ (Settings!AskedFor \/ UNCHANGED Settings!vars)
<1>0. /\ documents \in Seq(Settings!Values) /\ Len(documents) <= 1
      /\ writers \in [Handler -> Settings!HandlerStates]
      /\ environment \in {[n \in Names |-> None]} /\ restarts \in 0..1
  BY DEF SettingsInv, Settings!TypeOK
<1>1. CASE \E update \in Settings!Updates \cup {None} : Settings!GetSettings(h, update)
  <2> PICK update \in Settings!Updates \cup {None} : Settings!GetSettings(h, update)
    BY <1>1
  <2>1. UNCHANGED <<documents, environment, restarts>>
    BY DEF Settings!GetSettings
  <2>2. Settings!AskedFor
    BY <2>1 DEF Settings!AskedFor, Settings!Changed
  <2>3. CASE documents # <<>>
    <3>1. /\ update \in Settings!Updates /\ documents[1] \in Settings!Values
          /\ Settings!ReadToUpdate(h, update, 1, documents[1])
      BY <1>0, <2>3 DEF Settings!GetSettings
    <3>2. SettingsInv'
      BY <1>0, <2>1, <2>3, <3>1, SettingsInHand DEF SettingsInv, Settings!TypeOK
    <3> QED BY <2>2, <3>2
  <2>4. CASE documents = <<>>
    <3>1. writers' = [writers EXCEPT ![h] = [at |-> "create", asked |-> update]]
      BY <2>4 DEF Settings!GetSettings, Settings!Goto
    <3>2. [at |-> "create", asked |-> update] \in Settings!HandlerStates
      BY DEF Settings!HandlerStates
    <3>3. SettingsInv'
      BY <1>0, <2>1, <3>1, <3>2 DEF SettingsInv, Settings!TypeOK
    <3> QED BY <2>2, <3>3
  <2> QED BY <2>3, <2>4
<1>2. CASE Settings!CreateDefaults(h)
  <2>1. documents = <<>> /\ documents' = <<Settings!Defaults>>
    <3>1. Len(documents) < 1 /\ documents' = Append(documents, Settings!Defaults)
      BY <1>2 DEF Settings!CreateDefaults
    <3>2. documents = <<>>
      BY <1>0, <3>1
    <3> QED BY <3>1, <3>2
  <2>2. Settings!Defaults \in Settings!Values
    BY DEF Settings!Defaults, Settings!Values
  <2>3. /\ documents' \in Seq(Settings!Values) /\ Len(documents') = 1
        /\ documents'[1] = Settings!Defaults /\ documents' # <<>>
    BY <2>1, <2>2
  <2>4. UNCHANGED <<environment, restarts>>
    BY <1>2 DEF Settings!CreateDefaults
  <2>5. Settings!AskedFor
    BY <2>1 DEF Settings!AskedFor, Settings!Changed
  <2>6. CASE writers[h].asked = None
    <3>1. writers' = [writers EXCEPT ![h] = Settings!Idle]
      BY <1>2, <2>6 DEF Settings!CreateDefaults, Settings!Answer, Settings!Goto
    <3>2. Settings!Idle \in Settings!HandlerStates /\ Settings!Idle.at # "save"
      BY DEF Settings!HandlerStates, Settings!Idle
    <3>3. SettingsInv'
      BY <1>0, <2>3, <2>4, <3>1, <3>2 DEF SettingsInv, Settings!TypeOK
    <3> QED BY <2>5, <3>3
  <2>7. CASE writers[h].asked # None
    <3>1. Len(documents) + 1 = 1
      BY <2>1
    <3>2. /\ writers[h].asked \in Settings!Updates
          /\ Settings!ReadToUpdate(h, writers[h].asked, 1, Settings!Defaults)
      BY <1>0, <1>2, <2>7, <3>1, SettingsHandlers DEF Settings!CreateDefaults
    <3>3. SettingsInv'
      BY <1>0, <2>2, <2>3, <2>4, <3>2, SettingsInHand DEF SettingsInv, Settings!TypeOK
    <3> QED BY <2>5, <3>3
  <2> QED BY <2>6, <2>7
<1>3. CASE Settings!Save(h)
  <2>1. /\ writers[h].at = "save" /\ documents # <<>> /\ writers[h].id = 1
        /\ writers[h].next \in Settings!Values
        /\ \A n \in Names : \/ writers[h].next[n] = documents[1][n]
                            \/ writers[h].next[n] = writers[h].asked[n]
    BY <1>0, <1>3, SettingsHandlers DEF SettingsInv, Settings!Save
  <2>2. /\ documents' = [documents EXCEPT ![1] = writers[h].next]
        /\ writers' = [writers EXCEPT ![h] = Settings!Idle]
        /\ UNCHANGED <<environment, restarts>>
    BY <1>3, <2>1 DEF Settings!Save, Settings!Answer, Settings!Goto
  <2>3. /\ documents' \in Seq(Settings!Values) /\ Len(documents') = Len(documents)
        /\ documents'[1] = writers[h].next
    BY <1>0, <2>1, <2>2
  <2>4. Settings!AskedFor
    BY <2>1, <2>3 DEF Settings!AskedFor, Settings!Changed
  <2>5. Settings!Idle \in Settings!HandlerStates /\ Settings!Idle.at # "save"
    BY DEF Settings!HandlerStates, Settings!Idle
  <2>6. SettingsInv'
    BY <1>0, <2>2, <2>3, <2>5 DEF SettingsInv, Settings!TypeOK
  <2> QED BY <2>4, <2>6
<1>4. CASE Settings!Restart
  <2>1. Settings!Idle \in Settings!HandlerStates /\ Settings!Idle.at # "save"
    BY DEF Settings!HandlerStates, Settings!Idle
  <2>2. SettingsInv'
    BY <1>0, <1>4, <2>1 DEF SettingsInv, Settings!TypeOK, Settings!Restart
  <2>3. Settings!AskedFor
    BY <1>4 DEF Settings!Restart, Settings!AskedFor, Settings!Changed
  <2> QED BY <2>2, <2>3
<1>5. CASE UNCHANGED Settings!vars
  BY <1>5 DEF SettingsInv, Settings!TypeOK, Settings!vars
<1> QED BY <1>1, <1>2, <1>3, <1>4, <1>5 DEF Settings!Next

LEMMA SettingsAlways ==
    ASSUME NEW h, Handler = {h}
    PROVE  Settings!Spec => []Settings!TypeOK /\ [][Settings!AskedFor]_(Settings!vars)
<1>1. Settings!Init => SettingsInv
  BY DEF Settings!Init, SettingsInv, Settings!TypeOK, Settings!HandlerStates, Settings!Idle
<1>2. SettingsInv /\ [Settings!Next]_(Settings!vars)
        => SettingsInv' /\ [Settings!AskedFor]_(Settings!vars)
  BY SettingsStep
<1>3. SettingsInv => Settings!TypeOK
  BY DEF SettingsInv
<1> QED BY <1>1, <1>2, <1>3, PTL DEF Settings!Spec

\* What ReadToUpdate leaves in hand, with several handlers.
LEMMA SharedSettingsInHand ==
    ASSUME SharedSettings!TypeOK, NEW h \in Handlers, NEW update \in SharedSettings!Updates,
           NEW id \in 1..2, NEW found \in SharedSettings!Values,
           SharedSettings!ReadToUpdate(h, update, id, found)
    PROVE  writers' \in [Handlers -> SharedSettings!HandlerStates]
<1> DEFINE active == SharedSettings!WithEnvOverrides(found)
           next == SharedSettings!Update(active, update)
           state == [at |-> "save", asked |-> update, id |-> id, next |-> next]
<1>1. environment \in [Names -> BOOLEAN \cup {None}]
  BY DEF SharedSettings!TypeOK
<1>2. \A n \in Names :
        /\ active[n] = IF environment[n] # None THEN environment[n] ELSE found[n]
        /\ next[n] = IF update[n] # None THEN update[n] ELSE active[n]
  BY DEF SharedSettings!Update, SharedSettings!WithEnvOverrides, SharedSettings!Locked
<1>3. next = [n \in Names |-> next[n]]
  BY DEF SharedSettings!Update
<1> HIDE DEF active, next
<1>4. ASSUME NEW n \in Names PROVE next[n] \in BOOLEAN
  <2>1. /\ found[n] \in BOOLEAN /\ update[n] \in BOOLEAN \cup {None}
        /\ environment[n] \in BOOLEAN \cup {None}
    BY <1>1 DEF SharedSettings!Values, SharedSettings!Updates
  <2> QED BY <1>2, <2>1
<1>5. next \in SharedSettings!Values
  BY <1>3, <1>4 DEF SharedSettings!Values
<1>6. state \in SharedSettings!HandlerStates
  BY <1>5 DEF SharedSettings!HandlerStates
<1>7. SharedSettings!Idle \in SharedSettings!HandlerStates
  BY DEF SharedSettings!HandlerStates
<1>8. \/ writers' = [writers EXCEPT ![h] = state]
      \/ writers' = [writers EXCEPT ![h] = SharedSettings!Idle]
  BY DEF SharedSettings!ReadToUpdate, SharedSettings!Goto, SharedSettings!Answer, active, next
<1> HIDE DEF state
<1> QED BY <1>6, <1>7, <1>8 DEF SharedSettings!TypeOK

\* Of the handlers' steps only an update changes the settings that are read.
LEMMA SharedSettingsStep ==
    ASSUME SharedSettings!TypeOK, [SharedSettings!Next]_(SharedSettings!vars)
    PROVE  /\ SharedSettings!TypeOK'
           /\ SharedSettings!DefaultsAreQuiet \/ UNCHANGED SharedSettings!vars
<1>0. /\ documents \in Seq(SharedSettings!Values) /\ Len(documents) <= 2
      /\ writers \in [Handlers -> SharedSettings!HandlerStates]
      /\ environment \in [Names -> BOOLEAN \cup {None}] /\ restarts \in 0..2
  BY DEF SharedSettings!TypeOK
<1>1. SharedSettings!Idle \in SharedSettings!HandlerStates
  BY DEF SharedSettings!HandlerStates
<1>2. ASSUME NEW h \in Handlers, NEW update \in SharedSettings!Updates \cup {None},
             SharedSettings!GetSettings(h, update)
      PROVE  SharedSettings!TypeOK' /\ SharedSettings!DefaultsAreQuiet
  <2>1. UNCHANGED <<documents, environment, restarts>>
    BY <1>2 DEF SharedSettings!GetSettings
  <2>2. SharedSettings!DefaultsAreQuiet
    BY <2>1 DEF SharedSettings!DefaultsAreQuiet, SharedSettings!Changed
  <2>3. writers' \in [Handlers -> SharedSettings!HandlerStates]
    <3>1. CASE documents # <<>>
      <4>1. /\ update \in SharedSettings!Updates /\ documents[1] \in SharedSettings!Values
            /\ SharedSettings!ReadToUpdate(h, update, 1, documents[1])
        BY <1>0, <1>2, <3>1 DEF SharedSettings!GetSettings
      <4> QED BY <4>1, SharedSettingsInHand
    <3>2. CASE documents = <<>>
      <4>1. writers' = [writers EXCEPT ![h] = [at |-> "create", asked |-> update]]
        BY <1>2, <3>2 DEF SharedSettings!GetSettings, SharedSettings!Goto
      <4>2. [at |-> "create", asked |-> update] \in SharedSettings!HandlerStates
        BY DEF SharedSettings!HandlerStates
      <4> QED BY <1>0, <4>1, <4>2
    <3> QED BY <3>1, <3>2
  <2> QED BY <1>0, <2>1, <2>2, <2>3 DEF SharedSettings!TypeOK
<1>3. ASSUME NEW h \in Handlers, SharedSettings!CreateDefaults(h)
      PROVE  SharedSettings!TypeOK' /\ SharedSettings!DefaultsAreQuiet
  <2>1. SharedSettings!Defaults \in SharedSettings!Values
    BY DEF SharedSettings!Defaults, SharedSettings!Values
  <2>2. /\ Len(documents) < 2 /\ documents' = Append(documents, SharedSettings!Defaults)
        /\ UNCHANGED <<environment, restarts>> /\ writers[h].at = "create"
    BY <1>3 DEF SharedSettings!CreateDefaults
  <2>3. /\ documents' \in Seq(SharedSettings!Values) /\ Len(documents') <= 2
        /\ documents # <<>> => documents'[1] = documents[1]
    BY <1>0, <2>1, <2>2
  <2>4. SharedSettings!DefaultsAreQuiet
    BY <2>3 DEF SharedSettings!DefaultsAreQuiet, SharedSettings!Changed
  <2>5. writers' \in [Handlers -> SharedSettings!HandlerStates]
    <3>1. CASE writers[h].asked = None
      <4>1. writers' = [writers EXCEPT ![h] = SharedSettings!Idle]
        BY <1>3, <3>1 DEF SharedSettings!CreateDefaults, SharedSettings!Answer,
                          SharedSettings!Goto
      <4> QED BY <1>0, <1>1, <4>1
    <3>2. CASE writers[h].asked # None
      <4>1. writers[h].asked \in SharedSettings!Updates
        BY <1>0, <2>2, <3>2 DEF SharedSettings!HandlerStates, SharedSettings!Idle
      <4>2. /\ Len(documents) + 1 \in 1..2
            /\ SharedSettings!ReadToUpdate(h, writers[h].asked, Len(documents) + 1,
                                           SharedSettings!Defaults)
        BY <1>0, <1>3, <2>2, <3>2 DEF SharedSettings!CreateDefaults
      <4> QED BY <2>1, <4>1, <4>2, SharedSettingsInHand
    <3> QED BY <3>1, <3>2
  <2> QED BY <1>0, <2>2, <2>3, <2>4, <2>5 DEF SharedSettings!TypeOK
<1>4. ASSUME NEW h \in Handlers, SharedSettings!Save(h)
      PROVE  SharedSettings!TypeOK' /\ SharedSettings!DefaultsAreQuiet
  <2>1. /\ writers[h].at = "save"
        /\ documents' = [documents EXCEPT ![writers[h].id] = writers[h].next]
        /\ writers' = [writers EXCEPT ![h] = SharedSettings!Idle]
        /\ UNCHANGED <<environment, restarts>>
    BY <1>4 DEF SharedSettings!Save, SharedSettings!Answer, SharedSettings!Goto
  <2>2. writers[h].next \in SharedSettings!Values
    BY <1>0, <2>1 DEF SharedSettings!HandlerStates, SharedSettings!Idle
  <2>3. documents' \in Seq(SharedSettings!Values) /\ Len(documents') = Len(documents)
    <3>1. ASSUME NEW id, NEW next \in SharedSettings!Values,
                 documents' = [documents EXCEPT ![id] = next]
          PROVE  documents' \in Seq(SharedSettings!Values) /\ Len(documents') = Len(documents)
      <4>1. DOMAIN documents = 1..Len(documents) /\ Len(documents) \in Nat
        BY <1>0
      <4>2. DOMAIN documents' = 1..Len(documents)
        BY <3>1, <4>1
      <4>3. ASSUME NEW i \in 1..Len(documents) PROVE documents'[i] \in SharedSettings!Values
        BY <1>0, <3>1, <4>1, <4>3
      <4>4. documents' \in [1..Len(documents) -> SharedSettings!Values]
        <5>1. documents' = [i \in DOMAIN documents |-> documents'[i]]
          BY <3>1
        <5> QED BY <4>1, <4>3, <5>1
      <4> QED BY <4>1, <4>4
    <3> QED BY <2>1, <2>2, <3>1
  <2>4. SharedSettings!DefaultsAreQuiet
    BY <1>0, <2>1 DEF SharedSettings!DefaultsAreQuiet
  <2> QED BY <1>0, <1>1, <2>1, <2>3, <2>4 DEF SharedSettings!TypeOK
<1>5. SharedSettings!Restart => SharedSettings!TypeOK' /\ SharedSettings!DefaultsAreQuiet
  BY <1>0, <1>1 DEF SharedSettings!TypeOK, SharedSettings!Restart,
     SharedSettings!DefaultsAreQuiet, SharedSettings!Changed
<1>6. UNCHANGED SharedSettings!vars => SharedSettings!TypeOK'
  BY DEF SharedSettings!vars, SharedSettings!TypeOK
<1> QED BY <1>2, <1>3, <1>4, <1>5, <1>6 DEF SharedSettings!Next

LEMMA SharedSettingsAlways ==
    SharedSettings!Spec => [][SharedSettings!DefaultsAreQuiet]_(SharedSettings!vars)
<1>1. SharedSettings!Init => SharedSettings!TypeOK
  BY DEF SharedSettings!Init, SharedSettings!TypeOK, SharedSettings!HandlerStates
<1>2. SharedSettings!TypeOK /\ [SharedSettings!Next]_(SharedSettings!vars)
        => SharedSettings!TypeOK' /\ [SharedSettings!DefaultsAreQuiet]_(SharedSettings!vars)
  BY SharedSettingsStep
<1> QED BY <1>1, <1>2, PTL DEF SharedSettings!Spec

\* With one request at a time a stored setting changes only to what was asked;
\* requests that store the defaults at the same time never change a setting that
\* is read (InstanceSettingsService).
THEOREM AlwaysDoneAsAsked ==
    ASSUME NEW h, Handler = {h}
    PROVE  PlatformSpec => DoneAsAsked
<1>1. Settings!Spec => [][Settings!AskedFor]_(Settings!vars)
  BY SettingsAlways, PTL
<1>2. [Settings!AskedFor]_(Settings!vars) => [Settings!AskedFor]_settingVars
  <2>1. UNCHANGED documents => Settings!AskedFor
    BY DEF Settings!AskedFor, Settings!Changed
  <2> QED BY <2>1 DEF Settings!vars
<1>3. [SharedSettings!DefaultsAreQuiet]_(SharedSettings!vars)
        => [SharedSettings!DefaultsAreQuiet]_settingVars
  <2>1. UNCHANGED documents => SharedSettings!DefaultsAreQuiet
    BY DEF SharedSettings!DefaultsAreQuiet, SharedSettings!Changed
  <2> QED BY <2>1 DEF SharedSettings!vars
<1>4. /\ service = "settings" => [Settings!AskedFor]_settingVars
      /\ service = "shared settings" => [SharedSettings!DefaultsAreQuiet]_settingVars
      => [/\ service = "settings" => Settings!AskedFor
          /\ service = "shared settings" => SharedSettings!DefaultsAreQuiet]_settingVars
  OBVIOUS
<1> QED BY <1>1, <1>2, <1>3, <1>4, SharedSettingsAlways, SettingsPart,
           SharedSettingsPart, PTL DEF DoneAsAsked

-----------------------------------------------------------------------------
(* What is stored: sums over finite sets of media                          *)

\* Every set of numbers has a least one.
LEMMA LeastNumber ==
    ASSUME NEW T, T \subseteq Nat, T # {}
    PROVE  \E n \in T : \A m \in T : n <= m
<1>1. PICK n \in T : \A m \in T : ~(<<m, n>> \in OpToRel(<, Nat))
  BY WFMin, NatLessThanWellFounded
<1>2. ASSUME NEW m \in T PROVE n <= m
  <2>1. m \in Nat /\ n \in Nat
    OBVIOUS
  <2>2. ~(m < n)
    BY <1>1, <2>1 DEF OpToRel
  <2> QED BY <2>1, <2>2
<1> QED BY <1>2

\* Induction over the subsets of a finite set, by the smallest counterexample.
LEMMA SmallestSubset ==
    ASSUME NEW S, IsFiniteSet(S), NEW C, C \subseteq SUBSET S, C # {}
    PROVE  \E s \in C : \A x \in s : s \ {x} \notin C
<1> DEFINE T == {Cardinality(s) : s \in C}
<1>1. \A s \in C : IsFiniteSet(s) /\ Cardinality(s) \in Nat
  BY FS_Subset, FS_CardinalityType
<1>2. T \subseteq Nat /\ T # {}
  BY <1>1
<1>3. PICK n \in T : \A m \in T : n <= m
  <2> HIDE DEF T
  <2> QED BY <1>2, LeastNumber
<1>4. PICK s \in C : n = Cardinality(s)
  OBVIOUS
<1>5. ASSUME NEW x \in s, s \ {x} \in C PROVE FALSE
  <2>1. Cardinality(s \ {x}) = Cardinality(s) - 1
    BY <1>1, FS_RemoveElement
  <2>2. Cardinality(s) <= Cardinality(s \ {x})
    BY <1>3, <1>4, <1>5
  <2> QED BY <1>1, <2>1, <2>2
<1> QED BY <1>5

\* The sums over the subsets of S, as StorageUsage computes them.
AnyOf(s) == CHOOSE m \in s : TRUE
SumBody(s, sums) == IF s = {} THEN 0 ELSE sums[s \ {AnyOf(s)}] + AnyOf(s).size
AreSums(S, sums) == sums = [s \in SUBSET S |-> SumBody(s, sums)]
Sum(S) == (CHOOSE sums : AreSums(S, sums))[S]

LEMMA UsageIsSum == Media!StorageUsage = Sum(records)
BY DEF Media!StorageUsage, Media!FoldSet, Media!MapThenFoldSet, Sum, AreSums, SumBody, AnyOf

\* There are such sums.
LEMMA SumsExist ==
    ASSUME NEW S, IsFiniteSet(S), \A m \in S : m.size \in Nat
    PROVE  \E sums \in [SUBSET S -> Nat] : AreSums(S, sums)
<1> DEFINE Upto(n, sums) ==
             \A s \in SUBSET S : Cardinality(s) <= n => sums[s] = SumBody(s, sums)
           T == {n \in Nat : ~ \E sums \in [SUBSET S -> Nat] : Upto(n, sums)}
<1>1. \A s \in SUBSET S : IsFiniteSet(s) /\ Cardinality(s) \in Nat
  BY FS_Subset, FS_CardinalityType
<1>2. \A s \in SUBSET S :
        s # {} => /\ AnyOf(s) \in s /\ s \ {AnyOf(s)} \in SUBSET S
                  /\ Cardinality(s \ {AnyOf(s)}) = Cardinality(s) - 1
  BY <1>1, FS_RemoveElement DEF AnyOf
<1>3. ASSUME NEW s \in SUBSET S, NEW sums \in [SUBSET S -> Nat]
      PROVE  SumBody(s, sums) \in Nat
  <2>1. CASE s = {}
    BY <2>1 DEF SumBody
  <2>2. CASE s # {}
    <3>1. sums[s \ {AnyOf(s)}] \in Nat /\ AnyOf(s).size \in Nat
      BY <1>2, <2>2
    <3> QED BY <2>2, <3>1 DEF SumBody
  <2> QED BY <2>1, <2>2
<1>4. \E sums \in [SUBSET S -> Nat] : Upto(0, sums)
  <2> WITNESS [s \in SUBSET S |-> 0] \in [SUBSET S -> Nat]
  <2> SUFFICES ASSUME NEW s \in SUBSET S, Cardinality(s) <= 0
               PROVE  [t \in SUBSET S |-> 0][s] = SumBody(s, [t \in SUBSET S |-> 0])
    OBVIOUS
  <2>1. s = {}
    BY <1>1, FS_EmptySet
  <2> QED BY <2>1 DEF SumBody
<1>5. ASSUME NEW n \in Nat, NEW sums \in [SUBSET S -> Nat], Upto(n, sums)
      PROVE  \E more \in [SUBSET S -> Nat] : Upto(n + 1, more)
  <2> DEFINE more == [s \in SUBSET S |-> SumBody(s, sums)]
  <2>1. more \in [SUBSET S -> Nat]
    BY <1>3
  <2>2. ASSUME NEW s \in SUBSET S, Cardinality(s) <= n + 1
        PROVE  more[s] = SumBody(s, more)
    <3>1. CASE s = {}
      BY <3>1 DEF SumBody
    <3>2. CASE s # {}
      <4> DEFINE t == s \ {AnyOf(s)}
      <4>1. t \in SUBSET S /\ Cardinality(t) <= n
        BY <1>1, <1>2, <2>2, <3>2
      <4>2. more[t] = sums[t]
        BY <1>5, <4>1
      <4> QED BY <3>2, <4>2 DEF SumBody
    <3> QED BY <3>1, <3>2
  <2> HIDE DEF more
  <2> QED BY <2>1, <2>2
<1>6. T = {}
  <2> SUFFICES ASSUME T # {} PROVE FALSE
    OBVIOUS
  <2>1. PICK n \in T : \A m \in T : n <= m
    <3>1. T \subseteq Nat
      OBVIOUS
    <3> HIDE DEF T
    <3> QED BY <3>1, LeastNumber
  <2>2. n \in Nat /\ n # 0
    BY <1>4
  <2>3. n - 1 \in Nat /\ n - 1 \notin T
    <3> HIDE DEF T
    <3> QED BY <2>1, <2>2
  <2>4. PICK sums \in [SUBSET S -> Nat] : Upto(n - 1, sums)
    BY <2>3
  <2>5. \E more \in [SUBSET S -> Nat] : Upto((n - 1) + 1, more)
    <3> HIDE DEF Upto
    <3> QED BY <1>5, <2>3, <2>4
  <2>6. (n - 1) + 1 = n
    BY <2>2
  <2> QED BY <2>5, <2>6
<1>7. PICK sums \in [SUBSET S -> Nat] : Upto(Cardinality(S), sums)
  BY <1>1, <1>6
<1>8. \A s \in SUBSET S : Cardinality(s) <= Cardinality(S)
  BY FS_Subset
<1>9. \A s \in SUBSET S : sums[s] = SumBody(s, sums)
  BY <1>7, <1>8
<1>10. sums = [s \in SUBSET S |-> sums[s]]
  OBVIOUS
<1>11. AreSums(S, sums)
  BY <1>9, <1>10 DEF AreSums
<1> QED BY <1>11

\* All subsets have their sums among those of the set.
LEMMA SumsAgree ==
    ASSUME NEW S, IsFiniteSet(S), \A m \in S : m.size \in Nat,
           NEW T \in SUBSET S, NEW f, NEW g, AreSums(S, f), AreSums(T, g)
    PROVE  f[T] = g[T]
<1> DEFINE C == {s \in SUBSET T : f[s] # g[s]}
<1>1. \A s \in SUBSET T : f[s] = SumBody(s, f) /\ g[s] = SumBody(s, g)
  BY DEF AreSums
<1>2. C = {}
  <2> SUFFICES ASSUME C # {} PROVE FALSE
    OBVIOUS
  <2>1. PICK s \in C : \A x \in s : s \ {x} \notin C
    <3>1. C \subseteq SUBSET S
      OBVIOUS
    <3> HIDE DEF C
    <3> QED BY <3>1, SmallestSubset
  <2>2. s # {}
    BY <1>1 DEF SumBody
  <2>3. AnyOf(s) \in s
    BY <2>2 DEF AnyOf
  <2>4. f[s \ {AnyOf(s)}] = g[s \ {AnyOf(s)}]
    BY <2>1, <2>3
  <2>5. f[s] = g[s]
    BY <1>1, <2>2, <2>4 DEF SumBody
  <2> QED BY <2>5
<1> QED BY <1>2

\* It does not matter which element is added last.
InAnyOrder(S, sums) ==
    \A s \in SUBSET S : \A m \in s : sums[s] = sums[s \ {m}] + m.size

LEMMA SumsInAnyOrder ==
    ASSUME NEW S, IsFiniteSet(S), \A m \in S : m.size \in Nat,
           NEW f, f \in [SUBSET S -> Nat], AreSums(S, f)
    PROVE  InAnyOrder(S, f)
<1> DEFINE C == {s \in SUBSET S : ~ \A x \in s : f[s] = f[s \ {x}] + x.size}
<1>1. \A s \in SUBSET S : f[s] = SumBody(s, f)
  BY DEF AreSums
<1>2. C = {}
  <2> SUFFICES ASSUME C # {} PROVE FALSE
    OBVIOUS
  <2>1. PICK s \in C : \A x \in s : s \ {x} \notin C
    <3>1. C \subseteq SUBSET S
      OBVIOUS
    <3> HIDE DEF C
    <3> QED BY <3>1, SmallestSubset
  <2>2. PICK x \in s : f[s] # f[s \ {x}] + x.size
    OBVIOUS
  <2> DEFINE y == AnyOf(s)
  <2>3. y \in s
    BY <2>2 DEF AnyOf
  <2>4. f[s] = f[s \ {y}] + y.size
    BY <1>1, <2>2 DEF SumBody
  <2>5. x # y
    BY <2>2, <2>4
  <2> HIDE DEF y
  <2>6. s \ {y} \in SUBSET S /\ s \ {y} \notin C /\ x \in s \ {y}
    BY <2>1, <2>3, <2>5
  <2>7. s \ {x} \in SUBSET S /\ s \ {x} \notin C /\ y \in s \ {x}
    BY <2>1, <2>3, <2>5
  <2>8. f[s \ {y}] = f[(s \ {y}) \ {x}] + x.size
    BY <2>6
  <2>9. f[s \ {x}] = f[(s \ {x}) \ {y}] + y.size
    BY <2>7
  <2>10. (s \ {y}) \ {x} = (s \ {x}) \ {y}
    OBVIOUS
  <2>11. /\ (s \ {x}) \ {y} \in SUBSET S /\ f[(s \ {x}) \ {y}] \in Nat
         /\ x.size \in Nat /\ y.size \in Nat
    BY <2>3
  <2> DEFINE r == (s \ {x}) \ {y}
  <2>12. /\ f[s \ {y}] = f[r] + x.size /\ f[s \ {x}] = f[r] + y.size
         /\ f[r] \in Nat /\ x.size \in Nat /\ y.size \in Nat
    BY <2>8, <2>9, <2>10, <2>11
  <2> HIDE DEF r, C
  <2> QED BY <2>2, <2>4, <2>12
<1> QED BY <1>2 DEF InAnyOrder

\* What the sums have to be: one more medium adds its size, fewer media are less.
LEMMA SumFacts ==
    ASSUME NEW S, IsFiniteSet(S), \A m \in S : m.size \in Nat
    PROVE  /\ Sum(S) \in Nat
           /\ Sum({}) = 0
           /\ \A m \in S : Sum(S) = Sum(S \ {m}) + m.size
           /\ \A T \in SUBSET S : Sum(T) <= Sum(S)
<1>1. PICK f \in [SUBSET S -> Nat] : AreSums(S, f)
  BY SumsExist
<1>2. ASSUME NEW T \in SUBSET S PROVE Sum(T) = f[T]
  <2>1. IsFiniteSet(T) /\ \A m \in T : m.size \in Nat
    BY FS_Subset
  <2>2. \E g : AreSums(T, g)
    BY <2>1, SumsExist
  <2> DEFINE g == CHOOSE sums : AreSums(T, sums)
  <2>3. AreSums(T, g)
    BY <2>2
  <2>4. Sum(T) = g[T]
    BY DEF Sum
  <2> HIDE DEF g
  <2>5. f[T] = g[T]
    BY <1>1, <2>3, SumsAgree
  <2> QED BY <2>4, <2>5
<1>3. f[{}] = 0
  BY <1>1 DEF AreSums, SumBody
<1>4. \A s \in SUBSET S : \A x \in s : f[s] = f[s \ {x}] + x.size
  <2>1. InAnyOrder(S, f)
    BY <1>1, SumsInAnyOrder
  <2> QED BY <2>1 DEF InAnyOrder
<1>5. ASSUME NEW T \in SUBSET S PROVE f[T] <= f[S]
  <2> DEFINE C == {s \in SUBSET S : T \subseteq s /\ ~(f[T] <= f[s])}
  <2> SUFFICES ASSUME C # {} PROVE FALSE
    OBVIOUS
  <2>1. PICK s \in C : \A x \in s : s \ {x} \notin C
    <3>1. C \subseteq SUBSET S
      OBVIOUS
    <3> HIDE DEF C
    <3> QED BY <3>1, SmallestSubset
  <2>2. f[T] \in Nat /\ f[s] \in Nat /\ T # s
    <3>1. f[T] \in Nat /\ f[s] \in Nat
      OBVIOUS
    <3> QED BY <2>1, <3>1
  <2>3. PICK x \in s : x \notin T
    BY <2>1, <2>2
  <2>4. s \ {x} \in SUBSET S /\ T \subseteq s \ {x} /\ f[T] <= f[s \ {x}]
    BY <2>1, <2>3
  <2>5. f[s] = f[s \ {x}] + x.size /\ f[s \ {x}] \in Nat /\ x.size \in Nat
    BY <1>4, <2>4
  <2> QED BY <2>1, <2>2, <2>4, <2>5
<1>6. \A m \in S : S \ {m} \in SUBSET S
  OBVIOUS
<1> QED BY <1>2, <1>3, <1>4, <1>5, <1>6

-----------------------------------------------------------------------------
(* Media, one request at a time                                            *)

Uploading == {"replace", "process", "put", "save"}
Deleting == {"remove", "forget"}

\* Records are of earlier uploads than the one in progress, which was let in
\* under the cap and, once the replaced file is gone, has its field to itself.
MediaInv ==
    /\ Media!TypeOK /\ IsFiniteSet(records)
    /\ \A m \in records : m.id <= uploads
    /\ Media!RecordMatchesObject /\ Media!OneFilePerField
    /\ MediaLimit # 0 => Sum(records) < 2 * MediaLimit + Media!Max(MediaSizes)
    /\ \A h \in Handler :
         /\ uploaders[h].at \in Uploading =>
              /\ uploaders[h].media.id <= uploads
              /\ \A m \in records : m.id # uploaders[h].media.id
              /\ MediaLimit # 0 => Sum(records) < 2 * MediaLimit
         /\ uploaders[h].at \in Uploading \ {"replace"} =>
              \A m \in records : m.field # None => m.field # uploaders[h].media.field
         /\ uploaders[h].at = "save" =>
              objects[Media!ObjectName(uploaders[h].media)] = uploaders[h].media.id

LEMMA MediaConstants ==
    /\ MediaSizes \subseteq Nat \ {0} /\ MediaLimit \in Nat
    /\ Media!Max(MediaSizes) \in Nat
    /\ \A size \in MediaSizes : size <= Media!Max(MediaSizes)
    /\ Fields \cap (1..4) = {} /\ None \notin Fields \cup (1..4)
<1>1. /\ MediaSizes \subseteq Nat \ {0} /\ MediaLimit \in Nat
      /\ \E largest \in MediaSizes : \A size \in MediaSizes : size <= largest
      /\ Fields \cap (1..4) = {} /\ None \notin Fields \cup (1..4)
  BY PlatformAssumptions DEF PlatformAssumptions, Media!MediaAssumption
<1>2. \E x \in MediaSizes : \A y \in MediaSizes : x >= y
  BY <1>1
<1>3. /\ Media!Max(MediaSizes) \in MediaSizes
      /\ \A y \in MediaSizes : Media!Max(MediaSizes) >= y
  BY <1>2 DEF Media!Max
<1> QED BY <1>1, <1>3

\* Media of uploads with different numbers, or in different fields, have
\* objects of their own.
LEMMA MediaNames ==
    ASSUME NEW m \in Media!Media
    PROVE  /\ m.id \in 1..4 /\ m.field \in Fields \cup {None} /\ m.size \in MediaSizes
           /\ m.size \in Nat
           /\ Media!ObjectName(m) \in Media!Names
           /\ \A n \in Media!Media :
                Media!ObjectName(m) = Media!ObjectName(n) =>
                  \/ m.field = None /\ n.field = None /\ m.id = n.id
                  \/ m.field # None /\ m.field = n.field
BY MediaConstants DEF Media!Media, Media!Uploads, Media!ObjectName, Media!Names

LEMMA MediaHandler ==
    ASSUME NEW s \in Media!HandlerStates
    PROVE  \/ s = Media!Idle /\ s.at = "idle"
           \/ /\ s.at \in Uploading \cup Deleting /\ s.media \in Media!Media
              /\ s = [at |-> s.at, media |-> s.media]
BY DEF Media!HandlerStates, Media!Idle, Uploading, Deleting

LEMMA MediaGoto ==
    ASSUME Media!TypeOK, NEW h \in Handler, uploaders[h].at # "idle",
           NEW at \in Uploading \cup Deleting, Media!Goto(h, at)
    PROVE  /\ uploaders' = [uploaders EXCEPT ![h] = [at |-> at, media |-> uploaders[h].media]]
           /\ uploaders' \in [Handler -> Media!HandlerStates]
           /\ uploaders[h].media \in Media!Media
           /\ uploaders'[h].at = at /\ uploaders'[h].media = uploaders[h].media
<1>1. uploaders \in [Handler -> Media!HandlerStates]
  BY DEF Media!TypeOK
<1>2. /\ uploaders[h].media \in Media!Media
      /\ uploaders[h] = [at |-> uploaders[h].at, media |-> uploaders[h].media]
  BY <1>1, MediaHandler
<1>3. [uploaders[h] EXCEPT !.at = at] = [at |-> at, media |-> uploaders[h].media]
  BY <1>2
<1>4. uploaders' = [uploaders EXCEPT ![h] = [uploaders[h] EXCEPT !.at = at]]
  BY DEF Media!Goto
<1>5. [at |-> at, media |-> uploaders[h].media] \in Media!HandlerStates
  BY <1>2 DEF Media!HandlerStates, Uploading, Deleting
<1> QED BY <1>1, <1>2, <1>3, <1>4, <1>5

LEMMA MediaAnswer ==
    ASSUME Media!TypeOK, NEW h \in Handler, Media!Answer(h)
    PROVE  /\ uploaders' \in [Handler -> Media!HandlerStates]
           /\ uploaders'[h].at = "idle"
BY DEF Media!TypeOK, Media!Answer, Media!HandlerStates, Media!Idle

\* Fewer records are as regular as more.
LEMMA FewerRecords ==
    ASSUME MediaInv, NEW T \in SUBSET records
    PROVE  /\ T \subseteq Media!Media /\ IsFiniteSet(T)
           /\ MediaLimit # 0 => Sum(T) < 2 * MediaLimit + Media!Max(MediaSizes)
           /\ MediaLimit # 0 /\ Sum(records) < 2 * MediaLimit => Sum(T) < 2 * MediaLimit
<1>1. records \subseteq Media!Media /\ IsFiniteSet(records)
  BY DEF MediaInv, Media!TypeOK
<1>2. \A m \in records : m.size \in Nat
  BY <1>1, MediaNames
<1>3. IsFiniteSet(T) /\ \A m \in T : m.size \in Nat
  BY <1>1, <1>2, FS_Subset
<1>4. Sum(T) <= Sum(records) /\ Sum(records) \in Nat
  BY <1>1, <1>2, SumFacts
<1>5. Sum(T) \in Nat
  BY <1>3, SumFacts
<1>6. MediaLimit # 0 => Sum(records) < 2 * MediaLimit + Media!Max(MediaSizes)
  BY DEF MediaInv
<1> QED BY <1>1, <1>3, <1>4, <1>5, <1>6, MediaConstants

LEMMA MediaStep ==
    ASSUME MediaInv, NEW h, Handler = {h}, [Media!Next]_(Media!vars)
    PROVE  MediaInv'
<1>0. /\ records \subseteq Media!Media /\ IsFiniteSet(records)
      /\ objects \in [Media!Names -> 1..4 \cup {None}]
      /\ uploaders \in [Handler -> Media!HandlerStates]
      /\ uploads \in 0..4 /\ outages \in 0..1 /\ stray \subseteq 1..4
  BY DEF MediaInv, Media!TypeOK, Media!Uploads
<1>1. ASSUME NEW field \in Fields \cup {None}, NEW size \in MediaSizes,
             Media!Upload(h, field, size)
      PROVE  MediaInv'
  <2> DEFINE media == [id |-> uploads + 1, field |-> field, size |-> size]
             state == [at |-> IF field = None THEN "process" ELSE "replace", media |-> media]
  <2>1. /\ uploads < 4 /\ uploads' = uploads + 1
        /\ uploaders' = [uploaders EXCEPT ![h] = state]
        /\ UNCHANGED <<records, objects, stray, outages>>
        /\ MediaLimit = 0 \/ (Media!StorageUsage + 1) \div 2 < MediaLimit
    BY <1>1 DEF Media!Upload, Media!Enforce, Media!Used
  <2>2. media \in Media!Media /\ media.id = uploads + 1 /\ media.field = field
    BY <1>0, <2>1 DEF Media!Media, Media!Uploads
  <2>3. /\ state.at = (IF field = None THEN "process" ELSE "replace")
        /\ state.media = media
    OBVIOUS
  <2> HIDE DEF media
  <2>4. state \in Media!HandlerStates
    BY <2>2 DEF Media!HandlerStates
  <2> HIDE DEF state
  <2>5. uploaders' \in [Handler -> Media!HandlerStates] /\ uploaders'[h] = state
    BY <1>0, <2>1, <2>4
  <2>6. MediaLimit # 0 => Sum(records) < 2 * MediaLimit
    <3>1. Sum(records) \in Nat
      <4>1. \A m \in records : m.size \in Nat
        BY <1>0, MediaNames
      <4> QED BY <1>0, <4>1, SumFacts
    <3>2. MediaLimit # 0 => (Sum(records) + 1) \div 2 < MediaLimit
      BY <2>1, UsageIsSum
    <3> QED BY <3>1, <3>2, MediaConstants
  <2>7. \A m \in records : m.id <= uploads /\ m.id \in Nat
    BY <1>0, MediaNames DEF MediaInv
  <2>8. Media!TypeOK'
    BY <1>0, <2>1, <2>5 DEF Media!TypeOK, Media!Uploads
  <2>9. state.at # "save" /\ (state.at \in Uploading \ {"replace"} => media.field = None)
    BY <2>2, <2>3
  <2>10. \A m \in records : m.id # media.id /\ m.id <= uploads'
    BY <1>0, <2>1, <2>2, <2>7
  <2>11. media.id <= uploads'
    BY <1>0, <2>1, <2>2
  <2> QED BY <1>0, <2>1, <2>3, <2>5, <2>6, <2>8, <2>9, <2>10, <2>11
          DEF MediaInv, Media!RecordMatchesObject, Media!OneFilePerField
<1>2. CASE Media!DeleteReplaced(h)
  <2> DEFINE media == uploaders[h].media
  <2>1. /\ uploaders[h].at = "replace" /\ Media!Goto(h, "process")
        /\ records' = {m \in records : m.field # media.field}
        /\ UNCHANGED <<objects, stray, uploads, outages>>
    BY <1>2 DEF Media!DeleteReplaced, Media!At
  <2> HIDE DEF media
  <2>2. /\ uploaders' \in [Handler -> Media!HandlerStates]
        /\ uploaders'[h].at = "process" /\ uploaders'[h].media = media
    BY <2>1, MediaGoto DEF MediaInv, Uploading, media
  <2>3. records' \in SUBSET records
    BY <2>1
  <2>4. /\ records' \subseteq Media!Media /\ IsFiniteSet(records')
        /\ MediaLimit # 0 => Sum(records') < 2 * MediaLimit + Media!Max(MediaSizes)
        /\ MediaLimit # 0 /\ Sum(records) < 2 * MediaLimit => Sum(records') < 2 * MediaLimit
    BY <2>3, FewerRecords
  <2>5. /\ media.id <= uploads /\ \A m \in records : m.id # media.id
        /\ MediaLimit # 0 => Sum(records) < 2 * MediaLimit
    BY <2>1 DEF MediaInv, Uploading, media
  <2>6. Media!TypeOK'
    BY <1>0, <2>1, <2>2, <2>4 DEF Media!TypeOK, Media!Uploads
  <2> QED BY <2>1, <2>2, <2>3, <2>4, <2>5, <2>6
          DEF MediaInv, Media!RecordMatchesObject, Media!OneFilePerField
<1>3. CASE /\ uploaders[h].at = "process" /\ Media!Goto(h, "put")
           /\ UNCHANGED <<records, objects, stray, uploads, outages>>
  <2>1. /\ uploaders' \in [Handler -> Media!HandlerStates]
        /\ uploaders'[h].at = "put" /\ uploaders'[h].media = uploaders[h].media
    BY <1>3, MediaGoto DEF MediaInv, Uploading
  <2>2. Media!TypeOK'
    BY <1>0, <1>3, <2>1 DEF Media!TypeOK, Media!Uploads
  <2> QED BY <1>3, <2>1, <2>2
          DEF MediaInv, Media!RecordMatchesObject, Media!OneFilePerField, Uploading
<1>4. CASE /\ Media!Answer(h) /\ UNCHANGED <<objects, uploads, outages>>
           /\ records' \in SUBSET records /\ stray' \subseteq 1..4
  <2>1. uploaders' \in [Handler -> Media!HandlerStates] /\ uploaders'[h].at = "idle"
    BY <1>4, MediaAnswer DEF MediaInv
  <2>2. /\ records' \subseteq Media!Media /\ IsFiniteSet(records')
        /\ MediaLimit # 0 => Sum(records') < 2 * MediaLimit + Media!Max(MediaSizes)
    BY <1>4, FewerRecords
  <2>3. Media!TypeOK'
    BY <1>0, <1>4, <2>1, <2>2 DEF Media!TypeOK, Media!Uploads
  <2> QED BY <1>4, <2>1, <2>2, <2>3
          DEF MediaInv, Media!RecordMatchesObject, Media!OneFilePerField, Uploading
<1>5. CASE Media!PutObject(h)
  <2> DEFINE media == uploaders[h].media
             name == Media!ObjectName(media)
  <2>1. /\ uploaders[h].at = "put" /\ Media!Goto(h, "save")
        /\ objects' = [objects EXCEPT ![name] = media.id]
        /\ UNCHANGED <<records, stray, uploads, outages>>
    BY <1>5 DEF Media!PutObject, Media!At
  <2>2. /\ uploaders' \in [Handler -> Media!HandlerStates] /\ media \in Media!Media
        /\ uploaders'[h].at = "save" /\ uploaders'[h].media = media
    BY <2>1, MediaGoto DEF MediaInv, Uploading
  <2>3. /\ media.id <= uploads
        /\ \A m \in records : /\ m.id # media.id
                              /\ m.field # None => m.field # media.field
        /\ MediaLimit # 0 => Sum(records) < 2 * MediaLimit
    BY <2>1 DEF MediaInv, Uploading
  <2> HIDE DEF media
  <2>4. name \in Media!Names /\ media.id \in 1..4
    BY <2>2, MediaNames
  <2>5. \A m \in records : Media!ObjectName(m) # name
    BY <1>0, <2>2, <2>3, MediaNames
  <2>6. name = Media!ObjectName(media)
    OBVIOUS
  <2> HIDE DEF name
  <2>7. objects' \in [Media!Names -> 1..4 \cup {None}] /\ objects'[name] = media.id
    BY <1>0, <2>1, <2>4
  <2>8. Media!RecordMatchesObject'
    <3> SUFFICES ASSUME NEW m \in records
                 PROVE  objects'[Media!ObjectName(m)] \in {m.id, None}
      BY <2>1 DEF Media!RecordMatchesObject, Media!ObjectName
    <3>1. objects[Media!ObjectName(m)] \in {m.id, None}
      BY DEF MediaInv, Media!RecordMatchesObject
    <3>2. objects'[Media!ObjectName(m)] = objects[Media!ObjectName(m)]
      BY <1>0, <2>1, <2>5, MediaNames
    <3> QED BY <3>1, <3>2
  <2>9. Media!TypeOK'
    BY <1>0, <2>1, <2>2, <2>7 DEF Media!TypeOK, Media!Uploads
  <2>10. Media!OneFilePerField'
    BY <2>1 DEF MediaInv, Media!OneFilePerField
  <2>11. objects'[Media!ObjectName(uploaders'[h].media)] = uploaders'[h].media.id
    BY <2>2, <2>6, <2>7
  <2> QED BY <2>1, <2>2, <2>3, <2>8, <2>9, <2>10, <2>11
          DEF MediaInv, Media!ObjectName
<1>6. CASE Media!SaveMedia(h)
  <2> DEFINE media == uploaders[h].media
  <2>1. /\ uploaders[h].at = "save" /\ Media!Answer(h)
        /\ records' = records \cup {media}
        /\ UNCHANGED <<objects, stray, uploads, outages>>
    BY <1>6 DEF Media!SaveMedia, Media!At
  <2>2. uploaders' \in [Handler -> Media!HandlerStates] /\ uploaders'[h].at = "idle"
    BY <2>1, MediaAnswer DEF MediaInv
  <2>3. media \in Media!Media
    BY <1>0, <2>1, MediaHandler
  <2>4. /\ media.id <= uploads
        /\ \A m \in records : /\ m.id # media.id
                              /\ m.field # None => m.field # media.field
        /\ MediaLimit # 0 => Sum(records) < 2 * MediaLimit
        /\ objects[Media!ObjectName(media)] = media.id
    BY <2>1 DEF MediaInv, Uploading
  <2> HIDE DEF media
  <2>5. MediaLimit # 0 => Sum(records') < 2 * MediaLimit + Media!Max(MediaSizes)
    <3>1. IsFiniteSet(records') /\ media \in records' /\ records = records' \ {media}
      BY <1>0, <2>1, <2>4, FS_AddElement
    <3>2. \A m \in records' : m.size \in Nat
      BY <1>0, <2>1, <2>3, MediaNames
    <3>3. Sum(records') = Sum(records) + media.size
      BY <3>1, <3>2, SumFacts
    <3>4. Sum(records) \in Nat /\ media.size \in Nat /\ media.size <= Media!Max(MediaSizes)
      <4>1. \A m \in records : m.size \in Nat
        BY <1>0, MediaNames
      <4>2. Sum(records) \in Nat
        BY <1>0, <4>1, SumFacts
      <4> QED BY <2>3, <4>2, MediaNames, MediaConstants
    <3> QED BY <2>4, <3>3, <3>4, MediaConstants
  <2>6. IsFiniteSet(records') /\ records' \subseteq Media!Media
    BY <1>0, <2>1, <2>3, FS_AddElement
  <2>7. Media!TypeOK'
    BY <1>0, <2>1, <2>2, <2>6 DEF Media!TypeOK, Media!Uploads
  <2>8. Media!RecordMatchesObject'
    BY <2>1, <2>4 DEF MediaInv, Media!RecordMatchesObject, Media!ObjectName
  <2>9. Media!OneFilePerField'
    BY <2>1, <2>4 DEF MediaInv, Media!OneFilePerField
  <2>10. \A m \in records' : m.id <= uploads'
    BY <2>1, <2>4 DEF MediaInv
  <2> QED BY <2>2, <2>5, <2>6, <2>7, <2>8, <2>9, <2>10 DEF MediaInv, Uploading
<1>7. ASSUME NEW m \in records, Media!DeleteFile(h, m)
      PROVE  MediaInv'
  <2> DEFINE state == [at |-> "remove", media |-> m]
  <2>1. /\ uploaders' = [uploaders EXCEPT ![h] = state]
        /\ UNCHANGED <<records, objects, stray, uploads, outages>>
    BY <1>7 DEF Media!DeleteFile
  <2>2. state \in Media!HandlerStates /\ state.at = "remove"
    BY <1>0 DEF Media!HandlerStates
  <2> HIDE DEF state
  <2>3. uploaders' \in [Handler -> Media!HandlerStates] /\ uploaders'[h].at = "remove"
    BY <1>0, <2>1, <2>2
  <2>4. Media!TypeOK'
    BY <1>0, <2>1, <2>3 DEF Media!TypeOK, Media!Uploads
  <2> QED BY <2>1, <2>3, <2>4
          DEF MediaInv, Media!RecordMatchesObject, Media!OneFilePerField, Uploading
<1>8. CASE /\ uploaders[h].at = "remove" /\ Media!Goto(h, "forget")
           /\ objects' = [objects EXCEPT ![Media!ObjectName(uploaders[h].media)] = None]
           /\ UNCHANGED <<records, stray, uploads, outages>>
  <2>1. uploaders' \in [Handler -> Media!HandlerStates] /\ uploaders'[h].at = "forget"
    BY <1>8, MediaGoto DEF MediaInv, Deleting
  <2>2. objects' \in [Media!Names -> 1..4 \cup {None}]
    BY <1>0, <1>8
  <2>3. Media!TypeOK'
    BY <1>0, <1>8, <2>1, <2>2 DEF Media!TypeOK, Media!Uploads
  <2>4. Media!RecordMatchesObject'
    <3> SUFFICES ASSUME NEW m \in records
                 PROVE  objects'[Media!ObjectName(m)] \in {m.id, None}
      BY <1>8 DEF Media!RecordMatchesObject, Media!ObjectName
    <3>1. objects[Media!ObjectName(m)] \in {m.id, None}
      BY DEF MediaInv, Media!RecordMatchesObject
    <3>2. Media!ObjectName(m) \in Media!Names
      BY <1>0, MediaNames
    <3> QED BY <1>0, <1>8, <3>1, <3>2
  <2>5. Media!OneFilePerField'
    BY <1>8 DEF MediaInv, Media!OneFilePerField
  <2> QED BY <1>8, <2>1, <2>3, <2>4, <2>5 DEF MediaInv, Uploading
<1>9. CASE Media!Crash
  <2>1. /\ uploaders' = [g \in Handler |-> Media!Idle] /\ outages' \in 0..1
        /\ UNCHANGED <<records, objects, uploads>>
        /\ stray' = stray \cup Media!Astray(Handler)
    BY <1>0, <1>9 DEF Media!Crash
  <2>2. Media!Idle \in Media!HandlerStates /\ Media!Idle.at = "idle"
    BY DEF Media!HandlerStates, Media!Idle
  <2>3. Media!Astray(Handler) \subseteq 1..4
    BY <1>0, MediaHandler, MediaNames DEF Media!Astray, Media!Between
  <2>4. Media!TypeOK'
    BY <1>0, <2>1, <2>2, <2>3 DEF Media!TypeOK, Media!Uploads
  <2> QED BY <2>1, <2>2, <2>4
          DEF MediaInv, Media!RecordMatchesObject, Media!OneFilePerField, Uploading
<1>10. CASE UNCHANGED Media!vars
  BY <1>10 DEF Media!vars, MediaInv, Media!TypeOK, Media!RecordMatchesObject,
               Media!OneFilePerField, Media!ObjectName
<1>11. Media!Store(h) => MediaInv'
  <2>1. Media!ProcessFile(h) => MediaInv'
    BY <1>0, <1>3, <1>4 DEF Media!ProcessFile, Media!At
  <2> QED BY <1>5, <1>6, <2>1 DEF Media!Store
<1>12. Media!UploadFileOfProductPassport(h) => MediaInv'
  BY <1>1, <1>2, <1>11 DEF Media!UploadFileOfProductPassport
<1>13. Media!UploadMedia(h) => MediaInv'
  BY <1>1, <1>11 DEF Media!UploadMedia
<1>14. Media!ScanFails(h) => MediaInv'
  BY <1>0, <1>4 DEF Media!ScanFails
<1>15. Media!RemoveObject(h) => MediaInv'
  BY <1>0, <1>4, <1>8 DEF Media!RemoveObject, Media!At
<1>16. Media!RemoveById(h) => MediaInv'
  BY <1>0, <1>4 DEF Media!RemoveById
<1>17. ASSUME Media!CallFails(h) PROVE MediaInv'
  <2>1. Media!Astray({h}) \subseteq 1..4
    BY <1>0, MediaHandler, MediaNames DEF Media!Astray, Media!Between
  <2> QED BY <1>0, <1>4, <1>17, <2>1 DEF Media!CallFails
<1> QED BY <1>7, <1>9, <1>10, <1>12, <1>13, <1>14, <1>15, <1>16, <1>17 DEF Media!Next

LEMMA MediaAlways ==
    ASSUME NEW h, Handler = {h}
    PROVE  Media!Spec => [](/\ Media!TypeOK /\ Media!RecordMatchesObject
                            /\ Media!OneFilePerField /\ Media!StorageBounded)
<1>1. Media!Init => MediaInv
  <2> SUFFICES ASSUME Media!Init PROVE MediaInv
    OBVIOUS
  <2>1. /\ records = {} /\ objects = [n \in Media!Names |-> None]
        /\ uploaders = [g \in Handler |-> Media!Idle] /\ uploads = 0 /\ outages = 0 /\ stray = {}
    BY DEF Media!Init
  <2>2. Media!Idle \in Media!HandlerStates /\ Media!Idle.at = "idle"
    BY DEF Media!HandlerStates, Media!Idle
  <2>3. Media!TypeOK
    BY <2>1, <2>2 DEF Media!TypeOK
  <2>4. IsFiniteSet(records) /\ Sum(records) = 0
    BY <2>1, FS_EmptySet, SumFacts
  <2>5. MediaLimit # 0 => Sum(records) < 2 * MediaLimit + Media!Max(MediaSizes)
    BY <2>4, MediaConstants
  <2> QED BY <2>1, <2>2, <2>3, <2>4, <2>5
          DEF MediaInv, Media!RecordMatchesObject, Media!OneFilePerField, Uploading
<1>2. MediaInv /\ [Media!Next]_(Media!vars) => MediaInv'
  BY MediaStep
<1>3. MediaInv => /\ Media!TypeOK /\ Media!RecordMatchesObject
                  /\ Media!OneFilePerField /\ Media!StorageBounded
  BY UsageIsSum DEF MediaInv, Media!StorageBounded
<1> QED BY <1>1, <1>2, <1>3, PTL DEF Media!Spec

-----------------------------------------------------------------------------
(* Media, with requests that overlap                                       *)

RecordsAreUnique ==
    /\ \A m \in records : m.id <= uploads
    /\ \A m, n \in records : m.id = n.id => m = n

HasIdentity(h) ==
    /\ uploaders[h].at # "idle" => uploaders[h].media.id <= uploads
    /\ uploaders[h].at \in Uploading =>
         /\ \A m \in records : m.id # uploaders[h].media.id
         /\ \A g \in Handlers \ {h} :
              uploaders[g].at # "idle" => uploaders[g].media.id # uploaders[h].media.id
    /\ uploaders[h].at \in Deleting =>
         \A m \in records : m.id = uploaders[h].media.id => m = uploaders[h].media

HasObject(h) ==
    /\ uploaders[h].at = "replace" => uploaders[h].media.field # None
    /\ uploaders[h].at = "save" /\ uploaders[h].media.field = None =>
         objects[uploaders[h].media.id] # None
    /\ uploaders[h].at = "forget" /\ uploaders[h].media.field = None =>
         objects[uploaders[h].media.id] = None

\* Of a free file there is only the record or only the object.
Apart(n) == (\E m \in records : m.field = None /\ m.id = n) # (objects[n] # None)
InBetween(n) ==
    \E h \in Handlers : /\ uploaders[h].at \in {"save", "forget"}
                        /\ uploaders[h].media.id = n /\ uploaders[h].media.field = None

\* A medium has one identity in all the requests that deal with it, the one of
\* an upload is no other's, and where object and record of a free file disagree
\* a request is between the two, or was when it failed.
SharedMediaInv ==
    /\ SharedMedia!TypeOK
    /\ RecordsAreUnique
    /\ \A h \in Handlers : HasIdentity(h) /\ HasObject(h)
    /\ \A n \in (1..3) \ stray : Apart(n) => InBetween(n)

LEMMA SharedMediaNames ==
    ASSUME NEW m \in SharedMedia!Media
    PROVE  /\ m.id \in 1..3 /\ m.field \in Field \cup {None}
           /\ SharedMedia!ObjectName(m) \in SharedMedia!Names
           /\ m.field = None => SharedMedia!ObjectName(m) = m.id
           /\ m.field # None => SharedMedia!ObjectName(m) = m.field /\ m.field \notin 1..3
<1>1. Field \cap (1..3) = {} /\ None \notin Field \cup (1..3)
  BY PlatformAssumptions DEF PlatformAssumptions, SharedMedia!MediaAssumption
<1> QED BY <1>1 DEF SharedMedia!Media, SharedMedia!Uploads, SharedMedia!ObjectName,
                    SharedMedia!Names

LEMMA SharedMediaHandler ==
    ASSUME NEW s \in SharedMedia!HandlerStates
    PROVE  \/ s = SharedMedia!Idle /\ s.at = "idle"
           \/ /\ s.at \in Uploading \cup Deleting /\ s.media \in SharedMedia!Media
              /\ s = [at |-> s.at, media |-> s.media]
BY DEF SharedMedia!HandlerStates, SharedMedia!Idle, Uploading, Deleting

LEMMA SharedMediaGoto ==
    ASSUME SharedMedia!TypeOK, NEW h \in Handlers, uploaders[h].at # "idle",
           NEW at \in Uploading \cup Deleting, SharedMedia!Goto(h, at)
    PROVE  /\ uploaders' \in [Handlers -> SharedMedia!HandlerStates]
           /\ uploaders[h].media \in SharedMedia!Media
           /\ uploaders'[h].at = at /\ uploaders'[h].media = uploaders[h].media
           /\ \A g \in Handlers \ {h} : uploaders'[g] = uploaders[g]
<1>1. uploaders \in [Handlers -> SharedMedia!HandlerStates]
  BY DEF SharedMedia!TypeOK
<1>2. /\ uploaders[h].media \in SharedMedia!Media
      /\ uploaders[h] = [at |-> uploaders[h].at, media |-> uploaders[h].media]
  BY <1>1, SharedMediaHandler
<1>3. [uploaders[h] EXCEPT !.at = at] = [at |-> at, media |-> uploaders[h].media]
  BY <1>2
<1>4. uploaders' = [uploaders EXCEPT ![h] = [uploaders[h] EXCEPT !.at = at]]
  BY DEF SharedMedia!Goto
<1>5. [at |-> at, media |-> uploaders[h].media] \in SharedMedia!HandlerStates
  BY <1>2 DEF SharedMedia!HandlerStates, Uploading, Deleting
<1> QED BY <1>1, <1>2, <1>3, <1>4, <1>5

LEMMA SharedMediaAnswer ==
    ASSUME SharedMedia!TypeOK, NEW h \in Handlers, SharedMedia!Answer(h)
    PROVE  /\ uploaders' \in [Handlers -> SharedMedia!HandlerStates]
           /\ uploaders'[h].at = "idle"
           /\ \A g \in Handlers \ {h} : uploaders'[g] = uploaders[g]
BY DEF SharedMedia!TypeOK, SharedMedia!Answer, SharedMedia!HandlerStates, SharedMedia!Idle

\* A request that was at work between record and object still is.
LEMMA StillBetween ==
    ASSUME SharedMediaInv, NEW n \in (1..3) \ stray, Apart(n),
           NEW h \in Handlers, uploaders[h].at \notin {"save", "forget"},
           \A g \in Handlers \ {h} : uploaders'[g] = uploaders[g]
    PROVE  InBetween(n)'
<1>1. PICK g \in Handlers : /\ uploaders[g].at \in {"save", "forget"}
                            /\ uploaders[g].media.id = n /\ uploaders[g].media.field = None
  BY DEF SharedMediaInv, InBetween
<1>2. uploaders'[g] = uploaders[g]
  BY <1>1
<1> QED BY <1>1, <1>2 DEF InBetween

LEMMA SharedMediaStep ==
    ASSUME SharedMediaInv, [SharedMedia!Next]_(SharedMedia!vars)
    PROVE  SharedMediaInv'
<1>0. /\ records \subseteq SharedMedia!Media
      /\ objects \in [SharedMedia!Names -> 1..3 \cup {None}]
      /\ uploaders \in [Handlers -> SharedMedia!HandlerStates]
      /\ uploads \in 0..3 /\ outages \in 0..1 /\ stray \subseteq 1..3
  BY DEF SharedMediaInv, SharedMedia!TypeOK, SharedMedia!Uploads
<1>1. ASSUME NEW h \in Handlers, NEW field \in Field \cup {None}, NEW size \in MediaSizes,
             SharedMedia!Upload(h, field, size)
      PROVE  SharedMediaInv'
  <2> DEFINE media == [id |-> uploads + 1, field |-> field, size |-> size]
             state == [at |-> IF field = None THEN "process" ELSE "replace", media |-> media]
  <2>1. /\ uploaders[h].at = "idle" /\ uploads < 3 /\ uploads' = uploads + 1
        /\ uploaders' = [uploaders EXCEPT ![h] = state]
        /\ UNCHANGED <<records, objects, stray, outages>>
    BY <1>1 DEF SharedMedia!Upload, SharedMedia!At
  <2>2. media \in SharedMedia!Media /\ media.id = uploads + 1 /\ media.field = field
    BY <1>0, <2>1 DEF SharedMedia!Media, SharedMedia!Uploads
  <2>3. /\ state.at = (IF field = None THEN "process" ELSE "replace")
        /\ state.media = media
    OBVIOUS
  <2> HIDE DEF media
  <2>4. state \in SharedMedia!HandlerStates
    BY <2>2 DEF SharedMedia!HandlerStates
  <2> HIDE DEF state
  <2>5. /\ uploaders' \in [Handlers -> SharedMedia!HandlerStates] /\ uploaders'[h] = state
        /\ \A g \in Handlers \ {h} : uploaders'[g] = uploaders[g]
    BY <1>0, <2>1, <2>4
  <2>6. SharedMedia!TypeOK'
    BY <1>0, <2>1, <2>5 DEF SharedMedia!TypeOK, SharedMedia!Uploads
  <2>7. \A m \in records : m.id \in Nat /\ m.id <= uploads
    BY <1>0, SharedMediaNames DEF SharedMediaInv, RecordsAreUnique
  <2>8. \A g \in Handlers :
          uploaders[g].at # "idle" =>
              uploaders[g].media.id \in Nat /\ uploaders[g].media.id <= uploads
    BY <1>0, SharedMediaHandler, SharedMediaNames DEF SharedMediaInv, HasIdentity
  <2>9. /\ media.id <= uploads' /\ \A m \in records : m.id <= uploads' /\ m.id # media.id
        /\ \A g \in Handlers : uploaders[g].at # "idle" =>
              uploaders[g].media.id <= uploads' /\ uploaders[g].media.id # media.id
    BY <1>0, <2>1, <2>2, <2>7, <2>8
  <2>11. state.at \in {"process", "replace"} /\ (state.at = "replace" => media.field # None)
    BY <2>2, <2>3
  <2>12. RecordsAreUnique'
    BY <2>1, <2>3, <2>5, <2>9, <2>11 DEF SharedMediaInv, RecordsAreUnique, Uploading
  <2>13. ASSUME NEW g \in Handlers PROVE HasIdentity(g)'
    <3>1. CASE g = h
      BY <2>1, <2>3, <2>5, <2>9, <2>11, <3>1
         DEF SharedMediaInv, HasIdentity, Uploading, Deleting
    <3>2. CASE g # h
      BY <2>1, <2>3, <2>5, <2>9, <2>11, <3>2
         DEF SharedMediaInv, HasIdentity, Uploading, Deleting
    <3> QED BY <3>1, <3>2
  <2>14. ASSUME NEW g \in Handlers PROVE HasObject(g)'
    <3>1. CASE g = h
      BY <2>1, <2>3, <2>5, <2>9, <2>11, <3>1 DEF SharedMediaInv, HasObject
    <3>2. CASE g # h
      BY <2>1, <2>3, <2>5, <2>9, <2>11, <3>2 DEF SharedMediaInv, HasObject
    <3> QED BY <3>1, <3>2
  <2>15. ASSUME NEW n \in (1..3) \ stray', Apart(n)' PROVE InBetween(n)'
    <3>1. Apart(n)
      BY <2>1, <2>15 DEF Apart
    <3> QED BY <2>1, <2>5, <2>15, <3>1, StillBetween
  <2> QED BY <2>6, <2>12, <2>13, <2>14, <2>15 DEF SharedMediaInv
<1>2. ASSUME NEW h \in Handlers, SharedMedia!DeleteReplaced(h)
      PROVE  SharedMediaInv'
  <2>1. /\ uploaders[h].at = "replace" /\ SharedMedia!Goto(h, "process")
        /\ records' = {m \in records : m.field # uploaders[h].media.field}
        /\ UNCHANGED <<objects, stray, uploads, outages>>
    BY <1>2 DEF SharedMedia!DeleteReplaced, SharedMedia!At
  <2>2. /\ uploaders' \in [Handlers -> SharedMedia!HandlerStates]
        /\ uploaders'[h].at = "process" /\ uploaders'[h].media = uploaders[h].media
        /\ \A g \in Handlers \ {h} : uploaders'[g] = uploaders[g]
    BY <2>1, SharedMediaGoto DEF SharedMediaInv, Uploading
  <2>3. SharedMedia!TypeOK'
    BY <1>0, <2>1, <2>2 DEF SharedMedia!TypeOK, SharedMedia!Uploads
  <2>4. \A m \in records : m.field = None => m \in records'
    BY <2>1 DEF SharedMediaInv, HasObject
  <2>5. records' \subseteq records
    BY <2>1
  <2>6. RecordsAreUnique'
    BY <2>1, <2>2, <2>5 DEF SharedMediaInv, RecordsAreUnique, Uploading
  <2>7. ASSUME NEW g \in Handlers PROVE HasIdentity(g)'
    <3>1. CASE g = h
      BY <2>1, <2>2, <2>5, <3>1
         DEF SharedMediaInv, HasIdentity, Uploading, Deleting
    <3>2. CASE g # h
      BY <2>1, <2>2, <2>5, <3>2
         DEF SharedMediaInv, HasIdentity, Uploading, Deleting
    <3> QED BY <3>1, <3>2
  <2>8. ASSUME NEW g \in Handlers PROVE HasObject(g)'
    <3>1. CASE g = h
      BY <2>1, <2>2, <2>5, <3>1 DEF SharedMediaInv, HasObject
    <3>2. CASE g # h
      BY <2>1, <2>2, <2>5, <3>2 DEF SharedMediaInv, HasObject
    <3> QED BY <3>1, <3>2
  <2>9. ASSUME NEW n \in (1..3) \ stray', Apart(n)' PROVE InBetween(n)'
    <3>1. Apart(n)
      BY <2>1, <2>4, <2>5, <2>9 DEF Apart
    <3> QED BY <2>1, <2>2, <2>9, <3>1, StillBetween
  <2> QED BY <2>3, <2>6, <2>7, <2>8, <2>9 DEF SharedMediaInv
<1>3. ASSUME NEW h \in Handlers, uploaders[h].at = "process", SharedMedia!Goto(h, "put"),
             UNCHANGED <<records, objects, stray, uploads, outages>>
      PROVE  SharedMediaInv'
  <2>1. /\ uploaders' \in [Handlers -> SharedMedia!HandlerStates]
        /\ uploaders'[h].at = "put" /\ uploaders'[h].media = uploaders[h].media
        /\ \A g \in Handlers \ {h} : uploaders'[g] = uploaders[g]
    BY <1>3, SharedMediaGoto DEF SharedMediaInv, Uploading
  <2>2. SharedMedia!TypeOK'
    BY <1>0, <1>3, <2>1 DEF SharedMedia!TypeOK, SharedMedia!Uploads
  <2>3. RecordsAreUnique'
    BY <1>3, <2>1 DEF SharedMediaInv, RecordsAreUnique, Uploading
  <2>4. ASSUME NEW g \in Handlers PROVE HasIdentity(g)'
    <3>1. CASE g = h
      BY <1>3, <2>1, <3>1
         DEF SharedMediaInv, HasIdentity, Uploading, Deleting
    <3>2. CASE g # h
      BY <1>3, <2>1, <3>2
         DEF SharedMediaInv, HasIdentity, Uploading, Deleting
    <3> QED BY <3>1, <3>2
  <2>5. ASSUME NEW g \in Handlers PROVE HasObject(g)'
    <3>1. CASE g = h
      BY <1>3, <2>1, <3>1 DEF SharedMediaInv, HasObject
    <3>2. CASE g # h
      BY <1>3, <2>1, <3>2 DEF SharedMediaInv, HasObject
    <3> QED BY <3>1, <3>2
  <2>6. ASSUME NEW n \in (1..3) \ stray', Apart(n)' PROVE InBetween(n)'
    <3>1. Apart(n)
      BY <1>3, <2>6 DEF Apart
    <3> QED BY <1>3, <2>1, <2>6, <3>1, StillBetween
  <2> QED BY <2>2, <2>3, <2>4, <2>5, <2>6 DEF SharedMediaInv
<1>4. ASSUME NEW h \in Handlers, SharedMedia!Answer(h),
             stray \subseteq stray', stray' \subseteq 1..3,
             SharedMedia!Between(h) => uploaders[h].media.id \in stray',
             UNCHANGED <<records, objects, uploads, outages>>
      PROVE  SharedMediaInv'
  <2>1. /\ uploaders' \in [Handlers -> SharedMedia!HandlerStates] /\ uploaders'[h].at = "idle"
        /\ \A g \in Handlers \ {h} : uploaders'[g] = uploaders[g]
    BY <1>4, SharedMediaAnswer DEF SharedMediaInv
  <2>2. SharedMedia!TypeOK'
    BY <1>0, <1>4, <2>1 DEF SharedMedia!TypeOK, SharedMedia!Uploads
  <2>3. RecordsAreUnique'
    BY <1>4, <2>1 DEF SharedMediaInv, RecordsAreUnique, Uploading
  <2>4. ASSUME NEW g \in Handlers PROVE HasIdentity(g)'
    <3>1. CASE g = h
      BY <1>4, <2>1, <3>1
         DEF SharedMediaInv, HasIdentity, Uploading, Deleting
    <3>2. CASE g # h
      BY <1>4, <2>1, <3>2
         DEF SharedMediaInv, HasIdentity, Uploading, Deleting
    <3> QED BY <3>1, <3>2
  <2>5. ASSUME NEW g \in Handlers PROVE HasObject(g)'
    <3>1. CASE g = h
      BY <1>4, <2>1, <3>1 DEF SharedMediaInv, HasObject
    <3>2. CASE g # h
      BY <1>4, <2>1, <3>2 DEF SharedMediaInv, HasObject
    <3> QED BY <3>1, <3>2
  <2>6. ASSUME NEW n \in (1..3) \ stray', Apart(n)' PROVE InBetween(n)'
    <3>1. PICK g \in Handlers : SharedMedia!Between(g) /\ uploaders[g].media.id = n
      BY <1>4, <2>6 DEF SharedMediaInv, Apart, InBetween, SharedMedia!Between
    <3>2. g # h
      BY <1>4, <2>6, <3>1
    <3> QED BY <2>1, <3>1, <3>2 DEF InBetween, SharedMedia!Between
  <2> QED BY <2>2, <2>3, <2>4, <2>5, <2>6 DEF SharedMediaInv
<1>5. ASSUME NEW h \in Handlers, SharedMedia!PutObject(h)
      PROVE  SharedMediaInv'
  <2> DEFINE media == uploaders[h].media
             name == SharedMedia!ObjectName(media)
  <2>1. /\ uploaders[h].at = "put" /\ SharedMedia!Goto(h, "save")
        /\ objects' = [objects EXCEPT ![name] = media.id]
        /\ UNCHANGED <<records, stray, uploads, outages>>
    BY <1>5 DEF SharedMedia!PutObject, SharedMedia!At
  <2>2. /\ uploaders' \in [Handlers -> SharedMedia!HandlerStates] /\ media \in SharedMedia!Media
        /\ uploaders'[h].at = "save" /\ uploaders'[h].media = media
        /\ \A g \in Handlers \ {h} : uploaders'[g] = uploaders[g]
    BY <2>1, SharedMediaGoto DEF SharedMediaInv, Uploading
  <2>3. /\ media.id <= uploads /\ \A m \in records : m.id # media.id
        /\ \A g \in Handlers \ {h} : uploaders[g].at # "idle" => uploaders[g].media.id # media.id
    BY <2>1 DEF SharedMediaInv, HasIdentity, HasObject, Uploading
  <2> HIDE DEF media
  <2>4. /\ name \in SharedMedia!Names /\ media.id \in 1..3
        /\ media.field = None => name = media.id
        /\ media.field # None => name \notin 1..3
    BY <2>2, SharedMediaNames
  <2> HIDE DEF name
  <2>5. None \notin 1..3
    BY PlatformAssumptions DEF PlatformAssumptions, SharedMedia!MediaAssumption
  <2>6. /\ objects' \in [SharedMedia!Names -> 1..3 \cup {None}]
        /\ media.field = None => objects'[media.id] # None
        /\ \A n \in 1..3 : n # media.id \/ media.field # None => objects'[n] = objects[n]
    BY <1>0, <2>1, <2>4, <2>5 DEF SharedMedia!Names, SharedMedia!Uploads
  <2>7. SharedMedia!TypeOK'
    BY <1>0, <2>1, <2>2, <2>6 DEF SharedMedia!TypeOK, SharedMedia!Uploads
  <2>8. \A g \in Handlers \ {h} :
          uploaders[g].at # "idle" =>
              /\ uploaders[g].media.id \in 1..3
              /\ objects'[uploaders[g].media.id] = objects[uploaders[g].media.id]
    BY <1>0, <2>3, <2>6, SharedMediaHandler, SharedMediaNames
  <2>9. ASSUME NEW n \in (1..3) \ stray', Apart(n)'
        PROVE  InBetween(n)'
    <3>1. CASE n = media.id /\ media.field = None
      BY <2>2, <3>1 DEF InBetween
    <3>2. CASE ~(n = media.id /\ media.field = None)
      <4>1. Apart(n)
        BY <2>1, <2>6, <2>9, <3>2 DEF Apart
      <4> QED BY <2>1, <2>2, <2>9, <4>1, StillBetween
    <3> QED BY <3>1, <3>2
  <2>10. ASSUME NEW g \in Handlers \ {h}
         PROVE  /\ uploaders'[g] = uploaders[g] /\ uploaders[h].media = media
                /\ uploaders[h].at \in Uploading
    BY <2>1, <2>2 DEF Uploading, media
  <2>11. RecordsAreUnique'
    BY <2>1, <2>2, <2>3, <2>6, <2>8, <2>10 DEF SharedMediaInv, RecordsAreUnique, Uploading
  <2>12. ASSUME NEW g \in Handlers PROVE HasIdentity(g)'
    <3>1. CASE g = h
      BY <2>1, <2>2, <2>3, <2>6, <2>8, <2>10, <3>1
         DEF SharedMediaInv, HasIdentity, Uploading, Deleting
    <3>2. CASE g # h
      BY <2>1, <2>2, <2>3, <2>6, <2>8, <2>10, <3>2
         DEF SharedMediaInv, HasIdentity, Uploading, Deleting
    <3> QED BY <3>1, <3>2
  <2>13. ASSUME NEW g \in Handlers PROVE HasObject(g)'
    <3>1. CASE g = h
      BY <2>1, <2>2, <2>3, <2>6, <2>8, <2>10, <3>1 DEF SharedMediaInv, HasObject
    <3>2. CASE g # h
      BY <2>1, <2>2, <2>3, <2>6, <2>8, <2>10, <3>2 DEF SharedMediaInv, HasObject
    <3> QED BY <3>1, <3>2
  <2> QED BY <2>7, <2>11, <2>12, <2>13, <2>9 DEF SharedMediaInv
<1>6. ASSUME NEW h \in Handlers, SharedMedia!SaveMedia(h)
      PROVE  SharedMediaInv'
  <2> DEFINE media == uploaders[h].media
  <2>1. /\ uploaders[h].at = "save" /\ SharedMedia!Answer(h)
        /\ records' = records \cup {media}
        /\ UNCHANGED <<objects, stray, uploads, outages>>
    BY <1>6 DEF SharedMedia!SaveMedia, SharedMedia!At
  <2>2. /\ uploaders' \in [Handlers -> SharedMedia!HandlerStates] /\ uploaders'[h].at = "idle"
        /\ \A g \in Handlers \ {h} : uploaders'[g] = uploaders[g]
    BY <2>1, SharedMediaAnswer DEF SharedMediaInv
  <2>3. media \in SharedMedia!Media
    BY <1>0, <2>1, SharedMediaHandler
  <2>4. /\ media.id <= uploads /\ \A m \in records : m.id # media.id
        /\ \A g \in Handlers \ {h} : uploaders[g].at # "idle" => uploaders[g].media.id # media.id
        /\ media.field = None => objects[media.id] # None
    BY <2>1 DEF SharedMediaInv, HasIdentity, HasObject, Uploading
  <2> HIDE DEF media
  <2>5. SharedMedia!TypeOK'
    BY <1>0, <2>1, <2>2, <2>3 DEF SharedMedia!TypeOK, SharedMedia!Uploads
  <2>6. ASSUME NEW n \in (1..3) \ stray', Apart(n)'
        PROVE  InBetween(n)'
    <3>1. ~(n = media.id /\ media.field = None)
      BY <2>1, <2>4, <2>6 DEF Apart
    <3>2. (\E m \in records' : m.field = None /\ m.id = n)
            <=> (\E m \in records : m.field = None /\ m.id = n)
      BY <2>1, <3>1
    <3>3. PICK g \in Handlers : /\ uploaders[g].at \in {"save", "forget"}
                                /\ uploaders[g].media.id = n
                                /\ uploaders[g].media.field = None
      BY <2>1, <2>6, <3>2 DEF SharedMediaInv, Apart, InBetween
    <3>4. g # h
      BY <3>1, <3>3 DEF media
    <3> QED BY <2>2, <3>3, <3>4 DEF InBetween
  <2>7. RecordsAreUnique'
    BY <2>1, <2>2, <2>4 DEF SharedMediaInv, RecordsAreUnique, Uploading
  <2>8. ASSUME NEW g \in Handlers PROVE HasIdentity(g)'
    <3>1. CASE g = h
      BY <2>1, <2>2, <2>4, <3>1
         DEF SharedMediaInv, HasIdentity, Uploading, Deleting
    <3>2. CASE g # h
      BY <2>1, <2>2, <2>4, <3>2
         DEF SharedMediaInv, HasIdentity, Uploading, Deleting
    <3> QED BY <3>1, <3>2
  <2>9. ASSUME NEW g \in Handlers PROVE HasObject(g)'
    <3>1. CASE g = h
      BY <2>1, <2>2, <2>4, <3>1 DEF SharedMediaInv, HasObject
    <3>2. CASE g # h
      BY <2>1, <2>2, <2>4, <3>2 DEF SharedMediaInv, HasObject
    <3> QED BY <3>1, <3>2
  <2> QED BY <2>5, <2>7, <2>8, <2>9, <2>6 DEF SharedMediaInv
<1>7. ASSUME NEW h \in Handlers, NEW m \in records, SharedMedia!DeleteFile(h, m)
      PROVE  SharedMediaInv'
  <2> DEFINE state == [at |-> "remove", media |-> m]
  <2>1. /\ uploaders[h].at = "idle" /\ uploaders' = [uploaders EXCEPT ![h] = state]
        /\ UNCHANGED <<records, objects, stray, uploads, outages>>
    BY <1>7 DEF SharedMedia!DeleteFile, SharedMedia!At
  <2>2. state \in SharedMedia!HandlerStates /\ state.at = "remove" /\ state.media = m
    BY <1>0 DEF SharedMedia!HandlerStates
  <2> HIDE DEF state
  <2>3. /\ uploaders' \in [Handlers -> SharedMedia!HandlerStates]
        /\ uploaders'[h].at = "remove" /\ uploaders'[h].media = m
        /\ \A g \in Handlers \ {h} : uploaders'[g] = uploaders[g]
    BY <1>0, <2>1, <2>2
  <2>4. SharedMedia!TypeOK'
    BY <1>0, <2>1, <2>3 DEF SharedMedia!TypeOK, SharedMedia!Uploads
  <2>6. RecordsAreUnique'
    BY <2>1, <2>3 DEF SharedMediaInv, RecordsAreUnique, Uploading
  <2>7. ASSUME NEW g \in Handlers PROVE HasIdentity(g)'
    <3>1. CASE g = h
      BY <2>1, <2>3, <3>1 DEF SharedMediaInv, RecordsAreUnique, HasIdentity, Uploading, Deleting
    <3>2. CASE g # h
      BY <2>1, <2>3, <3>2
         DEF SharedMediaInv, HasIdentity, Uploading, Deleting
    <3> QED BY <3>1, <3>2
  <2>8. ASSUME NEW g \in Handlers PROVE HasObject(g)'
    <3>1. CASE g = h
      BY <2>1, <2>3, <3>1 DEF SharedMediaInv, HasObject
    <3>2. CASE g # h
      BY <2>1, <2>3, <3>2 DEF SharedMediaInv, HasObject
    <3> QED BY <3>1, <3>2
  <2>9. ASSUME NEW n \in (1..3) \ stray', Apart(n)' PROVE InBetween(n)'
    <3>1. Apart(n)
      BY <2>1, <2>9 DEF Apart
    <3> QED BY <2>1, <2>3, <2>9, <3>1, StillBetween
  <2> QED BY <2>4, <2>6, <2>7, <2>8, <2>9 DEF SharedMediaInv
<1>8. ASSUME NEW h \in Handlers, uploaders[h].at = "remove", SharedMedia!Goto(h, "forget"),
             objects' = [objects EXCEPT ![SharedMedia!ObjectName(uploaders[h].media)] = None],
             UNCHANGED <<records, stray, uploads, outages>>
      PROVE  SharedMediaInv'
  <2> DEFINE media == uploaders[h].media
             name == SharedMedia!ObjectName(media)
  <2>1. /\ uploaders' \in [Handlers -> SharedMedia!HandlerStates] /\ media \in SharedMedia!Media
        /\ uploaders'[h].at = "forget" /\ uploaders'[h].media = media
        /\ \A g \in Handlers \ {h} : uploaders'[g] = uploaders[g]
    BY <1>8, SharedMediaGoto DEF SharedMediaInv, Deleting
  <2>2. objects' = [objects EXCEPT ![name] = None]
    BY <1>8
  <2>3. /\ media.id <= uploads /\ \A m \in records : m.id = media.id => m = media
        /\ \A g \in Handlers \ {h} : uploaders[g].at = "save" => uploaders[g].media.id # media.id
    BY <1>8 DEF SharedMediaInv, HasIdentity, HasObject, Uploading, Deleting
  <2> HIDE DEF media
  <2>4. /\ name \in SharedMedia!Names /\ media.id \in 1..3
        /\ media.field = None => name = media.id
        /\ media.field # None => name \notin 1..3
    BY <2>1, SharedMediaNames
  <2> HIDE DEF name
  <2>5. /\ objects' \in [SharedMedia!Names -> 1..3 \cup {None}]
        /\ media.field = None => objects'[media.id] = None
        /\ \A n \in 1..3 : n # media.id \/ media.field # None => objects'[n] = objects[n]
        /\ \A n \in 1..3 : objects'[n] \in {objects[n], None}
    BY <1>0, <2>2, <2>4 DEF SharedMedia!Names, SharedMedia!Uploads
  <2>6. SharedMedia!TypeOK'
    BY <1>0, <1>8, <2>1, <2>5 DEF SharedMedia!TypeOK, SharedMedia!Uploads
  <2>7. \A g \in Handlers :
          uploaders[g].at # "idle" => uploaders[g].media.id \in 1..3
    BY <1>0, SharedMediaHandler, SharedMediaNames
  <2>8. ASSUME NEW n \in (1..3) \ stray', Apart(n)'
        PROVE  InBetween(n)'
    <3>1. CASE n = media.id /\ media.field = None
      BY <2>1, <3>1 DEF InBetween
    <3>2. CASE ~(n = media.id /\ media.field = None)
      <4>1. Apart(n)
        BY <1>8, <2>5, <2>8, <3>2 DEF Apart
      <4> QED BY <1>8, <2>1, <2>8, <4>1, StillBetween
    <3> QED BY <3>1, <3>2
  <2>9. ASSUME NEW g \in Handlers \ {h}
        PROVE  /\ uploaders'[g].at = "save" /\ uploaders'[g].media.field = None =>
                    objects'[uploaders'[g].media.id] # None
               /\ uploaders'[g].at = "forget" /\ uploaders'[g].media.field = None =>
                    objects'[uploaders'[g].media.id] = None
    BY <2>1, <2>3, <2>5, <2>7 DEF SharedMediaInv, HasObject
  <2>10. uploaders[h].media = media /\ uploaders[h].at = "remove"
    BY <1>8 DEF media
  <2>11. RecordsAreUnique'
    BY <1>8, <2>1, <2>3, <2>5, <2>9, <2>10 DEF SharedMediaInv, RecordsAreUnique, Uploading
  <2>12. ASSUME NEW g \in Handlers PROVE HasIdentity(g)'
    <3>1. CASE g = h
      BY <1>8, <2>1, <2>3, <2>5, <2>9, <2>10, <3>1
         DEF SharedMediaInv, HasIdentity, Uploading, Deleting
    <3>2. CASE g # h
      BY <1>8, <2>1, <2>3, <2>5, <2>9, <2>10, <3>2
         DEF SharedMediaInv, HasIdentity, Uploading, Deleting
    <3> QED BY <3>1, <3>2
  <2>13. ASSUME NEW g \in Handlers PROVE HasObject(g)'
    <3>1. CASE g = h
      BY <1>8, <2>1, <2>3, <2>5, <2>9, <2>10, <3>1 DEF SharedMediaInv, HasObject
    <3>2. CASE g # h
      BY <1>8, <2>1, <2>3, <2>5, <2>9, <2>10, <3>2 DEF SharedMediaInv, HasObject
    <3> QED BY <3>1, <3>2
  <2> QED BY <2>6, <2>11, <2>12, <2>13, <2>8 DEF SharedMediaInv
<1>9. ASSUME NEW h \in Handlers, SharedMedia!RemoveById(h)
      PROVE  SharedMediaInv'
  <2> DEFINE media == uploaders[h].media
  <2>1. /\ uploaders[h].at = "forget" /\ SharedMedia!Answer(h)
        /\ records' = records \ {media}
        /\ UNCHANGED <<objects, stray, uploads, outages>>
    BY <1>9 DEF SharedMedia!RemoveById, SharedMedia!At
  <2>2. /\ uploaders' \in [Handlers -> SharedMedia!HandlerStates] /\ uploaders'[h].at = "idle"
        /\ \A g \in Handlers \ {h} : uploaders'[g] = uploaders[g]
    BY <2>1, SharedMediaAnswer DEF SharedMediaInv
  <2>3. /\ \A m \in records : m.id = media.id => m = media
        /\ media.field = None => objects[media.id] = None
    BY <2>1 DEF SharedMediaInv, HasIdentity, HasObject, Deleting
  <2> HIDE DEF media
  <2>4. SharedMedia!TypeOK'
    BY <1>0, <2>1, <2>2 DEF SharedMedia!TypeOK, SharedMedia!Uploads
  <2>5. ASSUME NEW n \in (1..3) \ stray', Apart(n)'
        PROVE  InBetween(n)'
    <3>1. ~(n = media.id /\ media.field = None)
      BY <2>1, <2>3, <2>5 DEF Apart
    <3>2. (\E m \in records' : m.field = None /\ m.id = n)
            <=> (\E m \in records : m.field = None /\ m.id = n)
      BY <2>1, <3>1
    <3>3. PICK g \in Handlers : /\ uploaders[g].at \in {"save", "forget"}
                                /\ uploaders[g].media.id = n
                                /\ uploaders[g].media.field = None
      BY <2>1, <2>5, <3>2 DEF SharedMediaInv, Apart, InBetween
    <3>4. g # h
      BY <3>1, <3>3 DEF media
    <3> QED BY <2>2, <3>3, <3>4 DEF InBetween
  <2>6. RecordsAreUnique'
    BY <2>1, <2>2 DEF SharedMediaInv, RecordsAreUnique, Uploading
  <2>7. ASSUME NEW g \in Handlers PROVE HasIdentity(g)'
    <3>1. CASE g = h
      BY <2>1, <2>2, <3>1
         DEF SharedMediaInv, HasIdentity, Uploading, Deleting
    <3>2. CASE g # h
      BY <2>1, <2>2, <3>2
         DEF SharedMediaInv, HasIdentity, Uploading, Deleting
    <3> QED BY <3>1, <3>2
  <2>8. ASSUME NEW g \in Handlers PROVE HasObject(g)'
    <3>1. CASE g = h
      BY <2>1, <2>2, <3>1 DEF SharedMediaInv, HasObject
    <3>2. CASE g # h
      BY <2>1, <2>2, <3>2 DEF SharedMediaInv, HasObject
    <3> QED BY <3>1, <3>2
  <2> QED BY <2>4, <2>6, <2>7, <2>8, <2>5 DEF SharedMediaInv
<1>10. CASE SharedMedia!Crash
  <2>1. /\ uploaders' = [g \in Handlers |-> SharedMedia!Idle] /\ outages' = outages + 1
        /\ outages < 1 /\ UNCHANGED <<records, objects, uploads>>
        /\ stray' = stray \cup SharedMedia!Astray(Handlers)
    BY <1>10 DEF SharedMedia!Crash
  <2>2. SharedMedia!Idle \in SharedMedia!HandlerStates /\ SharedMedia!Idle.at = "idle"
    BY DEF SharedMedia!HandlerStates, SharedMedia!Idle
  <2>3. SharedMedia!Astray(Handlers) \subseteq 1..3
    BY <1>0, SharedMediaHandler, SharedMediaNames DEF SharedMedia!Astray, SharedMedia!Between
  <2>4. SharedMedia!TypeOK'
    <3>1. SharedMedia!TypeOK
      BY DEF SharedMediaInv
    <3>2. uploaders' \in [Handlers -> SharedMedia!HandlerStates]
      BY <2>1, <2>2
    <3>3. stray' \subseteq SharedMedia!Uploads
      BY <2>1, <2>3, <3>1 DEF SharedMedia!TypeOK, SharedMedia!Uploads
    <3>4. outages' \in 0..1
      BY <2>1, <3>1 DEF SharedMedia!TypeOK
    <3> QED BY <2>1, <3>1, <3>2, <3>3, <3>4 DEF SharedMedia!TypeOK
  <2>5. ASSUME NEW n \in (1..3) \ stray', Apart(n)' PROVE FALSE
    <3>1. PICK g \in Handlers : SharedMedia!Between(g) /\ uploaders[g].media.id = n
      BY <2>1, <2>5 DEF SharedMediaInv, Apart, InBetween, SharedMedia!Between
    <3>2. n \in SharedMedia!Astray(Handlers)
      BY <3>1 DEF SharedMedia!Astray
    <3> QED BY <2>1, <2>5, <3>2
  <2> QED BY <2>1, <2>2, <2>4, <2>5 DEF SharedMediaInv, RecordsAreUnique, HasIdentity,
                                        HasObject, Uploading, Deleting
<1>11. CASE UNCHANGED SharedMedia!vars
  <2>1. UNCHANGED <<records, objects, uploaders, stray, uploads, outages>>
    BY <1>11 DEF SharedMedia!vars
  <2>2. SharedMedia!TypeOK' /\ RecordsAreUnique'
    BY <2>1 DEF SharedMediaInv, SharedMedia!TypeOK, RecordsAreUnique
  <2>3. \A h \in Handlers : HasIdentity(h)' /\ HasObject(h)'
    BY <2>1 DEF SharedMediaInv, HasIdentity, HasObject
  <2>4. \A n \in 1..3 : (Apart(n)' <=> Apart(n)) /\ (InBetween(n)' <=> InBetween(n))
    BY <2>1 DEF Apart, InBetween
  <2> QED BY <2>1, <2>2, <2>3, <2>4 DEF SharedMediaInv
<1>12. ASSUME NEW h \in Handlers, SharedMedia!Store(h) PROVE SharedMediaInv'
  <2>1. SharedMedia!ProcessFile(h) => SharedMediaInv'
    BY <1>0, <1>3, <1>4 DEF SharedMedia!ProcessFile, SharedMedia!At, SharedMedia!Between
  <2> QED BY <1>5, <1>6, <1>12, <2>1 DEF SharedMedia!Store
<1>13. ASSUME NEW h \in Handlers, SharedMedia!UploadFileOfProductPassport(h)
       PROVE  SharedMediaInv'
  BY <1>1, <1>2, <1>12, <1>13 DEF SharedMedia!UploadFileOfProductPassport
<1>14. ASSUME NEW h \in Handlers, SharedMedia!UploadMedia(h) PROVE SharedMediaInv'
  BY <1>1, <1>12, <1>14 DEF SharedMedia!UploadMedia
<1>15. ASSUME NEW h \in Handlers, SharedMedia!ScanFails(h) PROVE SharedMediaInv'
  BY <1>0, <1>4, <1>15 DEF SharedMedia!ScanFails, SharedMedia!At, SharedMedia!Between
<1>16. ASSUME NEW h \in Handlers, SharedMedia!RemoveObject(h) PROVE SharedMediaInv'
  BY <1>0, <1>4, <1>8, <1>16 DEF SharedMedia!RemoveObject, SharedMedia!At, SharedMedia!Between
<1>17. ASSUME NEW h \in Handlers, SharedMedia!CallFails(h) PROVE SharedMediaInv'
  <2>1. SharedMedia!Astray({h}) \subseteq 1..3
    BY <1>0, SharedMediaHandler, SharedMediaNames DEF SharedMedia!Astray, SharedMedia!Between
  <2>2. SharedMedia!Between(h) => uploaders[h].media.id \in SharedMedia!Astray({h})
    BY DEF SharedMedia!Astray
  <2> QED BY <1>0, <1>4, <1>17, <2>1, <2>2 DEF SharedMedia!CallFails
<1> QED BY <1>7, <1>9, <1>10, <1>11, <1>13, <1>14, <1>15, <1>16, <1>17 DEF SharedMedia!Next

LEMMA SharedMediaAlways ==
    SharedMedia!Spec => [](SharedMedia!TypeOK /\ SharedMedia!FreeFilesAgree)
<1>1. SharedMedia!Init => SharedMediaInv
  <2> SUFFICES ASSUME SharedMedia!Init PROVE SharedMediaInv
    OBVIOUS
  <2>1. /\ records = {} /\ objects = [n \in SharedMedia!Names |-> None]
        /\ uploaders = [g \in Handlers |-> SharedMedia!Idle] /\ uploads = 0 /\ outages = 0 /\ stray = {}
    BY DEF SharedMedia!Init
  <2>2. SharedMedia!Idle \in SharedMedia!HandlerStates /\ SharedMedia!Idle.at = "idle"
    BY DEF SharedMedia!HandlerStates, SharedMedia!Idle
  <2>3. SharedMedia!TypeOK
    BY <2>1, <2>2 DEF SharedMedia!TypeOK
  <2>4. \A n \in 1..3 : objects[n] = None
    BY <2>1 DEF SharedMedia!Names, SharedMedia!Uploads
  <2> QED BY <2>1, <2>2, <2>3, <2>4 DEF SharedMediaInv, RecordsAreUnique, HasIdentity, HasObject,
                                  Apart, Uploading, Deleting
<1>2. SharedMediaInv /\ [SharedMedia!Next]_(SharedMedia!vars) => SharedMediaInv'
  BY SharedMediaStep
<1>3. SharedMediaInv => SharedMedia!TypeOK /\ SharedMedia!FreeFilesAgree
  BY DEF SharedMediaInv, SharedMedia!FreeFilesAgree, SharedMedia!Uploads,
         SharedMedia!Between, Apart, InBetween
<1> QED BY <1>1, <1>2, <1>3, PTL DEF SharedMedia!Spec

-----------------------------------------------------------------------------
(* What is stored, and what is counted                                     *)

\* No two organizations share a slug.  With one request at a time no data field
\* has two files and records describe the objects in the store, whatever call
\* fails; with overlapping requests a free file and its record are told apart
\* only by a request in progress, or by one that failed or died between the two
\* (createOrganization, MediaService.uploadFileOfProductPassport, uploadMedia,
\* removeById).
THEOREM AlwaysStoredOnce ==
    ASSUME NEW h, Handler = {h}
    PROVE  PlatformSpec => []StoredOnce
<1>1. Orgs!Spec => []Orgs!TypeOK
  BY Orgs!TypeCorrect, PlatformAssumptions DEF PlatformAssumptions
<1>2. Seeding!Spec => []Seeding!TypeOK
  BY Seeding!TypeCorrect, PlatformAssumptions DEF PlatformAssumptions
<1>3. SharedOrgs!Spec => []SharedOrgs!TypeOK
  BY SharedOrgs!TypeCorrect, PlatformAssumptions DEF PlatformAssumptions
<1>4. SharedOrgs!Spec => []SharedOrgs!SlugsAreUnique
  BY SharedOrgs!NoSlugTwice, PlatformAssumptions DEF PlatformAssumptions
<1>5. Settings!Spec => []Settings!TypeOK
  BY SettingsAlways, PTL
<1>6. Media!Spec => [](Media!TypeOK /\ Media!RecordMatchesObject /\ Media!OneFilePerField)
  BY MediaAlways, PTL
<1> QED BY <1>1, <1>2, <1>3, <1>4, <1>5, <1>6, SharedMediaAlways, OrganizationsPart,
           SeedingPart, SharedOrganizationsPart, SettingsPart, MediaPart, SharedMediaPart,
           PTL DEF StoredOnce

\* With one chat at a time the quota counts what its calls of the model used, in
\* the background or not, unless the month began in the middle of it; with
\* overlapping chats it never counts more; what is stored exceeds the cap by less
\* than the file that was let in last (incrementQuota, enforceCaps).
THEOREM LimitsAlwaysCounted ==
    ASSUME NEW h, Handler = {h}, IsFiniteSet(Handlers)
    PROVE  PlatformSpec => []LimitsAreCounted
<1>1. IsFiniteSet(Handler)
  BY FS_Singleton
<1>2. Quota!Spec => []Quota!TypeOK
  BY <1>1, Quota!TypeCorrect, PlatformAssumptions
     DEF PlatformAssumptions, IsFiniteSet, Quota!IsFiniteSet
<1>3. Quota!Spec => []Quota!QuotaCountsTokens
  BY Quota!LoneQuotaIsExact, PlatformAssumptions DEF PlatformAssumptions
<1>4. SharedQuota!Spec => []SharedQuota!TypeOK
  BY SharedQuota!TypeCorrect, PlatformAssumptions
     DEF PlatformAssumptions, IsFiniteSet, SharedQuota!IsFiniteSet
<1>5. SharedQuota!Spec => []SharedQuota!NeverOvercharged
  BY SharedQuota!NobodyIsOvercharged, PlatformAssumptions
     DEF PlatformAssumptions, IsFiniteSet, SharedQuota!IsFiniteSet
<1>6. Media!Spec => []Media!StorageBounded
  BY MediaAlways, PTL
<1> QED BY <1>2, <1>3, <1>4, <1>5, <1>6, QuotaPart, SharedQuotaPart, MediaPart, PTL
        DEF LimitsAreCounted

-----------------------------------------------------------------------------
(* Permalinks                                                              *)

\* Lone, with what is proved of it.
LoneProofs == INSTANCE PermalinkLifecycle_proofs WITH
    db <- loneDb, txn <- loneTxn, requests <- loneRequests, fallback <- loneFallback,
    released <- loneReleased, faults <- loneFaults,
    Requests <- Request, Keys <- Configurations, Slugs <- ChosenSlugs, Bases <- ChosenBases,
    Operations <- AllOperations

\* What the modules assume of their constants.
PermalinkAssumptions == LoneProofs!LifecycleAssumption /\ LoneProofs!ValuesAssumption

\* What is proved of permalinks when requests come one at a time.
LEMMA LoneFacts ==
    ASSUME NEW r, Request = {r}, PermalinkAssumptions
    PROVE  /\ LoneProofs!Steps => []LoneProofs!TypeOK
           /\ LoneProofs!Steps => []LoneProofs!PublishedIsPinned
           /\ LoneProofs!Steps => []LoneProofs!ToldIsPinned
           /\ LoneProofs!Steps => []LoneProofs!PinnedUrlResolves
           /\ LoneProofs!Steps => LoneProofs!PublishedUrlIsImmutable
BY LoneProofs!LoneTypeCorrect, LoneProofs!LonePublishedIsPinned,
   LoneProofs!LoneToldIsPinned, LoneProofs!LonePinnedUrlResolves,
   LoneProofs!LonePinsStay
   DEF PermalinkAssumptions, LoneProofs!LifecycleAssumption, LoneProofs!ValuesAssumption

\* The two instances are of one specification with the same values: with all
\* of its definitions expanded they are the same formulas. First their steps.
LEMMA LoneStepsAreTheSame ==
    /\ Lone!Init => LoneProofs!Init
    /\ [Lone!Next]_(Lone!vars) => [LoneProofs!Next]_(LoneProofs!vars)
BY DEF AllOperations, Lone!StatusOperations,
       Lone!PublishDpp, Lone!ArchiveDpp,
       Lone!RestoreDpp, Lone!MayPublish,
       Lone!MayArchive, Lone!MayRestore,
       Lone!HandleStatusChange, Lone!NoTransaction,
       Lone!InitTransactions, Lone!StartTransaction,
       Lone!Differing, Lone!Overwrite,
       Lone!WriteConflict, Lone!WriteInTransaction,
       Lone!Notify, Lone!CommitTransaction,
       Lone!AbortTransaction, Lone!AbortAllTransactions,
       Lone!WriteDirectly, Lone!StatusOrDelete,
       Lone!PassportDoc, Lone!ConfigDoc,
       Lone!LinkDoc, Lone!ConfigDocs,
       Lone!LinkDocs, Lone!Documents, Lone!vars,
       Lone!IsPublished, Lone!NewLink,
       Lone!Changes, Lone!Changed,
       Lone!PublicUrl, Lone!Pin, Lone!Configured,
       Lone!Reachable, Lone!SlugTaken,
       Lone!NewRequest, Lone!At, Lone!Update,
       Lone!GoTo, Lone!Finish, Lone!Retry,
       Lone!One, Lone!Save, Lone!Fresh,
       Lone!Admitted, Lone!LoadForStatus,
       Lone!Begin, Lone!SavePassport,
       Lone!FindPermalinks, Lone!LoadBase,
       Lone!PinInTransaction, Lone!DropAll,
       Lone!Commit, Lone!Visible,
       Lone!LoadForList, Lone!ListPermalinks,
       Lone!EnsureDefault, Lone!CreatePermalink,
       Lone!RecheckPassport, Lone!ResolvePermalink,
       Lone!ResolveConfig, Lone!ResolvePassport,
       Lone!LoadForUpdate, Lone!LoadBranding,
       Lone!Saving, Lone!FindForSave,
       Lone!Merged, Lone!SaveFails, Lone!Without,
       Lone!AfterSave, Lone!WriteLink,
       Lone!Answer, Lone!LoadForConfigs,
       Lone!AfterConfigs, Lone!ListConfigs,
       Lone!SaveConfig, Lone!LoadForDeleteConfig,
       Lone!RemoveConfig, Lone!ChangeFallback,
       Lone!Failover, Lone!Crash, Lone!Init,
       Lone!Arrive, Lone!Handle, Lone!Waiting,
       Lone!Next, LoneProofs!StatusOperations, LoneProofs!PublishDpp,
       LoneProofs!ArchiveDpp, LoneProofs!RestoreDpp, LoneProofs!MayPublish,
       LoneProofs!MayArchive, LoneProofs!MayRestore,
       LoneProofs!HandleStatusChange, LoneProofs!NoTransaction,
       LoneProofs!InitTransactions, LoneProofs!StartTransaction,
       LoneProofs!Differing, LoneProofs!Overwrite, LoneProofs!WriteConflict,
       LoneProofs!WriteInTransaction, LoneProofs!Notify,
       LoneProofs!CommitTransaction, LoneProofs!AbortTransaction,
       LoneProofs!AbortAllTransactions, LoneProofs!WriteDirectly,
       LoneProofs!StatusOrDelete, LoneProofs!PassportDoc, LoneProofs!ConfigDoc,
       LoneProofs!LinkDoc, LoneProofs!ConfigDocs, LoneProofs!LinkDocs,
       LoneProofs!Documents, LoneProofs!vars, LoneProofs!IsPublished,
       LoneProofs!NewLink, LoneProofs!Changes, LoneProofs!Changed,
       LoneProofs!PublicUrl, LoneProofs!Pin, LoneProofs!Configured,
       LoneProofs!Reachable, LoneProofs!SlugTaken, LoneProofs!NewRequest,
       LoneProofs!At, LoneProofs!Update, LoneProofs!GoTo, LoneProofs!Finish,
       LoneProofs!Retry, LoneProofs!One, LoneProofs!Save, LoneProofs!Fresh,
       LoneProofs!Admitted, LoneProofs!LoadForStatus, LoneProofs!Begin,
       LoneProofs!SavePassport, LoneProofs!FindPermalinks, LoneProofs!LoadBase,
       LoneProofs!PinInTransaction, LoneProofs!DropAll, LoneProofs!Commit,
       LoneProofs!Visible, LoneProofs!LoadForList, LoneProofs!ListPermalinks,
       LoneProofs!EnsureDefault, LoneProofs!CreatePermalink,
       LoneProofs!RecheckPassport, LoneProofs!ResolvePermalink,
       LoneProofs!ResolveConfig, LoneProofs!ResolvePassport,
       LoneProofs!LoadForUpdate, LoneProofs!LoadBranding, LoneProofs!Saving,
       LoneProofs!FindForSave, LoneProofs!Merged, LoneProofs!SaveFails,
       LoneProofs!Without, LoneProofs!AfterSave, LoneProofs!WriteLink,
       LoneProofs!Answer, LoneProofs!LoadForConfigs, LoneProofs!AfterConfigs,
       LoneProofs!ListConfigs, LoneProofs!SaveConfig,
       LoneProofs!LoadForDeleteConfig, LoneProofs!RemoveConfig,
       LoneProofs!ChangeFallback, LoneProofs!Failover, LoneProofs!Crash,
       LoneProofs!Init, LoneProofs!Arrive, LoneProofs!Handle, LoneProofs!Waiting,
       LoneProofs!Next

\* Then their invariants.
LEMMA LoneFactsAreTheSame ==
    /\ LoneProofs!TypeOK => Lone!TypeOK
    /\ LoneProofs!PublishedIsPinned => Lone!PublishedIsPinned
    /\ LoneProofs!ToldIsPinned => Lone!ToldIsPinned
    /\ LoneProofs!PinnedUrlResolves => Lone!PinnedUrlResolves
BY DEF AllOperations, Lone!Statuses,
       Lone!StatusOperations, Lone!StatusChanges,
       Lone!StatusOrDelete, Lone!AllOperations,
       Lone!PassportDoc, Lone!ConfigDoc,
       Lone!LinkDoc, Lone!ConfigDocs,
       Lone!LinkDocs, Lone!Documents, Lone!Urls,
       Lone!Links, Lone!Passports,
       Lone!IsPublished, Lone!Changes,
       Lone!PublicUrl, Lone!Configured,
       Lone!Reachable, Lone!At, Lone!InCallback,
       Lone!Saving, Lone!Told, Lone!StoreOK,
       Lone!Labels, Lone!RequestTypes,
       Lone!TypeOK, Lone!Link, Lone!Pinned,
       Lone!PublishedIsPinned, Lone!ToldIsPinned,
       Lone!PinnedUrlResolves, LoneProofs!Statuses,
       LoneProofs!StatusOperations, LoneProofs!StatusChanges,
       LoneProofs!StatusOrDelete, LoneProofs!AllOperations,
       LoneProofs!PassportDoc, LoneProofs!ConfigDoc, LoneProofs!LinkDoc,
       LoneProofs!ConfigDocs, LoneProofs!LinkDocs, LoneProofs!Documents,
       LoneProofs!Urls, LoneProofs!Links, LoneProofs!Passports,
       LoneProofs!IsPublished, LoneProofs!Changes, LoneProofs!PublicUrl,
       LoneProofs!Configured, LoneProofs!Reachable, LoneProofs!At,
       LoneProofs!InCallback, LoneProofs!Saving, LoneProofs!Told,
       LoneProofs!StoreOK, LoneProofs!Labels, LoneProofs!RequestTypes,
       LoneProofs!TypeOK, LoneProofs!Link, LoneProofs!Pinned,
       LoneProofs!PublishedIsPinned, LoneProofs!ToldIsPinned,
       LoneProofs!PinnedUrlResolves

\* And what they say of steps.
LEMMA LoneUrlsAreTheSame ==
    LoneProofs!PublishedUrlIsImmutable => Lone!PublishedUrlIsImmutable
BY DEF AllOperations, Lone!LinkDoc, Lone!vars,
       Lone!Link, Lone!Pinned,
       Lone!PublishedUrlIsImmutable, LoneProofs!LinkDoc,
       LoneProofs!vars, LoneProofs!Link, LoneProofs!Pinned,
       LoneProofs!PublishedUrlIsImmutable

\* The second part of the run takes the steps of the lone permalinks.
LEMMA LoneBehaviour ==
    PartSpec => LoneProofs!Steps
<1>1. PartInit => LoneProofs!Init
  BY LoneStepsAreTheSame DEF PartInit
<1>2. [PartNext]_<<part, vars, loneVars>>
        => [Lone!Next]_(Lone!vars)
  BY DEF PartNext, loneVars, Lone!vars
<1> QED BY <1>1, <1>2, LoneStepsAreTheSame, PTL DEF PartSpec, LoneProofs!Steps

\* When requests come one at a time, a passport published from a draft has no
\* permalink that can still change, the public URL it is answered with is the
\* pinned one, and a pinned URL leads to its permalink (freezeAllForPassport,
\* resolvePublicUrlWithFreeze).
THEOREM LonePermalinksArePinned ==
    ASSUME NEW r, Request = {r}, PermalinkAssumptions
    PROVE  PartSpec => []LoneIsPinned
BY LoneBehaviour, LoneFacts, LoneFactsAreTheSame, PTL DEF LoneIsPinned

\* When requests come one at a time, a pinned URL is never changed
\* (permalink.ts: "immutable once set and cannot be changed").
THEOREM LonePermalinkUrlsStay ==
    ASSUME NEW r, Request = {r}, PermalinkAssumptions
    PROVE  PartSpec => LonePinnedUrlsStay
BY LoneBehaviour, LoneFacts, LoneUrlsAreTheSame DEF LonePinnedUrlsStay

-----------------------------------------------------------------------------
(* The client: a page that opens has a session                            *)

TabFields ==
    {"page", "to", "boot", "selected", "list", "role", "colour", "started", "form", "flight"}
IsTab(c) == c = [f \in TabFields |-> c[f]]

\* What happens in a tab leaves a tab, and a push enters no page.
LEMMA TabOps ==
    ASSUME NEW c, IsTab(c)
    PROVE  /\ \A p : IsTab(Session!Push(c, p)) /\ Session!Push(c, p).page = c.page
           /\ \A o : IsTab(Session!selectOrganization(c, o))
                     /\ Session!selectOrganization(c, o).page = c.page
                     /\ Session!selectOrganization(c, o).to = c.to
           /\ IsTab(Session!Land(c)) /\ Session!Land(c).page = c.to
<1>1. \A p : IsTab(Session!Push(c, p)) /\ Session!Push(c, p).page = c.page
  BY DEF Session!Push, IsTab, TabFields
<1>2. ASSUME NEW o
      PROVE  /\ IsTab(Session!selectOrganization(c, o))
             /\ Session!selectOrganization(c, o).page = c.page
             /\ Session!selectOrganization(c, o).to = c.to
  <2> DEFINE fs == c.flight \o Session!WatchSelection(o) \o Session!Branding(o)
  <2>1. \/ Session!selectOrganization(c, o) = c
        \/ Session!selectOrganization(c, o) = [c EXCEPT !.selected = o, !.flight = fs]
    BY DEF Session!selectOrganization, IsTab, TabFields
  <2> HIDE DEF fs
  <2> QED BY <2>1 DEF IsTab, TabFields
<1>3. IsTab(Session!Land(c)) /\ Session!Land(c).page = c.to
  BY DEF Session!Land, IsTab, TabFields
<1> QED BY <1>1, <1>2, <1>3

\* The guard lets nobody who is not signed in enter a private page.
LEMMA Guarded ==
    ASSUME NEW c, IsTab(c), NEW signedIn \in BOOLEAN
    PROVE  /\ IsTab(Session!beforeEach(c, signedIn))
           /\ \/ Session!beforeEach(c, signedIn).page = c.page
              \/ /\ Session!beforeEach(c, signedIn).page = c.to
                 /\ signedIn \/ c.to.view \in Session!Public
<1> DEFINE d == Session!selectOrganization(c, c.to.org)
           e == Session!selectOrganization(c, Nobody)
<1>1. /\ IsTab(d) /\ d.page = c.page /\ d.to = c.to
      /\ IsTab(e) /\ e.page = c.page /\ e.to = c.to
  BY TabOps
<1>2. /\ \A p : IsTab(Session!Push(c, p)) /\ Session!Push(c, p).page = c.page
      /\ IsTab(Session!Land(c)) /\ Session!Land(c).page = c.to
  BY TabOps
<1>3. IsTab(Session!Land(d)) /\ Session!Land(d).page = c.to
  <2> HIDE DEF d
  <2> QED BY <1>1, TabOps
<1>4. \A p : IsTab(Session!Push(e, p)) /\ Session!Push(e, p).page = c.page
  <2> HIDE DEF e
  <2> QED BY <1>1, TabOps
<1>5. CASE \/ signedIn /\ c.to.view \in Session!OnlyAnonymous
           \/ ~signedIn /\ c.to.view \notin Session!Public
  BY <1>2, <1>5, Zenon DEF Session!beforeEach
<1>6. CASE /\ ~(signedIn /\ c.to.view \in Session!OnlyAnonymous)
           /\ ~(~signedIn /\ c.to.view \notin Session!Public)
  <2>1. Session!beforeEach(c, signedIn) \in
          {Session!Land(c), Session!Land(d), Session!Push(e, Session!Page("create"))}
    BY <1>6 DEF Session!beforeEach
  <2> QED BY <1>2, <1>3, <1>4, <1>6, <2>1
<1> QED BY <1>5, <1>6

\* Tabs are records, whatever they contain.
TabsOK == tab = [t \in Tabs |-> tab[t]] /\ \A t \in Tabs : IsTab(tab[t])

\* A tab changes into c, which enters no private page that the guard has not let it.
LEMMA TabChanges ==
    ASSUME TabsOK, NEW t \in Tabs, NEW c, IsTab(c), tab' = [tab EXCEPT ![t] = c],
           \/ c.page = tab[t].page \/ c.page.view \in Session!Public \cup {"none"}
           \/ \E i \in DOMAIN tab[t].flight :
                tab[t].flight[i].kind = "session" /\ tab[t].flight[i].answer = "in"
    PROVE  TabsOK' /\ Session!EntersWithSession
<1>1. /\ tab' = [u \in Tabs |-> IF u = t THEN c ELSE tab[u]]
      /\ \A u \in Tabs : IsTab(tab[u])
  BY DEF TabsOK
<1>2. TabsOK'
  BY <1>1 DEF TabsOK
<1> QED BY <1>1, <1>2 DEF Session!EntersWithSession

\* A new tab is one, and shows no page.
LEMMA NewTabOK ==
    ASSUME NEW p
    PROVE  IsTab(Session!NewTab(p)) /\ Session!NewTab(p).page.view = "none"
BY DEF IsTab, TabFields, Session!NewTab, Session!NoPage, Session!Page

\* An answer that is taken up leaves a tab, which enters a private page only
\* if the answer was that there is a session.
LEMMA SessionReceived ==
    ASSUME NEW c, IsTab(c), NEW r
    PROVE  /\ IsTab(Session!Received(c, r))
           /\ \/ Session!Received(c, r).page = c.page
              \/ Session!Received(c, r).page.view \in Session!Public
              \/ r.kind = "session" /\ r.answer = "in"
<1>1. CASE r.kind = "session"
  <2>1. Session!Received(c, r) = Session!beforeEach(c, r.answer = "in")
    BY <1>1 DEF Session!Received
  <2> QED BY <1>1, <2>1, Guarded, (r.answer = "in") \in BOOLEAN
<1>2. CASE r.kind # "session"
  <2>1. \E v : Session!Received(c, r) \in
          {[c EXCEPT !.flight = v], [c EXCEPT !.role = v], [c EXCEPT !.colour = v],
           [c EXCEPT !.form = v]}
    BY <1>2 DEF Session!Received, IsTab, TabFields
  <2> QED BY <2>1 DEF IsTab, TabFields
<1> QED BY <1>1, <1>2

\* What a tab becomes is the same, however the requests are ordered.
LEMMA SameTabOperations ==
    /\ \A p : Disorder!NewTab(p) = Session!NewTab(p)
    /\ \A c, p : Disorder!Push(c, p) = Session!Push(c, p)
    /\ \A c, o : Disorder!selectOrganization(c, o) = Session!selectOrganization(c, o)
    /\ \A c, l : Disorder!InitialOrganization(c, l) = Session!InitialOrganization(c, l)
    /\ \A c : Disorder!Home(c) = Session!Home(c)
    /\ \A o : Disorder!WatchSelection(o) = Session!WatchSelection(o)
    /\ \A o : Disorder!Branding(o) = Session!Branding(o)
    /\ \A c, r : Disorder!Received(c, r) = Session!Received(c, r)
    /\ Disorder!NoPage = Session!NoPage
<1>1. /\ \A p : Disorder!NewTab(p) = Session!NewTab(p)
      /\ \A c : Disorder!Home(c) = Session!Home(c)
      /\ Disorder!NoPage = Session!NoPage
      /\ \A p : Disorder!Page(p) = Session!Page(p)
      /\ \A p, o : Disorder!PageOf(p, o) = Session!PageOf(p, o)
      /\ \A p, o : Disorder!Request(p, o) = Session!Request(p, o)
      /\ \A o : Disorder!WatchSelection(o) = Session!WatchSelection(o)
      /\ \A o : Disorder!Branding(o) = Session!Branding(o)
      /\ \A c, l : Disorder!InitialOrganization(c, l) = Session!InitialOrganization(c, l)
      /\ Disorder!Public = Session!Public /\ Disorder!OnlyAnonymous = Session!OnlyAnonymous
  BY DEF Disorder!NewTab, Disorder!Home, Disorder!NoPage, Disorder!Page, Disorder!PageOf,
         Disorder!Request, Disorder!WatchSelection, Disorder!Branding,
         Disorder!InitialOrganization, Disorder!Public, Disorder!OnlyAnonymous,
         Session!NewTab, Session!Home, Session!NoPage, Session!Page, Session!PageOf,
         Session!Request, Session!WatchSelection, Session!Branding,
         Session!InitialOrganization, Session!Public, Session!OnlyAnonymous
<1>2. \A c, p : Disorder!Push(c, p) = Session!Push(c, p)
  BY <1>1 DEF Disorder!Push, Session!Push
<1>3. \A c, o : Disorder!selectOrganization(c, o) = Session!selectOrganization(c, o)
  BY <1>1 DEF Disorder!selectOrganization, Session!selectOrganization
<1>4. \A c : Disorder!Land(c) = Session!Land(c)
  BY <1>1 DEF Disorder!Land, Session!Land
<1>5. \A c, b : Disorder!beforeEach(c, b) = Session!beforeEach(c, b)
  BY <1>1, <1>2, <1>3, <1>4 DEF Disorder!beforeEach, Session!beforeEach
<1>6. \A c, r : Disorder!Received(c, r) = Session!Received(c, r)
  BY <1>1, <1>5 DEF Disorder!Received, Session!Received
<1> QED BY <1>1, <1>2, <1>3, <1>6

\* Whatever the order of requests, a page is entered by an answer of the guard.
LEMMA TabStep ==
    ASSUME TabsOK, Session!Next \/ Disorder!Next
    PROVE  TabsOK' /\ Session!EntersWithSession
<1> DEFINE Goal == TabsOK' /\ Session!EntersWithSession
<1>1. ASSUME UNCHANGED tab PROVE Goal
  BY <1>1 DEF TabsOK, Session!EntersWithSession
<1>2. \A t \in Tabs : IsTab(tab[t])
  BY DEF TabsOK
<1> HIDE DEF Goal
<1>3. ASSUME NEW o, \/ Session!Removed(o) \/ Disorder!Removed(o)
                   \/ Session!OtherTab(o) \/ Disorder!OtherTab(o)
                   \/ Session!Expire \/ Disorder!Expire
      PROVE  Goal
  BY <1>1, <1>3 DEF Session!Removed, Disorder!Removed, Session!OtherTab, Disorder!OtherTab, Session!Expire, Disorder!Expire
<1>4. ASSUME NEW t \in Tabs, NEW i \in DOMAIN tab[t].flight, Session!Serve(t, i) \/ Disorder!Serve(t, i) PROVE Goal
  <2>1. PICK fs : tab' = [tab EXCEPT ![t] = [@ EXCEPT !.flight = fs]]
    BY <1>4, SameTabOperations DEF Session!Serve, Disorder!Serve
  <2> DEFINE c == [tab[t] EXCEPT !.flight = fs]
  <2>2. IsTab(c) /\ c.page = tab[t].page
    BY <1>2 DEF IsTab, TabFields
  <2>3. tab' = [tab EXCEPT ![t] = c]
    BY <2>1
  <2> HIDE DEF c
  <2> QED BY <2>2, <2>3, TabChanges DEF Goal
<1>5. ASSUME NEW t \in Tabs, NEW i \in DOMAIN tab[t].flight, Session!Receive(t, i) \/ Disorder!Receive(t, i) PROVE Goal
  <2>0. PICK fs :
          tab' = [tab EXCEPT ![t] = Session!Received([@ EXCEPT !.flight = fs], tab[t].flight[i])]
    BY <1>5, SameTabOperations DEF Session!Receive, Disorder!Receive
  <2> DEFINE b == [tab[t] EXCEPT !.flight = fs]
             c == Session!Received(b, tab[t].flight[i])
  <2>1. IsTab(b) /\ b.page = tab[t].page
    BY <1>2 DEF IsTab, TabFields
  <2>2. tab' = [tab EXCEPT ![t] = c]
    BY <2>0
  <2> HIDE DEF b
  <2>3. /\ IsTab(c)
        /\ \/ c.page = b.page \/ c.page.view \in Session!Public
           \/ tab[t].flight[i].kind = "session" /\ tab[t].flight[i].answer = "in"
    BY <2>1, SessionReceived
  <2> HIDE DEF c
  <2> QED BY <2>1, <2>2, <2>3, TabChanges DEF Goal, Session!Public, Session!Public
<1>6. ASSUME NEW t \in Tabs, Session!Starting(t) \/ Disorder!Starting(t) PROVE Goal
  <2>1. CASE Session!StartSession(t) \/ Disorder!StartSession(t)
    <3> DEFINE a == [tab[t] EXCEPT !.boot = "organizations", !.started = session.active]
               b == [tab[t] EXCEPT !.boot = "done", !.selected = storage]
    <3>1. \E p : \/ tab' = [tab EXCEPT ![t] = a]
                 \/ tab' = [tab EXCEPT ![t] = Session!Push(b, p)]
      BY <2>1, <1>2, SameTabOperations DEF Session!StartSession, Disorder!StartSession, IsTab, TabFields
    <3>2. /\ IsTab(a) /\ a.page = tab[t].page
          /\ IsTab(b) /\ b.page = tab[t].page
      BY <1>2 DEF IsTab, TabFields
    <3> HIDE DEF a, b
    <3>3. \A p : IsTab(Session!Push(b, p)) /\ Session!Push(b, p).page = tab[t].page
      BY <3>2, TabOps
    <3> QED BY <3>1, <3>2, <3>3, TabChanges DEF Goal
  <2>2. CASE Session!StartOrganizations(t) \/ Disorder!StartOrganizations(t)
    <3>1. PICK l, o, fs, gs, p :
            LET b == [tab[t] EXCEPT !.boot = "done", !.list = l, !.selected = storage,
                                    !.flight = fs]
            IN  tab' = [tab EXCEPT ![t] =
                          Session!Push(IF o = storage THEN [b EXCEPT !.flight = gs]
                                       ELSE Session!selectOrganization(b, o), p)]
      <4>1. CASE Session!StartOrganizations(t)
        <5>1. PICK l \in {memberships, {}} :
                LET o == Session!InitialOrganization(tab[t], l)
                    b == [tab[t] EXCEPT !.boot = "done", !.list = l, !.selected = storage,
                                        !.flight = Session!WatchSelection(storage)]
                    c == IF o = storage THEN [b EXCEPT !.flight = @ \o Session!Branding(o)]
                         ELSE Session!selectOrganization(b, o)
                IN  tab' = [tab EXCEPT ![t] =
                              Session!Push(c, IF c.to = Session!NoPage THEN Session!Home(c) ELSE c.to)]
          BY <4>1 DEF Session!StartOrganizations
        <5> DEFINE o == Session!InitialOrganization(tab[t], l)
                   fs == Session!WatchSelection(storage)
                   b == [tab[t] EXCEPT !.boot = "done", !.list = l, !.selected = storage,
                                       !.flight = fs]
                   gs == b.flight \o Session!Branding(o)
                   c == IF o = storage THEN [b EXCEPT !.flight = gs]
                        ELSE Session!selectOrganization(b, o)
                   p == IF c.to = Session!NoPage THEN Session!Home(c) ELSE c.to
        <5>2. tab' = [tab EXCEPT ![t] = Session!Push(c, p)]
          BY <5>1
        <5> HIDE DEF o, fs, gs, p
        <5> QED BY <5>2
      <4>2. CASE Disorder!StartOrganizations(t)
        <5>1. PICK l \in {memberships, {}} :
                LET o == Disorder!InitialOrganization(tab[t], l)
                    b == [tab[t] EXCEPT !.boot = "done", !.list = l, !.selected = storage,
                                        !.flight = Disorder!WatchSelection(storage)]
                    c == IF o = storage THEN [b EXCEPT !.flight = @ \o Disorder!Branding(o)]
                         ELSE Disorder!selectOrganization(b, o)
                IN  tab' = [tab EXCEPT ![t] =
                              Disorder!Push(c, IF c.to = Disorder!NoPage THEN Disorder!Home(c) ELSE c.to)]
          BY <4>2 DEF Disorder!StartOrganizations
        <5> DEFINE o == Disorder!InitialOrganization(tab[t], l)
                   fs == Disorder!WatchSelection(storage)
                   b == [tab[t] EXCEPT !.boot = "done", !.list = l, !.selected = storage,
                                       !.flight = fs]
                   gs == b.flight \o Disorder!Branding(o)
                   c == IF o = storage THEN [b EXCEPT !.flight = gs]
                        ELSE Disorder!selectOrganization(b, o)
                   p == IF c.to = Disorder!NoPage THEN Disorder!Home(c) ELSE c.to
        <5>2. tab' = [tab EXCEPT ![t] = Disorder!Push(c, p)]
          BY <5>1
        <5> HIDE DEF o, fs, gs, p
        <5>3. c = IF o = storage THEN [b EXCEPT !.flight = gs]
                  ELSE Session!selectOrganization(b, o)
          BY SameTabOperations
        <5> HIDE DEF c
        <5>4. tab' = [tab EXCEPT ![t] = Session!Push(c, p)]
          BY <5>2, SameTabOperations
        <5> QED BY <5>3, <5>4
      <4> QED BY <2>2, <4>1, <4>2
    <3> DEFINE b == [tab[t] EXCEPT !.boot = "done", !.list = l, !.selected = storage,
                                   !.flight = fs]
               c == IF o = storage THEN [b EXCEPT !.flight = gs]
                    ELSE Session!selectOrganization(b, o)
               d == Session!Push(c, p)
    <3>2. tab' = [tab EXCEPT ![t] = d]
      BY <3>1
    <3>3. IsTab(b) /\ b.page = tab[t].page
      BY <1>2 DEF IsTab, TabFields
    <3> HIDE DEF b
    <3>4. IsTab([b EXCEPT !.flight = gs]) /\ [b EXCEPT !.flight = gs].page = tab[t].page
      BY <3>3 DEF IsTab, TabFields
    <3>5. /\ IsTab(Session!selectOrganization(b, o))
          /\ Session!selectOrganization(b, o).page = tab[t].page
      BY <3>3, TabOps
    <3>6. IsTab(c) /\ c.page = tab[t].page
      BY <3>4, <3>5
    <3> HIDE DEF c
    <3>7. IsTab(d) /\ d.page = tab[t].page
      BY <3>6, TabOps
    <3> HIDE DEF d
    <3> QED BY <3>2, <3>7, TabChanges DEF Goal
  <2> QED BY <1>6, <2>1, <2>2 DEF Session!Starting, Disorder!Starting
<1>7. ASSUME NEW t \in Tabs,
             \/ Session!Reload(t) \/ Disorder!Reload(t) \/ Session!Signin(t) \/ Disorder!Signin(t) \/ Session!Logout(t) \/ Disorder!Logout(t)
             \/ Session!SaveSettings(t) \/ Disorder!SaveSettings(t) \/ \E p : Session!Visit(t, p) \/ Disorder!Visit(t, p)
             \/ \E o : \/ Session!setOrganization(t, o) \/ Disorder!setOrganization(t, o) \/ Session!CreateOrganization(t, o) \/ Disorder!CreateOrganization(t, o)
                      \/ Session!acceptInvite(t, o) \/ Disorder!acceptInvite(t, o)
      PROVE  Goal
  <2>1. CASE Session!Reload(t) \/ Disorder!Reload(t) \/ Session!Signin(t) \/ Disorder!Signin(t)
    <3>1. PICK p : tab' = [tab EXCEPT ![t] = Session!NewTab(p)]
      BY <2>1, SameTabOperations DEF Session!Reload, Disorder!Reload, Session!Signin, Disorder!Signin
    <3> QED BY <3>1, NewTabOK, TabChanges DEF Goal
  <2>2. CASE \E p : Session!Visit(t, p) \/ Disorder!Visit(t, p)
    <3>1. PICK p : tab' = [tab EXCEPT ![t] = Session!Push(@, p)]
      BY <2>2, SameTabOperations DEF Session!Visit, Disorder!Visit
    <3> DEFINE c == Session!Push(tab[t], p)
    <3>2. IsTab(c) /\ c.page = tab[t].page
      BY <1>2, TabOps
    <3>3. tab' = [tab EXCEPT ![t] = c]
      BY <3>1
    <3> HIDE DEF c
    <3> QED BY <3>2, <3>3, TabChanges DEF Goal
  <2>3. CASE \E o : \/ Session!setOrganization(t, o) \/ Disorder!setOrganization(t, o) \/ Session!CreateOrganization(t, o) \/ Disorder!CreateOrganization(t, o)
                    \/ Session!acceptInvite(t, o) \/ Disorder!acceptInvite(t, o)
    <3>1. PICK b, o, p :
            /\ b = tab[t] \/ \E l : b = [tab[t] EXCEPT !.list = l]
            /\ tab' = [tab EXCEPT ![t] = Session!Push(Session!selectOrganization(b, o), p)]
      <4>1. CASE \E o : \/ Session!setOrganization(t, o) \/ Session!CreateOrganization(t, o)
                      \/ Session!acceptInvite(t, o)
        <5>1. \E l, o, p :
                \/ tab' = [tab EXCEPT ![t] =
                             Session!Push(Session!selectOrganization([@ EXCEPT !.list = l], o), p)]
                \/ tab' = [tab EXCEPT ![t] = Session!Push(Session!selectOrganization(@, o), p)]
          BY <4>1 DEF Session!setOrganization, Session!CreateOrganization, Session!acceptInvite
        <5>2. PICK b, o, p :
                /\ b = tab[t] \/ \E l : b = [tab[t] EXCEPT !.list = l]
                /\ tab' = [tab EXCEPT ![t] = Session!Push(Session!selectOrganization(b, o), p)]
          BY <5>1
        <5> QED BY <5>2
      <4>2. CASE \E o : \/ Disorder!setOrganization(t, o) \/ Disorder!CreateOrganization(t, o)
                      \/ Disorder!acceptInvite(t, o)
        <5>1. \E l, o, p :
                \/ tab' = [tab EXCEPT ![t] =
                             Disorder!Push(Disorder!selectOrganization([@ EXCEPT !.list = l], o), p)]
                \/ tab' = [tab EXCEPT ![t] = Disorder!Push(Disorder!selectOrganization(@, o), p)]
          BY <4>2 DEF Disorder!setOrganization, Disorder!CreateOrganization, Disorder!acceptInvite
        <5>2. PICK b, o, p :
                /\ b = tab[t] \/ \E l : b = [tab[t] EXCEPT !.list = l]
                /\ tab' = [tab EXCEPT ![t] = Disorder!Push(Disorder!selectOrganization(b, o), p)]
          BY <5>1
        <5>3. /\ Disorder!selectOrganization(b, o) = Session!selectOrganization(b, o)
              /\ \A c : Disorder!Push(c, p) = Session!Push(c, p)
          BY SameTabOperations
        <5> DEFINE c == Disorder!Push(Disorder!selectOrganization(b, o), p)
        <5>4. c = Session!Push(Session!selectOrganization(b, o), p)
          BY <5>3
        <5>5. tab' = [tab EXCEPT ![t] = c]
          BY <5>2
        <5> HIDE DEF c
        <5>6. tab' = [tab EXCEPT ![t] = Session!Push(Session!selectOrganization(b, o), p)]
          BY <5>4, <5>5
        <5>7. /\ b = tab[t] \/ \E l : b = [tab[t] EXCEPT !.list = l]
              /\ tab' = [tab EXCEPT ![t] = Session!Push(Session!selectOrganization(b, o), p)]
          BY <5>2, <5>6
        <5> QED BY <5>7
      <4> QED BY <2>3, <4>1, <4>2
    <3>3. IsTab(b) /\ b.page = tab[t].page
      BY <3>1, <1>2 DEF IsTab, TabFields
    <3> DEFINE c == Session!selectOrganization(b, o)
    <3>4. IsTab(c) /\ c.page = tab[t].page
      BY <3>3, TabOps
    <3> HIDE DEF c
    <3> DEFINE d == Session!Push(c, p)
    <3>5. IsTab(d) /\ d.page = tab[t].page
      BY <3>4, TabOps
    <3>6. tab' = [tab EXCEPT ![t] = d]
      BY <3>1 DEF c
    <3> HIDE DEF d
    <3> QED BY <3>5, <3>6, TabChanges DEF Goal
  <2>4. CASE Session!Logout(t) \/ Disorder!Logout(t)
    <3> DEFINE b == Session!selectOrganization(tab[t], Nobody)
    <3>1. PICK p : tab' = [tab EXCEPT ![t] = Session!Push([b EXCEPT !.role = Nobody], p)]
      BY <2>4, SameTabOperations DEF Session!Logout, Disorder!Logout
    <3>2. IsTab(b) /\ b.page = tab[t].page
      BY <1>2, TabOps
    <3> HIDE DEF b
    <3> DEFINE c == [b EXCEPT !.role = Nobody]
    <3>3. IsTab(c) /\ c.page = tab[t].page
      BY <3>2 DEF IsTab, TabFields
    <3> HIDE DEF c
    <3> DEFINE d == Session!Push(c, p)
    <3>4. IsTab(d) /\ d.page = tab[t].page
      BY <3>3, TabOps
    <3>5. tab' = [tab EXCEPT ![t] = d]
      BY <3>1 DEF c
    <3> HIDE DEF d
    <3> QED BY <3>4, <3>5, TabChanges DEF Goal
  <2>5. CASE Session!SaveSettings(t) \/ Disorder!SaveSettings(t)
    <3>1. PICK l : tab' = [tab EXCEPT ![t] = [@ EXCEPT !.list = l]]
      BY <2>5, SameTabOperations DEF Session!SaveSettings, Disorder!SaveSettings
    <3> DEFINE c == [tab[t] EXCEPT !.list = l]
    <3>2. IsTab(c) /\ c.page = tab[t].page
      BY <1>2 DEF IsTab, TabFields
    <3>3. tab' = [tab EXCEPT ![t] = c]
      BY <3>1
    <3> HIDE DEF c
    <3> QED BY <3>2, <3>3, TabChanges DEF Goal
  <2> QED BY <1>7, <2>1, <2>2, <2>3, <2>4, <2>5
<1> QED BY <1>3, <1>4, <1>5, <1>6, <1>7 DEF Session!Next, Disorder!Next, Session!Answering, Disorder!Answering, Goal

-----------------------------------------------------------------------------
(* The client: nobody is raised without a confirmation                     *)

\* At most two requests are under way; the second one loads a list.
IsRequest(r) ==
    LET fields == {"kind", "of", "role", "answer", "got"} IN r = [f \in fields |-> r[f]]
IsLoad(r) == IsRequest(r) /\ r.role = Nobody
FlightIs(fs) ==
    \/ fs = <<>>
    \/ \E r : IsRequest(r) /\ fs = <<r>>
    \/ \E r, s : IsRequest(r) /\ IsLoad(s) /\ fs = <<r, s>>
FlightOK == FlightIs(flight)

\* Requests none of which asks for a role.
AskNobody(fs) ==
    \/ fs = <<>>
    \/ \E r : IsLoad(r) /\ fs = <<r>>
    \/ \E r, s : IsLoad(r) /\ IsLoad(s) /\ fs = <<r, s>>

LEMMA TailOfOne == ASSUME NEW r PROVE Tail(<<r>>) = <<>>
<1>1. <<r>> \in Seq({r}) /\ Len(<<r>>) = 1 /\ <<r>> # <<>>
  OBVIOUS
<1> DEFINE s == <<r>>
<1>2. Tail(s) \in Seq({r}) /\ Len(Tail(s)) = Len(s) - 1
  <2> HIDE DEF s
  <2> QED BY <1>1, HeadTailProperties DEF s
<1> QED BY <1>1, <1>2, EmptySeq

LEMMA TailOfTwo == ASSUME NEW r, NEW q PROVE Tail(<<r, q>>) = <<q>>
<1> DEFINE s == <<r, q>>
<1>1. s \in Seq({r, q}) /\ Len(s) = 2 /\ s # <<>> /\ s[2] = q
  OBVIOUS
<1> HIDE DEF s
<1>2. Tail(s) \in Seq({r, q}) /\ Len(Tail(s)) = 1 /\ Tail(s)[1] = q
  BY <1>1, HeadTailProperties
<1>3. Tail(s) = <<q>>
  <2> DEFINE u == Tail(s)
             w == <<q>>
  <2>1. w \in Seq({r, q}) /\ Len(w) = 1 /\ w[1] = q
    OBVIOUS
  <2>2. u \in Seq({r, q}) /\ Len(u) = 1 /\ u[1] = q
    BY <1>2
  <2> HIDE DEF u, w
  <2>3. \A i \in 1..Len(u) : u[i] = w[i]
    BY <2>1, <2>2
  <2> QED BY <2>1, <2>2, <2>3, SeqEqual DEF u, w
<1> QED BY <1>3 DEF s

LEMMA Joined ==
    ASSUME NEW q, NEW l
    PROVE  /\ <<>> \o <<>> = <<>> /\ <<>> \o <<l>> = <<l>>
           /\ <<q>> \o <<>> = <<q>> /\ <<q>> \o <<l>> = <<q, l>>
<1>1. <<>> \o <<>> = <<>> /\ <<>> \o <<l>> = <<l>> /\ <<q>> \o <<>> = <<q>>
  OBVIOUS
<1>2. <<q>> \o <<l>> = <<q, l>>
  <2> DEFINE u == <<q>> \o <<l>>
             w == <<q, l>>
  <2>1. w \in Seq({q, l}) /\ Len(w) = 2 /\ w[1] = q /\ w[2] = l
    OBVIOUS
  <2>2. u \in Seq({q, l}) /\ Len(u) = 2 /\ u[1] = q /\ u[2] = l
    <3> DEFINE a == <<q>>
               b == <<l>>
    <3>1. /\ a \in Seq({q, l}) /\ Len(a) = 1 /\ a[1] = q
          /\ b \in Seq({q, l}) /\ Len(b) = 1 /\ b[1] = l
      OBVIOUS
    <3> HIDE DEF a, b
    <3>2. a \o b \in Seq({q, l}) /\ Len(a \o b) = 2 /\ (a \o b)[1] = q /\ (a \o b)[2] = l
      BY <3>1, ConcatProperties
    <3> QED BY <3>2 DEF a, b
  <2> HIDE DEF u, w
  <2>3. \A i \in 1..Len(u) : u[i] = w[i]
    BY <2>1, <2>2
  <2> QED BY <2>1, <2>2, <2>3, SeqEqual DEF u, w
<1> QED BY <1>1, <1>2

\* What is left when the first request was answered, with what is loaded then.
LEMMA RestAsksNobody ==
    ASSUME FlightOK, flight # <<>>
    PROVE  /\ AskNobody(Tail(flight)) /\ AskNobody(Tail(flight) \o <<>>)
           /\ \A l : IsLoad(l) => AskNobody(Tail(flight) \o <<l>>)
<1>2. CASE \E r : IsRequest(r) /\ flight = <<r>>
  <2>1. Tail(flight) = <<>>
    BY <1>2, TailOfOne
  <2> QED BY <2>1, Joined DEF AskNobody
<1>3. CASE \E r, s : IsRequest(r) /\ IsLoad(s) /\ flight = <<r, s>>
  <2>1. PICK s : IsLoad(s) /\ Tail(flight) = <<s>>
    BY <1>3, TailOfTwo
  <2>2. ASSUME NEW l, IsLoad(l)
        PROVE  AskNobody(Tail(flight) \o <<l>>)
    <3>1. Tail(flight) \o <<l>> = <<s, l>>
      BY <2>1, Joined
    <3> QED BY <2>1, <2>2, <3>1 DEF AskNobody
  <2>3. AskNobody(Tail(flight)) /\ AskNobody(Tail(flight) \o <<>>)
    BY <2>1, Joined DEF AskNobody
  <2> QED BY <2>2, <2>3
<1> QED BY <1>2, <1>3 DEF FlightOK, FlightIs

LEMMA AskingNobody ==
    ASSUME AskNobody(flight')
    PROVE  FlightOK' /\ People!Raises
<1>0. Nobody # "high"
  BY ClientAssumptions DEF ClientAssumptions, People!PeopleViewsAssumption, People!Roles
<1>1. FlightOK'
  BY DEF AskNobody, FlightOK, FlightIs, IsLoad
<1>2. \A i \in DOMAIN flight' : flight'[i].role = Nobody
  BY DEF AskNobody, IsLoad
<1> QED BY <1>0, <1>1, <1>2 DEF People!Raises

LEMMA SameFlight ==
    ASSUME FlightOK, UNCHANGED flight
    PROVE  FlightOK' /\ People!Raises
BY DEF FlightOK, People!Raises

LEMMA LoadsAre ==
    /\ \A k : IsLoad(People!Load(k))
    /\ \A k, p, role : LET r == People!Request(k, p, role)
                       IN  IsRequest(r) /\ r.of = p /\ r.role = role /\ r.kind = k
BY DEF IsLoad, IsRequest, People!Load, People!Request

LEMMA PeopleAnswerStep ==
    ASSUME FlightOK, People!Serve
    PROVE  FlightOK' /\ People!Raises
<1>1. PICK a, got : flight' = [flight EXCEPT ![1].answer = a, ![1].got = got]
  BY DEF People!Serve, People!Answered
<1>2. CASE \E r : IsRequest(r) /\ flight = <<r>>
  <2>1. PICK r : IsRequest(r) /\ flight = <<r>>
    BY <1>2
  <2> DEFINE q == [r EXCEPT !.answer = a, !.got = got]
  <2>2. IsRequest(q) /\ q.kind = r.kind
    BY <2>1 DEF IsRequest
  <2>3. flight' = <<q>>
    BY <1>1, <2>1
  <2> HIDE DEF q
  <2> QED BY <2>1, <2>2, <2>3 DEF FlightOK, FlightIs, People!Raises
<1>3. CASE \E r, s : IsRequest(r) /\ IsLoad(s) /\ flight = <<r, s>>
  <2>1. PICK r, s : IsRequest(r) /\ IsLoad(s) /\ flight = <<r, s>>
    BY <1>3
  <2> DEFINE q == [r EXCEPT !.answer = a, !.got = got]
  <2>2. IsRequest(q) /\ q.kind = r.kind
    BY <2>1 DEF IsRequest
  <2>3. flight' = <<q, s>>
    BY <1>1, <2>1
  <2> HIDE DEF q
  <2> QED BY <2>1, <2>2, <2>3 DEF FlightOK, FlightIs, People!Raises
<1>4. flight # <<>>
  BY DEF People!Serve
<1> QED BY <1>2, <1>3, <1>4 DEF FlightOK, FlightIs

LEMMA PeopleEndsStep ==
    ASSUME FlightOK, People!Ends
    PROVE  FlightOK' /\ People!Raises
<1>1. \/ flight' = <<>>
      \/ flight # <<>> /\ flight' = Tail(flight)
      \/ flight # <<>> /\ flight' = Tail(flight) \o <<>>
      \/ flight # <<>> /\ \E k : flight' = Tail(flight) \o <<People!Load(k)>>
      \/ \E k : flight' = <<People!Load(k)>>
      \/ \E k, l : flight' = <<People!Load(k)>> \o <<People!Load(l)>>
  <2> USE DEF People!Head1, People!Rest
  <2>1. CASE \/ People!fetchUsersEnds \/ People!fetchMembersEnds \/ People!loadInvitationsEnds
             \/ People!loadUserInvitationsEnds \/ People!fetchOrganizationsEnds
             \/ People!organizationsLoaded \/ People!inviteToOrganizationEnds
    BY <2>1 DEF People!fetchUsersEnds, People!fetchMembersEnds, People!loadInvitationsEnds,
       People!loadUserInvitationsEnds, People!fetchOrganizationsEnds,
       People!organizationsLoaded, People!inviteToOrganizationEnds
  <2>2. CASE \/ People!inviteUserEnds \/ People!inviteMemberEnds
             \/ People!changeUserRoleEnds \/ People!changeMemberRoleEnds
    BY <2>2 DEF People!inviteUserEnds, People!inviteMemberEnds, People!changeUserRoleEnds,
       People!changeMemberRoleEnds, People!AnswerTo, People!fetchUsers, People!loadInvitations
  <2>3. CASE People!cancelInviteEnds \/ People!acceptInviteEnds
    BY <2>3 DEF People!cancelInviteEnds, People!acceptInviteEnds, People!loadInvitations,
       People!loadUserInvitations
  <2> QED BY <2>1, <2>2, <2>3 DEF People!Ends
<1>2. ASSUME NEW k, NEW l, flight' = <<People!Load(k)>> \o <<People!Load(l)>>
      PROVE  AskNobody(flight')
  <2>1. flight' = <<People!Load(k), People!Load(l)>>
    BY <1>2, Joined
  <2> QED BY <2>1, LoadsAre DEF AskNobody
<1>4. ASSUME flight # <<>>, NEW k, flight' = Tail(flight) \o <<People!Load(k)>>
      PROVE  AskNobody(flight')
  BY <1>4, RestAsksNobody, LoadsAre
<1>5. ASSUME flight # <<>>, flight' = Tail(flight) \/ flight' = Tail(flight) \o <<>>
      PROVE  AskNobody(flight')
  BY <1>5, RestAsksNobody
<1>6. ASSUME flight' = <<>> \/ \E k : flight' = <<People!Load(k)>>
      PROVE  AskNobody(flight')
  BY <1>6, LoadsAre DEF AskNobody
<1>3. AskNobody(flight')
  BY <1>1, <1>2, <1>4, <1>5, <1>6
<1> QED BY <1>3, AskingNobody

LEMMA PeopleUserStep ==
    ASSUME FlightOK, People!User
    PROVE  FlightOK' /\ People!Raises
<1>1. \/ UNCHANGED flight
      \/ AskNobody(flight')
      \/ \E k : /\ flight' = <<People!Request(k, dialog.of, dialog.role)>>
                /\ dialog # Nobody
                /\ dialog.role # "high" \/ dialog.state = "confirming"
  <2>1. CASE \/ People!onAdd \/ People!openInviteMember \/ People!CloseInvitation
             \/ People!cancelConfirmation \/ \E role \in People!Roles : People!selectRole(role)
             \/ \E p \in Parties : People!onChangeRole(p) \/ People!openChangeMemberRole(p)
    BY <2>1 DEF People!onAdd, People!openInviteMember, People!CloseInvitation,
       People!cancelConfirmation, People!selectRole, People!onChangeRole,
       People!openChangeMemberRole, People!Only
  <2>2. CASE \/ People!inviteToOrganization
             \/ \E p \in Parties : \/ People!inviteUser(p) \/ People!inviteMember(p)
                                   \/ People!cancelInvite(p) \/ People!acceptInvite(p)
    <3>1. \E k, p : flight' = <<People!Request(k, p, Nobody)>>
      BY <2>2 DEF People!inviteToOrganization, People!inviteUser, People!inviteMember,
         People!cancelInvite, People!acceptInvite, People!Send
    <3> QED BY <3>1, LoadsAre DEF AskNobody, IsLoad
  <2>3. CASE People!closeChangeRole \/ \E p \in Parties : People!onInviteToOrg(p)
    <3>1. flight' = <<>> \/ \E k : flight' = <<People!Load(k)>>
      BY <2>3 DEF People!closeChangeRole, People!onInviteToOrg, People!fetchUsers,
         People!fetchMembers
    <3> QED BY <3>1, LoadsAre DEF AskNobody
  <2>4. CASE People!requestChangeRole \/ People!confirmChange
    BY <2>4 DEF People!requestChangeRole, People!confirmChange, People!changeRole,
       People!onSave, People!Send, People!Only, People!InForm, People!Confirming
  <2> QED BY <2>1, <2>2, <2>3, <2>4 DEF People!User
<1>2. CASE \E k : /\ flight' = <<People!Request(k, dialog.of, dialog.role)>>
                  /\ dialog # Nobody
                  /\ dialog.role # "high" \/ dialog.state = "confirming"
  BY <1>2, LoadsAre DEF FlightOK, FlightIs, People!Raises
<1> QED BY <1>1, <1>2, SameFlight, AskingNobody

\* A request that raises somebody is sent by a dialog that was confirmed.
LEMMA PeopleStep ==
    ASSUME FlightOK, People!Next
    PROVE  FlightOK' /\ People!Raises
<1>1. CASE People!OtherUser
  BY <1>1, SameFlight DEF People!OtherUser
<1> QED BY <1>1, PeopleAnswerStep, PeopleEndsStep, PeopleUserStep DEF People!Next

LEMMA PeopleInit == People!Init => FlightOK
<1>1. People!Init => AskNobody(flight)
  <2>1. People!Init => \/ \E k : flight = <<People!Load(k)>>
                       \/ \E k, l : flight = <<People!Load(k)>> \o <<People!Load(l)>>
    BY DEF People!Init, People!Mounted, People!fetchUsers, People!fetchMembers,
       People!loadInvitations, People!loadUserInvitations
  <2>2. ASSUME NEW k, NEW l, flight = <<People!Load(k)>> \o <<People!Load(l)>>
        PROVE  AskNobody(flight)
    <3>1. flight = <<People!Load(k), People!Load(l)>>
      BY <2>2, Joined
    <3> QED BY <3>1, LoadsAre DEF AskNobody
  <2>3. ASSUME NEW k, flight = <<People!Load(k)>>
        PROVE  AskNobody(flight)
    BY <2>3, LoadsAre DEF AskNobody
  <2> QED BY <2>1, <2>2, <2>3
<1> QED BY <1>1 DEF AskNobody, FlightOK, FlightIs, IsLoad

-----------------------------------------------------------------------------
(* The client: a form keeps edits, and sends nothing else                  *)

\* What has been edited is what is sent, and an edited form is one that was
\* loaded once: while it is saved nothing else fills it.
ProfileInv ==
    /\ DOMAIN sending = HastyProfile!Kinds /\ DOMAIN profile = {"email", "verified", "values"}
    /\ DOMAIN profilePage =
         {"email", "verified", "pending", "original", "loaded", "failed"}
    /\ profilePage.loaded \in BOOLEAN /\ profilePage.failed \in BOOLEAN
    /\ DOMAIN profile.values = HastyProfile!Fields /\ DOMAIN form = HastyProfile!Fields
    /\ DOMAIN profilePage.original = HastyProfile!Fields
    /\ \A k \in HastyProfile!Kinds :
        /\ sending[k].at = "answered" => DOMAIN sending[k].me.user.values = HastyProfile!Fields
        /\ sending[k].at = "saved" => DOMAIN sending[k].user.values = HastyProfile!Fields
    /\ \A f \in HastyProfile!Fields \ touched : form[f] = profilePage.original[f]
    /\ profilePage.loaded => ~profilePage.failed
    /\ sending["hydrate"].at # "idle" => ~profilePage.loaded /\ ~profilePage.failed
    /\ sending["profile"].at # "idle" => profilePage.loaded
    /\ sending["profile"].at = "sent" => DOMAIN sending["profile"].body \subseteq touched

LEMMA ProfileInit == HastyProfile!Init => ProfileInv
BY DEF HastyProfile!Init, ProfileInv, HastyProfile!Idle, HastyProfile!Fields, HastyProfile!Kinds

\* The server answers with the account, whose values are those of all fields.
LEMMA ProfileServerStep ==
    ASSUME ProfileInv, HastyProfile!Server
    PROVE  ProfileInv'
<1> USE DEF ProfileInv, HastyProfile!Fields, HastyProfile!Kinds, HastyProfile!AccountWith
<1>1. CASE HastyProfile!UpdateProfile
  BY <1>1 DEF HastyProfile!UpdateProfile
<1>2. CASE HastyProfile!FindPending
  BY <1>2 DEF HastyProfile!FindPending, HastyProfile!Reply
<1>3. CASE HastyProfile!GetMe
  BY <1>3 DEF HastyProfile!GetMe, HastyProfile!Reply
<1>4. CASE HastyProfile!Resend
  BY <1>4 DEF HastyProfile!Resend, HastyProfile!Reply
<1>5. CASE HastyProfile!RequestEmailChange
  BY <1>5 DEF HastyProfile!RequestEmailChange, HastyProfile!Reply
<1>6. CASE HastyProfile!CancelEmailChange
  BY <1>6 DEF HastyProfile!CancelEmailChange, HastyProfile!Reply
<1> QED BY <1>1, <1>2, <1>3, <1>4, <1>5, <1>6 DEF HastyProfile!Server

LEMMA ProfileEndsStep ==
    ASSUME ProfileInv, HastyProfile!Ends
    PROVE  ProfileInv'
<1> USE DEF ProfileInv, HastyProfile!Fields, HastyProfile!Kinds, HastyProfile!Idle
<1>1. CASE HastyProfile!HydrateEnds
  <2>1. sending' = [sending EXCEPT !["hydrate"] = [at |-> "idle"]] /\ UNCHANGED profile
    BY <1>1 DEF HastyProfile!HydrateEnds
  <2>2. CASE sending["hydrate"].at = "answered"
    <3>1. HastyProfile!ApplyMe(sending["hydrate"].me)
      BY <1>1, <2>2 DEF HastyProfile!HydrateEnds
    <3> DEFINE values == sending["hydrate"].me.user.values
    <3>2. /\ form' = values /\ touched' = {} /\ DOMAIN values = HastyProfile!Fields
          /\ DOMAIN profilePage' = DOMAIN profilePage
          /\ profilePage'.original = values /\ profilePage'.loaded = TRUE
          /\ profilePage'.failed = profilePage.failed
      BY <2>2, <3>1 DEF HastyProfile!ApplyMe
    <3> HIDE DEF values
    <3> QED BY <2>1, <2>2, <3>2
  <2>3. CASE sending["hydrate"].at # "answered"
    <3>1. /\ profilePage' = [profilePage EXCEPT !.failed = TRUE]
          /\ UNCHANGED <<form, touched>>
      BY <1>1, <2>3 DEF HastyProfile!HydrateEnds
    <3>2. ~profilePage.loaded
      BY <1>1 DEF HastyProfile!HydrateEnds
    <3>3. /\ profilePage'.original = profilePage.original
          /\ profilePage'.loaded = FALSE /\ profilePage'.failed = TRUE
          /\ DOMAIN profilePage' = DOMAIN profilePage
      BY <3>1, <3>2
    <3> QED BY <2>1, <3>1, <3>3
  <2> QED BY <2>2, <2>3
<1>2. CASE HastyProfile!SubmitEnds
  <2>1. sending' = [sending EXCEPT !["profile"] = [at |-> "idle"]] /\ UNCHANGED profile
    BY <1>2 DEF HastyProfile!SubmitEnds
  <2>2. CASE sending["profile"].at = "answered"
    <3>1. HastyProfile!ApplyMe(sending["profile"].me)
      BY <1>2, <2>2 DEF HastyProfile!SubmitEnds
    <3> DEFINE values == sending["profile"].me.user.values
    <3>2. /\ form' = values /\ touched' = {} /\ DOMAIN values = HastyProfile!Fields
          /\ DOMAIN profilePage' = DOMAIN profilePage
          /\ profilePage'.original = values /\ profilePage'.loaded = TRUE
          /\ profilePage'.failed = profilePage.failed
      BY <2>2, <3>1 DEF HastyProfile!ApplyMe
    <3> HIDE DEF values
    <3> QED BY <2>1, <2>2, <3>2
  <2>3. CASE sending["profile"].at # "answered"
    BY <1>2, <2>1, <2>3 DEF HastyProfile!SubmitEnds
  <2> QED BY <2>2, <2>3
<1>3. CASE HastyProfile!RequestEnds
  BY <1>3 DEF HastyProfile!RequestEnds, HastyProfile!OnEmailUpdated
<1>4. CASE HastyProfile!CancelEnds
  BY <1>4 DEF HastyProfile!CancelEnds, HastyProfile!OnEmailUpdated
<1>5. CASE HastyProfile!ResendEnds
  BY <1>5 DEF HastyProfile!ResendEnds
<1> QED BY <1>1, <1>2, <1>3, <1>4, <1>5 DEF HastyProfile!Ends

LEMMA ProfileUserStep ==
    ASSUME ProfileInv, HastyProfile!User
    PROVE  ProfileInv'
<1> USE DEF ProfileInv, HastyProfile!Fields, HastyProfile!Kinds, HastyProfile!InFlight,
            HastyProfile!Sent
<1>1. CASE HastyProfile!Hydrate
  BY <1>1 DEF HastyProfile!Hydrate
<1>2. CASE HastyProfile!SubmitProfile
  BY <1>2 DEF HastyProfile!SubmitProfile, HastyProfile!ComputeProfileDiff
<1>3. CASE HastyProfile!Discard
  BY <1>3 DEF HastyProfile!Discard
<1>4. ASSUME NEW f \in HastyProfile!Fields, NEW v, HastyProfile!Edit(f, v)
      PROVE  ProfileInv'
  BY <1>4 DEF HastyProfile!Edit
<1>5. CASE \/ HastyProfile!SendVerification \/ HastyProfile!CancelPending
           \/ HastyProfile!ResendVerification
  BY <1>5 DEF HastyProfile!SendVerification, HastyProfile!CancelPending,
              HastyProfile!ResendVerification, HastyProfile!OnlyCard
<1>6. CASE \/ HastyProfile!OpenEmailPanel \/ HastyProfile!CloseEmailPanel
           \/ \E e \in {"x", "y"} : HastyProfile!EnterEmail(e)
  BY <1>6 DEF HastyProfile!OpenEmailPanel, HastyProfile!CloseEmailPanel,
              HastyProfile!EnterEmail, HastyProfile!OnlyCard
<1> QED BY <1>1, <1>2, <1>3, <1>4, <1>5, <1>6 DEF HastyProfile!User

LEMMA ProfileStep ==
    ProfileInv /\ [HastyProfile!Next]_(HastyProfile!vars) => ProfileInv'
<1> SUFFICES ASSUME ProfileInv, [HastyProfile!Next]_(HastyProfile!vars)
             PROVE  ProfileInv'
  OBVIOUS
<1> USE DEF ProfileInv, HastyProfile!Fields, HastyProfile!Kinds
<1>1. CASE HastyProfile!Confirm
  BY <1>1 DEF HastyProfile!Confirm
<1>2. ASSUME NEW f, NEW v, HastyProfile!OtherTab(f, v)
      PROVE  ProfileInv'
  BY <1>2 DEF HastyProfile!OtherTab
<1>3. ASSUME NEW kind \in HastyProfile!Kinds, HastyProfile!Fail(kind)
      PROVE  ProfileInv'
  BY <1>3 DEF HastyProfile!Fail
<1>4. CASE UNCHANGED HastyProfile!vars
  BY <1>4 DEF HastyProfile!vars
<1> QED BY <1>1, <1>2, <1>3, <1>4, ProfileServerStep, ProfileEndsStep, ProfileUserStep
        DEF HastyProfile!Next

\* What is not edited stays, and what is edited is not lost.
LEMMA ProfileIsMeant ==
    ASSUME ProfileInv, HastyProfile!Next
    PROVE  HastyProfile!KeepsEdits /\ HastyProfile!SavesEdits
<1>1. HastyProfile!SavesEdits
  BY DEF HastyProfile!SavesEdits, HastyProfile!UpdateProfile, ProfileInv, HastyProfile!Kinds
<1>2. UNCHANGED form \/ HastyProfile!User \/ HastyProfile!HydrateEnds \/ HastyProfile!SubmitEnds
  BY DEF HastyProfile!Next, HastyProfile!Server, HastyProfile!Ends, HastyProfile!UpdateProfile,
         HastyProfile!FindPending, HastyProfile!GetMe, HastyProfile!Resend,
         HastyProfile!RequestEmailChange, HastyProfile!CancelEmailChange,
         HastyProfile!RequestEnds, HastyProfile!CancelEnds, HastyProfile!ResendEnds,
         HastyProfile!OnEmailUpdated, HastyProfile!Confirm, HastyProfile!OtherTab,
         HastyProfile!Fail
<1> QED BY <1>1, <1>2 DEF HastyProfile!KeepsEdits
-----------------------------------------------------------------------------
(* The client as a whole                                                   *)

clientVars ==
    <<area, sessionVars, readingVars, tableVars, profileVars, peopleVars, signingVars>>

ClientInv == TabsOK /\ FlightOK /\ (area = "hasty profile" => ProfileInv)

Meant ==
    /\ area \in {"session", "disorder"} => Session!EntersWithSession
    /\ area = "hasty profile" => HastyProfile!KeepsEdits /\ HastyProfile!SavesEdits
    /\ area = "people" => People!Raises

LEMMA ClientInitOK == ClientInit => ClientInv
<1> SUFFICES ASSUME ClientInit PROVE ClientInv
  OBVIOUS
<1>1. TabsOK
  <2>1. tab = [t \in Tabs |-> Session!NewTab(Session!NoPage)]
    BY DEF ClientInit, Session!Init
  <2> QED BY <2>1, NewTabOK DEF TabsOK
<1>2. FlightOK
  BY PeopleInit DEF ClientInit
<1>3. ProfileInv
  <2>1. Profile!Init
    BY DEF ClientInit
  <2>2. HastyProfile!Init
    BY <2>1 DEF Profile!Init, Profile!Fields, Profile!Kinds, Profile!NoEmail, Profile!Idle,
                Profile!Nothing, Profile!Start, Profile!Closed, Profile!Status,
                HastyProfile!Init, HastyProfile!Fields, HastyProfile!Kinds,
                HastyProfile!NoEmail, HastyProfile!Idle, HastyProfile!Nothing,
                HastyProfile!Start, HastyProfile!Closed, HastyProfile!Status
  <2> QED BY <2>2, ProfileInit
<1> QED BY <1>1, <1>2, <1>3 DEF ClientInv

\* What the parts that do not take a step keep.
LEMMA ClientStays ==
    /\ TabsOK /\ UNCHANGED sessionVars => TabsOK'
    /\ FlightOK /\ UNCHANGED peopleVars => FlightOK'
    /\ ProfileInv /\ UNCHANGED profileVars => ProfileInv'
<1>1. TabsOK /\ UNCHANGED sessionVars => TabsOK'
  BY DEF sessionVars, TabsOK
<1>2. FlightOK /\ UNCHANGED peopleVars => FlightOK'
  BY SameFlight DEF peopleVars
<1>3. UNCHANGED profileVars => UNCHANGED HastyProfile!vars
  BY DEF profileVars, HastyProfile!vars
<1> QED BY <1>1, <1>2, <1>3, ProfileStep

LEMMA ClientStep ==
    ASSUME ClientInv, ClientNext
    PROVE  ClientInv' /\ Meant
<1> USE DEF ClientInv, Meant
<1>1. CASE /\ area \in {"session", "disorder"} /\ (Session!Next \/ Disorder!Next)
           /\ UNCHANGED <<area, profileVars, peopleVars>>
  BY <1>1, TabStep, ClientStays
<1>2. CASE /\ area \in {"documents", "submodels", "table", "profile", "signing"}
           /\ UNCHANGED <<area, sessionVars, peopleVars>>
  BY <1>2, ClientStays
<1>3. CASE /\ area = "hasty profile" /\ HastyProfile!Next
           /\ UNCHANGED <<area, sessionVars, peopleVars>>
  BY <1>3, ProfileStep, ProfileIsMeant, ClientStays
<1>4. CASE /\ area = "people" /\ People!Next
           /\ UNCHANGED <<area, sessionVars, profileVars>>
  BY <1>4, PeopleStep, ClientStays
<1> QED BY <1>1, <1>2, <1>3, <1>4 DEF ClientNext

\* Private pages open only with a session that the guard was told of, edits
\* are neither lost nor sent where nothing was edited, and nobody is raised
\* without a confirmation, in every behaviour of the client (beforeEach,
\* profile-form.ts, ChangeRoleDialog.vue).
THEOREM ClientDoesWhatIsMeant == ClientSpec => WhatHappensIsMeant
<1>1. ClientInv /\ [ClientNext]_clientVars => ClientInv'
  <2>1. ClientInv /\ UNCHANGED clientVars => ClientInv'
    BY ClientStays DEF clientVars, ClientInv
  <2> QED BY <2>1, ClientStep
<1>2. ClientInv /\ [ClientNext]_clientVars
        => [Meant]_<<sessionVars, profileVars, peopleVars>>
  BY ClientStep DEF clientVars
<1>3. ClientSpec => ClientInit /\ [][ClientNext]_clientVars
  BY DEF ClientSpec, clientVars
<1>4. [][Meant]_<<sessionVars, profileVars, peopleVars>> => WhatHappensIsMeant
  BY DEF WhatHappensIsMeant, Meant
<1> QED BY <1>1, <1>2, <1>3, <1>4, ClientInitOK, PTL

=============================================================================
