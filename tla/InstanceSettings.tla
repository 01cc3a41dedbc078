-------------------------- MODULE InstanceSettings --------------------------
(***************************************************************************)
(* The settings of an instance: one document, created with the defaults by *)
(* the first read, saved whole by every update, and overridden by the      *)
(* environment the server was started with.  A setting the environment     *)
(* enforces is locked.                                                     *)
(*                                                                         *)
(* A handler serves one request at a time; at names the await it resumes   *)
(* from.                                                                   *)
(***************************************************************************)
EXTENDS Naturals, Sequences

CONSTANTS
    Names,              \* signupEnabled, organizationCreationEnabled, ...
    Environments,       \* what a server may be started with, per setting
    Handlers,           \* requests in flight at the same time
    MaxDocuments, MaxRestarts,  \* bounds
    None

InstanceSettingsAssumption ==
    /\ Environments \subseteq [Names -> BOOLEAN \cup {None}] /\ Environments # {}
    /\ {MaxDocuments, MaxRestarts} \subseteq Nat

VARIABLES
    documents,          \* the collection, in the order of insertion
    environment,        \* of the running server
    handlers,           \* the handlers' local state
    restarts

vars == <<documents, environment, handlers, restarts>>

Values == [Names -> BOOLEAN]
Updates == {u \in [Names -> BOOLEAN \cup {None}] : \E n \in Names : u[n] # None}

Idle == [at |-> "idle"]
HandlerStates ==
    {Idle}
      \cup [at : {"create"}, asked : Updates \cup {None}]
      \cup [at : {"save"}, asked : Updates, id : 1..MaxDocuments, next : Values]

TypeOK ==
    /\ documents \in Seq(Values) /\ Len(documents) <= MaxDocuments
    /\ environment \in Environments
    /\ handlers \in [Handlers -> HandlerStates]
    /\ restarts \in 0..MaxRestarts

Goto(h, state) == handlers' = [handlers EXCEPT ![h] = state]
Answer(h) == Goto(h, Idle)

Locked(n) == environment[n] # None

WithEnvOverrides(stored) ==
    [n \in Names |-> IF Locked(n) THEN environment[n] ELSE stored[n]]

\* Refused when it asks for another value of a locked setting.
MayUpdate(current, asked) ==
    \A n \in Names : Locked(n) /\ asked[n] # None => asked[n] = current[n]

Replace(current, asked) == asked

Update(current, asked) ==
    [n \in Names |-> IF asked[n] # None THEN asked[n] ELSE current[n]]

Defaults == [n \in Names |-> TRUE]

-----------------------------------------------------------------------------
\* The update is computed from the settings as the environment leaves them.
ReadToUpdate(h, asked, id, stored) ==
    LET current == WithEnvOverrides(stored)
    IN  IF MayUpdate(current, asked)
        THEN Goto(h, [at |-> "save", asked |-> asked, id |-> id,
                      next |-> Update(current, asked)])
        ELSE Answer(h)

\* A read (nothing is asked) finds a document or goes on to create one.
GetSettings(h, asked) ==
    /\ handlers[h] = Idle
    /\ IF documents # <<>>
       THEN asked # None /\ ReadToUpdate(h, asked, 1, documents[1])
       ELSE Goto(h, [at |-> "create", asked |-> asked])
    /\ UNCHANGED <<documents, environment, restarts>>

\* Mutant: the defaults are stored whatever was inserted since.
CreateDefaultsFirst(h) ==
    /\ handlers[h].at = "create"
    /\ Len(documents) < MaxDocuments
    /\ documents' = <<Defaults>> \o documents
    /\ IF handlers[h].asked = None THEN Answer(h)
       ELSE ReadToUpdate(h, handlers[h].asked, 1, Defaults)
    /\ UNCHANGED <<environment, restarts>>

CreateDefaults(h) ==
    /\ handlers[h].at = "create"
    /\ Len(documents) < MaxDocuments
    /\ documents' = Append(documents, Defaults)
    /\ IF handlers[h].asked = None THEN Answer(h)
       ELSE ReadToUpdate(h, handlers[h].asked, Len(documents) + 1, Defaults)
    /\ UNCHANGED <<environment, restarts>>

Save(h) ==
    /\ handlers[h].at = "save"
    /\ documents' = [documents EXCEPT ![handlers[h].id] = handlers[h].next]
    /\ Answer(h)
    /\ UNCHANGED <<environment, restarts>>

Restart ==
    /\ restarts < MaxRestarts
    /\ restarts' = restarts + 1
    /\ environment' \in Environments
    /\ handlers' = [h \in Handlers |-> Idle]
    /\ UNCHANGED documents

Init ==
    /\ documents = <<>>
    /\ environment \in Environments
    /\ handlers = [h \in Handlers |-> Idle]
    /\ restarts = 0

Next ==
    \/ \E h \in Handlers :
         \/ \E asked \in Updates \cup {None} : GetSettings(h, asked)
         \/ CreateDefaults(h) \/ Save(h)
    \/ Restart

Spec == Init /\ [][Next]_vars

-----------------------------------------------------------------------------
Changed(n) ==
    /\ documents # <<>>
    /\ documents'[1][n] # documents[1][n]

\* With one request at a time and nothing enforced, what is stored changes only
\* where an update asks for it, and to what it asks for.
AskedFor ==
    \A n \in Names :
      Changed(n) => \E h \in Handlers :
                      handlers[h].at = "save" /\ handlers[h].asked[n] = documents'[1][n]

\* Requests that find no settings at the same time may each store the defaults,
\* yet the settings that are read never become others by that: the document
\* found first stays first, and is written only by updates.
DefaultsAreQuiet ==
    \A h \in Handlers :
      handlers[h].at = "create" /\ handlers'[h].at # "create" =>
        \A n \in Names : ~Changed(n)

\* A setting that is locked keeps what was stored for the time it is not ("This
\* setting is controlled by an environment variable and cannot be changed here").
LockedKeepsStored ==
    [][\A n \in Names : Locked(n) => ~Changed(n)]_documents

=============================================================================

