--------------------------- MODULE PermissionsForm ---------------------------
(***************************************************************************)
(* The form of the web client by which a user gives permissions on one     *)
(* object to the subordinate roles.  The client has a copy of the shell's  *)
(* rules of its own role and those below; the form clones the entries of   *)
(* its object when it is opened, edits the clones and sends them all.      *)
(* Taking an entry back so that the object inherits again is a request of  *)
(* its own, sent at once.  The server is module AccessControl; a request   *)
(* may be lost, and so may its answer.                                     *)
(***************************************************************************)
EXTENDS AccessControl, FiniteSets

CONSTANTS
    Clients,            \* roles of the users with a client
    Leaves,             \* objects without children: forms without "Create"
    Toggles             \* bound: permissions that users give or take

FormAssumption ==
    Clients \subseteq Actors \ {"ANONYMOUS"} /\ Leaves \subseteq ElementPaths
    /\ Toggles \subseteq Permissions

VARIABLES
    shell,              \* each client's copy of the rules
    form,               \* each client's form
    request,            \* each client's request
    stale               \* clients whose copy the server has gone past (history)

formVars == <<rules, elements, changes, shell, form, request, stale>>

\* An entry of a form, or of a request: no or one set of permissions.
NotOwn == {}
Closed == [open |-> FALSE, object |-> <<>>, own |-> [s \in Subjects |-> NotOwn],
           edited |-> {}]
NoRequest == [op |-> "none", subject |-> "none", sent |-> [s \in Subjects |-> NotOwn],
              state |-> "none", answer |-> [s \in Subjects |-> {}]]

-----------------------------------------------------------------------------
(* Roles *)

\* The client does not know users without an organization.
RoleHierarchy == <<"ADMIN", "OWNER", "MEMBER", "ANONYMOUS">>
RoleIndex(s) == SelectInSeq(RoleHierarchy, LAMBDA role : role = s)

CanEditPermissionsOfRole(c, s) == RoleIndex(c) < RoleIndex(s)

\* The rules a response contains.
Visible(c) == [s \in Subjects |-> IF s = c \/ Rank(c) < Rank(s) THEN rules[s] ELSE {}]

FilterRulesForObject(c, object) ==
    [s \in Subjects |-> {e.permissions : e \in {e \in shell[c][s] : e.object = object}}]

\* The client's ability, by its copy of the rules.
ClientCan(c, action, object) ==
    \E e \in shell[c][c] :
        /\ IsPrefix(e.object, object) /\ action \in e.permissions
        /\ \A f \in shell[c][c] : IsPrefix(f.object, object) => Len(f.object) <= Len(e.object)

-----------------------------------------------------------------------------
(* The form *)

Ignored(object) == IF object \in Leaves THEN {"Create"} ELSE {}

\* The entry of the form, else the nearest in the client's copy.
Inherits(c, s) ==
    /\ form[c].own[s] = NotOwn
    /\ \E e \in shell[c][s] : IsStrictPrefix(e.object, form[c].object)
InheritedPermissions(c, s) ==
    LET above == {e \in shell[c][s] : IsStrictPrefix(e.object, form[c].object)}
    IN  UNION {e.permissions : e \in
                {e \in above : \A f \in above : Len(f.object) <= Len(e.object)}}
PermissionsOf(c, s) ==
    (IF form[c].own[s] = NotOwn THEN InheritedPermissions(c, s) ELSE UNION form[c].own[s])
        \ Ignored(form[c].object)

Disabled(c) == ~ClientCan(c, "Edit", form[c].object)
Editable(c, s) ==
    /\ form[c].open /\ request[c] = NoRequest /\ ~Disabled(c)
    /\ s # c /\ s \in {RoleHierarchy[i] : i \in RoleIndex(c)..Len(RoleHierarchy)}
    /\ CanEditPermissionsOfRole(c, s)

\* The other permissions do not make sense without reading.
EditPermissions(c, s, permissions) ==
    LET others == permissions \ ({"Read"} \cup Ignored(form[c].object))
    IN  form' = [form EXCEPT
            ![c].own[s] = {permissions \cup (IF others # {} THEN {"Read"} ELSE {})},
            ![c].edited = @ \cup {s}]

Unserved == UNCHANGED <<rules, elements, changes, stale>>

Open(c, object) ==
    /\ ~form[c].open /\ request[c] = NoRequest
    /\ object \in elements /\ \A t \in TablePaths : IsPrefix(t, object) => object = t
    /\ form' = [form EXCEPT ![c] =
         [open |-> TRUE, object |-> object, own |-> FilterRulesForObject(c, object),
          edited |-> {}]]
    /\ UNCHANGED <<shell, request>> /\ Unserved

\* A check box; the one for reading is disabled while another is checked.
OnPermissionChange(c, s, p) ==
    /\ Editable(c, s) /\ ~Inherits(c, s)
    /\ p \notin Ignored(form[c].object) /\ (s = "ANONYMOUS" => p = "Read")
    /\ LET shown == PermissionsOf(c, s)
       IN  /\ p = "Read" => shown \subseteq {"Read"}
           /\ EditPermissions(c, s, IF p \in shown THEN shown \ {p} ELSE shown \cup {p})
    /\ UNCHANGED <<shell, request>> /\ Unserved

\* The toggle, which submodels do not have.
TakeOverInherited(c, s) ==
    /\ Editable(c, s) /\ Inherits(c, s) /\ Len(form[c].object) > 1
    /\ EditPermissions(c, s, PermissionsOf(c, s))
    /\ UNCHANGED <<shell, request>> /\ Unserved

Send(c, r) == request' = [request EXCEPT ![c] = [r EXCEPT !.state = "sent"]]
ResetToInherited(c, s) ==
    /\ Editable(c, s) /\ ~Inherits(c, s) /\ Len(form[c].object) > 1
    /\ Send(c, [NoRequest EXCEPT !.op = "reset", !.subject = s])
    /\ UNCHANGED <<shell, form>> /\ Unserved

SavePermissions(c) ==
    /\ form[c].open /\ request[c] = NoRequest /\ ~Disabled(c)
    /\ \E s \in Subjects : form[c].own[s] # NotOwn
    /\ Send(c, [NoRequest EXCEPT !.op = "save",
         !.sent = [s \in Subjects |->
             IF CanEditPermissionsOfRole(c, s) THEN form[c].own[s] ELSE NotOwn]])
    /\ UNCHANGED <<shell, form>> /\ Unserved

Close(c) ==
    /\ form[c].open /\ request[c] = NoRequest
    /\ form' = [form EXCEPT ![c] = Closed] /\ UNCHANGED <<shell, request>> /\ Unserved

\* The page is opened again.
Reload(c) ==
    /\ ~form[c].open /\ request[c] = NoRequest
    /\ shell' = [shell EXCEPT ![c] = Visible(c)] /\ stale' = stale \ {c}
    /\ UNCHANGED <<rules, elements, changes, form, request>>

-----------------------------------------------------------------------------
(* The server, and answers *)

Targets(r) == {s \in Subjects : r.sent[s] # NotOwn}
Accepted(c) ==
    LET r == request[c]
    IN  CASE r.op = "save" ->
               form[c].object \in elements =>
                 /\ ValidTarget(form[c].object)
                 /\ \A s \in Targets(r) :
                      MayAdminister(c, s) /\ AllowedCombination(UNION r.sent[s])
          [] r.op = "reset" -> MayAdminister(c, r.subject)
          [] OTHER -> TRUE

\* What is not there any more is skipped.
Served(c) ==
    LET r == request[c]
        object == form[c].object
        Rest(s) == {e \in rules[s] : e.object # object}
    IN  CASE r.op = "save" /\ object \in elements ->
               [s \in Subjects |->
                   IF r.sent[s] = NotOwn THEN rules[s]
                   ELSE Rest(s) \cup {[object |-> object, permissions |-> UNION r.sent[s]]}]
          [] r.op = "reset" -> [rules EXCEPT ![r.subject] = Rest(r.subject)]
          [] OTHER -> rules

Answer(c, state, answer) ==
    request' = [request EXCEPT ![c].state = state, ![c].sent = NoRequest.sent,
                    ![c].answer = IF request[c].op = "save" THEN answer ELSE @]

\* A request that is lost, or refused, fails; so does one whose answer is lost.
\* The answer to a save has the rules.
Serve(c) ==
    /\ request[c].state = "sent" /\ UNCHANGED <<elements, shell, form>>
    /\ \/ /\ Accepted(c) /\ rules' = Served(c)
          /\ IF rules' = rules THEN UNCHANGED changes ELSE Change
          /\ \E state \in {"ok", "failed"} :
               /\ Answer(c, state, IF state = "ok" THEN Visible(c)' ELSE NoRequest.answer)
               /\ stale' = (IF rules' = rules THEN stale
                            ELSE stale \cup (Clients \ IF state = "ok" THEN {c} ELSE {}))
                           \ (IF state = "ok" /\ request[c].op = "save" THEN {c} ELSE {})
       \/ /\ Answer(c, "failed", NoRequest.answer)
          /\ UNCHANGED <<rules, changes, stale>>

Answered(c, op) == request[c].state \in {"ok", "failed"} /\ request[c].op = op
NotSent(c) == request' = [request EXCEPT ![c] = NoRequest]

AnswerSave(c) ==
    /\ Answered(c, "save") /\ NotSent(c) /\ Unserved
    /\ IF request[c].state = "ok"
       THEN shell' = [shell EXCEPT ![c] = request[c].answer] /\ form' = [form EXCEPT ![c] = Closed]
       ELSE UNCHANGED <<shell, form>>

\* The form forgets the entry, whether it was deleted.
Forget(c) ==
    form' = [form EXCEPT ![c].own[request[c].subject] = NotOwn,
                         ![c].edited =
                           IF c \notin stale /\ EntriesOf(request[c].subject, form[c].object) = {}
                           THEN @ \ {request[c].subject} ELSE @ \cup {request[c].subject}]
AnswerReset(c) ==
    /\ Answered(c, "reset") /\ UNCHANGED <<rules, elements, changes>>
    /\ \/ /\ request[c].state = "ok"       \* the rules are fetched
          /\ shell' = [shell EXCEPT ![c] = Visible(c)] /\ UNCHANGED stale
       \/ UNCHANGED shell /\ stale' = stale \cup (IF request[c].state = "ok" THEN {c} ELSE {})
    /\ Forget(c) /\ NotSent(c)

Client(c) ==
    \/ \E object \in Paths : Open(c, object)
    \/ \E s \in Subjects :
        \/ \E p \in Toggles : OnPermissionChange(c, s, p)
        \/ TakeOverInherited(c, s) \/ ResetToInherited(c, s)
    \/ SavePermissions(c) \/ Close(c) \/ Reload(c)
    \/ Serve(c) \/ AnswerSave(c) \/ AnswerReset(c)

\* Elements come and go by other requests, and others administer the rules.
ElsewhereChanged ==
    /\ \E actor \in Actors :
         \/ \E path \in ElementPaths : AddElement(actor, path) \/ Delete(actor, path)
         \/ actor \notin Clients /\ Administer(actor)
    /\ UNCHANGED <<shell, form, request>> /\ stale' = IF rules' = rules THEN stale ELSE Clients

FormInit ==
    /\ Init /\ elements # {}
    /\ shell = [c \in Clients |-> Visible(c)] /\ form = [c \in Clients |-> Closed]
    /\ request = [c \in Clients |-> NoRequest] /\ stale = {}
FormNext == ElsewhereChanged \/ \E c \in Clients : Client(c)
FormSpec == FormInit /\ [][FormNext]_formVars

-----------------------------------------------------------------------------
FormTypeOK ==
    /\ TypeOK /\ stale \subseteq Clients
    /\ \A c \in Clients :
        /\ shell[c] \in Rules
        /\ form[c].open => form[c].object \in Paths
        /\ \A s \in Subjects : Cardinality(form[c].own[s]) <= 1
                               /\ \A P \in form[c].own[s] : P \subseteq Permissions
        /\ request[c].op # "none" => form[c].open

\* What a form sends is never refused, whatever others changed meanwhile: no
\* entry of an equal or a superior, no combination without reading, nothing
\* inside a table.
SentIsAccepted == \A c \in Clients : request[c].state = "sent" => Accepted(c)

\* Where nothing was edited the form shows the access that the server grants,
\* also what is inherited, and after a save or a failure, as long as nobody
\* else changed the rules.
ShownIsAccess ==
    \A c \in Clients :
        form[c].open /\ request[c] = NoRequest /\ c \notin stale =>
            \A s \in Subjects \ form[c].edited :
                s = c \/ Rank(c) < Rank(s) =>
                    PermissionsOf(c, s) =
                        {p \in Permissions \ Ignored(form[c].object) : Can(s, p, form[c].object)}

\* Saving changes the entries of those roles only that were edited, and gives
\* them what the form shows, as long as nobody else changed the rules.
ChangesEdited ==
    \A c \in Clients :
     Serve(c) /\ request[c].op = "save" /\ c \notin stale /\ rules' # rules =>
         \A s \in Subjects :
             /\ rules'[s] # rules[s] => s \in form[c].edited
             /\ form[c].own[s] # NotOwn /\ s # c =>
                 \A p \in Permissions \ Ignored(form[c].object) :
                     Can(s, p, form[c].object)' <=> p \in PermissionsOf(c, s)

\* A role that is said to inherit the permissions of the parent node has none of
\* its own (label of the toggle).
InheritingHasNoEntry ==
    \A c \in Clients :
        form[c].open /\ request[c] = NoRequest /\ c \notin stale =>
            \A s \in Subjects : Inherits(c, s) => EntriesOf(s, form[c].object) = {}

=============================================================================

