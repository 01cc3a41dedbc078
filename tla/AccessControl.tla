--------------------------- MODULE AccessControl ----------------------------
(***************************************************************************)
(* The access control of one shell: for each subject a rule with at most   *)
(* one entry per object, an object being the path of a submodel or of an   *)
(* element.  An object without an entry inherits from the nearest object   *)
(* above it that has one.  The entries are administered by subjects of a   *)
(* higher rank and follow the elements when these are moved or deleted.    *)
(* A rule without entries is the empty set: the code drops it.  The paths  *)
(* of columns leave out their table and row; that a request may modify the *)
(* policies of a column is more than the code allows.                      *)
(***************************************************************************)
EXTENDS Naturals, Sequences, SequencesExt

CONSTANTS
    Submodels,          \* idShorts of submodels
    ElementPaths,       \* paths of elements below a submodel
    TablePaths,         \* those of tables: nothing below has its own policy
    Subjects,           \* targets of rules; some may not be in the hierarchy
    Actors,             \* subjects that send requests
    PermissionSets,     \* sets of permissions a request may give
    Imports,            \* rules and elements that a shell may be imported with
    MaxChanges          \* bound: requests in all

Permissions == {"Create", "Read", "Edit", "Delete"}

SubmodelPaths == {<<s>> : s \in Submodels}
Paths == SubmodelPaths \cup ElementPaths

Entry == [object : Paths, permissions : SUBSET Permissions]
Rules == [Subjects -> SUBSET Entry]

AccessAssumption ==
    /\ \A p \in ElementPaths : p \in Seq(STRING) /\ Front(p) \in Paths
    /\ TablePaths \subseteq ElementPaths
    /\ Actors \subseteq Subjects
    /\ PermissionSets \subseteq SUBSET Permissions
    /\ Imports \subseteq [rules : Rules, elements : SUBSET Paths]
    /\ MaxChanges \in Nat

VARIABLES
    rules,              \* the shell's access permission rules
    elements,           \* the paths that exist
    changes             \* counter for the bound

vars == <<rules, elements, changes>>

TypeOK ==
    /\ rules \in Rules /\ elements \subseteq Paths /\ changes \in 0..MaxChanges

-----------------------------------------------------------------------------
IsChildOf(path, other) == IsPrefix(other, path)

Concat(newObject, path, oldObject) ==
    newObject \o SubSeq(path, Len(oldObject) + 1, Len(path))

\* The position in the hierarchy; a combination that is not in it ranks above
\* all (findIndex is -1), but administers no one.
Hierarchy == <<"ADMIN", "OWNER", "MEMBER", "USER", "ANONYMOUS">>
Rank(subject) == SelectInSeq(Hierarchy, LAMBDA s : s = subject)

MayAdminister(actor, subject) ==
    actor = "ADMIN" \/ Rank(actor) < Rank(subject)

AllowedCombination(permissions) ==
    permissions # {} => "Read" \in permissions

EntriesOf(subject, object) == {e \in rules[subject] : e.object = object}

\* The nearest entry at or above the object decides.
Can(subject, action, object) ==
    \E e \in rules[subject] :
        /\ IsChildOf(object, e.object)
        /\ \A f \in rules[subject] :
             IsChildOf(object, f.object) => Len(f.object) <= Len(e.object)
        /\ action \in e.permissions

\* Mutant: only the exact path.
WithoutExactPath(object) ==
    [s \in Subjects |-> {e \in rules[s] : e.object # object}]
WithoutPath(object) ==
    [s \in Subjects |-> {e \in rules[s] : ~IsChildOf(e.object, object)}]

\* Mutant: the policies are deleted instead.
NotMoved(oldObject, newObject) == WithoutPath(oldObject)
\* Entries that were at the new paths are overwritten.
Moved(oldObject, newObject) ==
    LET Move(e) == [e EXCEPT !.object = Concat(newObject, @, oldObject)]
    IN  [s \in Subjects |->
          LET moved == {e \in rules[s] : IsChildOf(e.object, oldObject)}
              paths == {Move(e).object : e \in moved}
          IN  {e \in rules[s] \ moved : e.object \notin paths}
                \cup {Move(e) : e \in moved}]

Default(object) ==
    [s \in Subjects |->
        rules[s] \cup
        CASE s \in {"ADMIN", "OWNER", "MEMBER"} ->
               {[object |-> object, permissions |-> Permissions]}
          [] s = "ANONYMOUS" ->
               {[object |-> object, permissions |-> {"Read"}]}
          [] OTHER -> {}]
WithDefault(object) ==
    IF \E s \in Subjects : EntriesOf(s, object) # {} THEN rules ELSE Default(object)

-----------------------------------------------------------------------------
\* A shell is created empty or imported with its submodels and rules.
Init ==
    /\ \/ rules = [s \in Subjects |-> {}] /\ elements = {}
       \/ \E i \in Imports : rules = i.rules /\ elements = i.elements
    /\ changes = 0

Change == changes < MaxChanges /\ changes' = changes + 1

AddSubmodel(submodel) ==
    /\ Change /\ <<submodel>> \notin elements
    /\ elements' = elements \cup {<<submodel>>}
    /\ rules' = WithDefault(<<submodel>>)

AddElement(actor, path) ==
    /\ Change /\ path \notin elements /\ Front(path) \in elements
    /\ Can(actor, "Create", Front(path))
    /\ elements' = elements \cup {path}
    /\ UNCHANGED rules

\* The element, or the submodel, with everything below it and its policies.
Delete(actor, path) ==
    /\ Change /\ path \in elements
    /\ Can(actor, "Delete", path)
    /\ elements' = {p \in elements : ~IsChildOf(p, path)}
    /\ rules' = WithoutPath(path)

\* A column is moved into a group or out of it, with its policies.
Move(actor, path, newPath) ==
    /\ Change /\ path \in elements /\ newPath \notin elements
    /\ ~IsChildOf(newPath, path) /\ Front(newPath) \in elements
    /\ Last(newPath) = Last(path) /\ path \notin TablePaths
    /\ Can(actor, "Create", Front(newPath)) /\ Can(actor, "Delete", path)
    /\ elements' =
         {IF IsChildOf(p, path) THEN Concat(newPath, p, path) ELSE p : p \in elements}
    /\ rules' = Moved(path, newPath)

AddPolicy(actor, subject, object, permissions) ==
    /\ MayAdminister(actor, subject) /\ AllowedCombination(permissions)
    /\ EntriesOf(subject, object) = {}
    /\ rules' = [rules EXCEPT ![subject] =
         @ \cup {[object |-> object, permissions |-> permissions]}]

ModifyPolicy(actor, subject, object, permissions) ==
    /\ MayAdminister(actor, subject) /\ AllowedCombination(permissions)
    /\ EntriesOf(subject, object) # {}
    /\ rules' = [rules EXCEPT ![subject] =
         {IF e.object = object THEN [e EXCEPT !.permissions = permissions] ELSE e :
            e \in @}]

\* A target inside a table is refused, one that does not exist is skipped.
ValidTarget(object) ==
    /\ object \in elements
    /\ \A t \in TablePaths : IsChildOf(object, t) => object = t

\* One modification of a request, each of which either modifies or adds.
ApplyModifiedRules(actor, subject, object, permissions) ==
    /\ Change /\ ValidTarget(object)
    /\ \/ ModifyPolicy(actor, subject, object, permissions)
       \/ AddPolicy(actor, subject, object, permissions)
    /\ UNCHANGED elements

DeletePolicy(actor, subject, object) ==
    /\ Change /\ MayAdminister(actor, subject)
    /\ EntriesOf(subject, object) # {}
    /\ rules' = [rules EXCEPT ![subject] = {e \in @ : e.object # object}]
    /\ UNCHANGED elements

Administer(actor) ==
    \E subject \in Subjects, object \in Paths :
        \/ \E permissions \in PermissionSets :
             ApplyModifiedRules(actor, subject, object, permissions)
        \/ DeletePolicy(actor, subject, object)

Next ==
    \/ \E s \in Submodels : AddSubmodel(s)
    \/ \E actor \in Actors :
         \/ \E p \in ElementPaths : AddElement(actor, p)
         \/ \E p \in Paths : Delete(actor, p)
         \/ \E p, q \in ElementPaths : Move(actor, p, q)
         \/ Administer(actor)

Spec == Init /\ [][Next]_vars

-----------------------------------------------------------------------------
\* A subject has at most one entry for an object, so that the first one found
\* is the one that is shown, modified and deleted.
OneEntryPerObject ==
    \A s \in Subjects : \A e, f \in rules[s] : e.object = f.object => e = f

\* No entry outlives its element or stays behind when it is moved: a later
\* element of that name starts without the policies of the old one.
NoStalePolicies == \A s \in Subjects : \A e \in rules[s] : e.object \in elements

\* Rows and columns have the policies of their table.
NoPolicyInsideTable ==
    \A s \in Subjects : \A e \in rules[s], t \in TablePaths :
        IsChildOf(e.object, t) => e.object = t

\* Nobody may change what cannot be read, whatever the level the permission is
\* inherited from.
ChangeNeedsRead ==
    \A s \in Subjects, p \in Paths, a \in Permissions :
        Can(s, a, p) => Can(s, "Read", p)

Access(s) == {<<p, a>> \in Paths \X Permissions : Can(s, a, p)}

\* Whatever an actor administers, superiors and equals keep their access.
SparesSuperiors ==
    \A actor \in Actors \ {"ADMIN"}, s \in Subjects :
      /\ Rank(s) <= Rank(actor)
      /\ rules'[s] # rules[s] /\ Access(s)' # Access(s)
      => ~Administer(actor)

\* Adding, moving and deleting elements leaves the access to every other
\* element as it was.
KeepsOtherAccess ==
    elements' # elements =>
      \A s \in Subjects : rules'[s] # rules[s] =>
        \A p \in elements \cap elements', a \in Permissions :
          Can(s, a, p)' = Can(s, a, p)

\* An element that has a policy of its own keeps its access, and that of what
\* is below it, when it is moved.
MovesAccess ==
    \A path \in elements \ elements', newPath \in elements' \ elements :
      (\E actor \in Actors : Move(actor, path, newPath)) =>
        \A s \in Subjects, a \in Permissions, p \in elements :
          EntriesOf(s, path) # {} /\ IsChildOf(p, path) =>
            (Can(s, a, Concat(newPath, p, path))' <=> Can(s, a, p))

=============================================================================

