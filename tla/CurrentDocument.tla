---------------------------- MODULE CurrentDocument ----------------------------
(***************************************************************************)
(* What the handlers see of a document: a status, the thumbnails and the   *)
(* policies of its shell, and its submodels, each with a link.  Nothing    *)
(* tells them in which version of a schema any of it is stored.            *)
(***************************************************************************)
CONSTANTS Submodels, Media, Links

VARIABLES status, thumbnails, policies, links
currentVars == <<status, thumbnails, policies, links>>

Policies == {"default", "own"}

\* f with value v for x.
With(f, x, v) == [y \in {x} \cup DOMAIN f |-> IF y = x THEN v ELSE f[y]]

AnyDocument ==
    /\ status \in {"Draft", "Published", "Archived"}
    /\ thumbnails \in SUBSET Media
    /\ \E subs \in SUBSET Submodels :
        links \in [subs -> Links] /\ policies \in [subs -> Policies]

Publish ==
    /\ status = "Draft" /\ status' = "Published" /\ UNCHANGED <<thumbnails, policies, links>>
Archive ==
    /\ status # "Archived" /\ status' = "Archived"
    /\ UNCHANGED <<thumbnails, policies, links>>
SetThumbnails(ms) == thumbnails' = ms /\ UNCHANGED <<status, policies, links>>
SetPolicy(s) ==
    /\ s \in DOMAIN links /\ policies' = [policies EXCEPT ![s] = "own"]
    /\ UNCHANGED <<status, thumbnails, links>>
SetLink(s, l) ==
    /\ s \in DOMAIN links /\ links' = [links EXCEPT ![s] = l]
    /\ UNCHANGED <<status, thumbnails, policies>>
AddSubmodel(s, l) ==
    /\ s \notin DOMAIN links
    /\ links' = With(links, s, l) /\ policies' = With(policies, s, "default")
    /\ UNCHANGED <<status, thumbnails>>
DeleteSubmodel(s) ==
    /\ s \in DOMAIN links
    /\ links' = [x \in DOMAIN links \ {s} |-> links[x]]
    /\ policies' = [x \in DOMAIN policies \ {s} |-> policies[x]]
    /\ UNCHANGED <<status, thumbnails>>

ChangeAny ==
    \/ Publish \/ Archive \/ \E ms \in SUBSET Media : SetThumbnails(ms)
    \/ \E s \in Submodels :
        \/ SetPolicy(s) \/ DeleteSubmodel(s)
        \/ \E l \in Links : SetLink(s, l) \/ AddSubmodel(s, l)

Current == AnyDocument /\ [][ChangeAny]_currentVars

=============================================================================
