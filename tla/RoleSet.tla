------------------------------ MODULE RoleSet ------------------------------
(***************************************************************************)
(* What RoleStore promises its users: a set of (role, namespace, pod)      *)
(* triples, and Exists answering whether some pod of the namespace uses    *)
(* the role.  Nothing here knows about maps of maps.                       *)
(***************************************************************************)
CONSTANTS Roles, Namespaces, Pods

VARIABLES
    used,    \* the triples
    answer   \* what the last Exists returned

vars == <<used, answer>>

Init ==
    /\ used = {}
    /\ answer = FALSE

Add(role, namespace, name) ==
    /\ used' = used \cup {<<role, namespace, name>>}
    /\ UNCHANGED answer

Remove(role, namespace, name) ==
    /\ used' = used \ {<<role, namespace, name>>}
    /\ UNCHANGED answer

InUse(role, namespace) == \E name \in Pods : <<role, namespace, name>> \in used

Exists(role, namespace) ==
    /\ answer' = InUse(role, namespace)
    /\ UNCHANGED used

Next ==
    \E role \in Roles, namespace \in Namespaces :
        \/ \E name \in Pods : Add(role, namespace, name)
        \/ \E name \in Pods : Remove(role, namespace, name)
        \/ Exists(role, namespace)

Spec == Init /\ [][Next]_vars
=============================================================================
