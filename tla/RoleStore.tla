----------------------------- MODULE RoleStore -----------------------------
(***************************************************************************)
(* RoleStore (role_store.go): a map from roles to maps from namespaces to  *)
(* sets of pods, shared between goroutines.  Each method holds the mutex   *)
(* from beginning to end, so each is one step.                             *)
(***************************************************************************)
CONSTANTS Roles, Namespaces, Pods

VARIABLES
    Store,    \* role -> namespace -> set of pod names
    answer    \* what the last Exists returned

vars == <<Store, answer>>

EmptyMap == [k \in {} |-> {}]
Put(map, key, value) ==
    [k \in DOMAIN map \cup {key} |-> IF k = key THEN value ELSE map[k]]
Delete(map, key) == [k \in DOMAIN map \ {key} |-> map[k]]

\* A map over some of the keys.
Map(K, V) == UNION {[D -> V] : D \in SUBSET K}

TypeOK ==
    /\ Store \in Map(Roles, Map(Namespaces, SUBSET Pods))
    /\ answer \in BOOLEAN

Init ==
    /\ Store = EmptyMap
    /\ answer = FALSE

NamespacesOf(role) == IF role \in DOMAIN Store THEN Store[role] ELSE EmptyMap

PodsOf(role, namespace) ==
    IF namespace \in DOMAIN NamespacesOf(role)
    THEN NamespacesOf(role)[namespace] ELSE {}

\* Wrong on purpose: role and namespace, both strings, swapped.
AddSwapped(role, namespace, name) ==
    /\ Store' = Put(Store, namespace, Put(NamespacesOf(namespace), role, {name}))
    /\ UNCHANGED answer

\* Wrong on purpose: the role's other namespaces are forgotten.
AddFresh(role, namespace, name) ==
    /\ Store' = Put(Store, role, Put(EmptyMap, namespace, {name}))
    /\ UNCHANGED answer

Add(role, namespace, name) ==
    /\ LET pods == PodsOf(role, namespace) \cup {name}
       IN  Store' = Put(Store, role, Put(NamespacesOf(role), namespace, pods))
    /\ UNCHANGED answer

\* Wrong on purpose: a namespace keeps its key when its last pod goes.
RemovePodOnly(role, namespace, name) ==
    /\ IF name \in PodsOf(role, namespace)
       THEN Store' = [Store EXCEPT ![role][namespace] = @ \ {name}]
       ELSE UNCHANGED Store
    /\ UNCHANGED answer

\* The last pod of a namespace takes the namespace with it, the last namespace
\* of a role the role.
Remove(role, namespace, name) ==
    /\ IF name \in PodsOf(role, namespace)
       THEN LET pods == PodsOf(role, namespace) \ {name}
                left == IF pods = {} THEN Delete(Store[role], namespace)
                                     ELSE Put(Store[role], namespace, pods)
            IN  Store' = IF DOMAIN left = {} THEN Delete(Store, role)
                                             ELSE Put(Store, role, left)
       ELSE UNCHANGED Store
    /\ UNCHANGED answer

\* Looks at the keys only.
Exists(role, namespace) ==
    /\ answer' = (namespace \in DOMAIN NamespacesOf(role))
    /\ UNCHANGED Store

Next ==
    \E role \in Roles, namespace \in Namespaces :
        \/ \E name \in Pods : Add(role, namespace, name)
        \/ \E name \in Pods : Remove(role, namespace, name)
        \/ Exists(role, namespace)

Spec == Init /\ [][Next]_vars

-----------------------------------------------------------------------------
\* Remove leaves no key behind without something under it, at either level:
\* Exists, which only looks at keys, and refresh(), which fetches credentials
\* for every key, rely on it.
NoEmptyMaps ==
    \A role \in DOMAIN Store :
        /\ DOMAIN Store[role] # {}
        /\ \A namespace \in DOMAIN Store[role] : Store[role][namespace] # {}

\* The triples a store stands for.
Used ==
    {t \in Roles \X Namespaces \X Pods : t[3] \in PodsOf(t[1], t[2])}

Abstract == INSTANCE RoleSet WITH used <- Used

\* The maps of maps behave as the set of triples they stand for: Add and Remove
\* change one triple and no other, and Exists answers for the triples.
ImplementsRoleSet == Abstract!Spec
=============================================================================
