-------------------------- MODULE RoleStoreProofs --------------------------
(***************************************************************************)
(* RoleStore implements RoleSet, for every set of roles, namespaces and    *)
(* pods.                                                                   *)
(***************************************************************************)
EXTENDS RoleStore, TLAPS

-----------------------------------------------------------------------------
(* Maps. *)

\* A map is a function on some of the keys.
LEMMA MapIntro ==
  ASSUME NEW K, NEW V, NEW m, m = [k \in DOMAIN m |-> m[k]],
         DOMAIN m \subseteq K, \A k \in DOMAIN m : m[k] \in V
  PROVE  m \in Map(K, V)
BY DEF Map

LEMMA MapElim ==
  ASSUME NEW K, NEW V, NEW m \in Map(K, V)
  PROVE  /\ m = [k \in DOMAIN m |-> m[k]]
         /\ DOMAIN m \subseteq K
         /\ \A k \in DOMAIN m : m[k] \in V
BY DEF Map

LEMMA EmptyMapType ==
  ASSUME NEW K, NEW V
  PROVE  EmptyMap \in Map(K, V) /\ DOMAIN EmptyMap = {}
BY MapIntro DEF EmptyMap

\* What m[key] = value and delete(m, key) do.
LEMMA PutMap ==
  ASSUME NEW K, NEW V, NEW m \in Map(K, V), NEW key \in K, NEW value \in V
  PROVE  /\ Put(m, key, value) \in Map(K, V)
         /\ DOMAIN Put(m, key, value) = DOMAIN m \cup {key}
         /\ Put(m, key, value)[key] = value
         /\ \A k \in DOMAIN m \ {key} : Put(m, key, value)[k] = m[k]
<1> DEFINE p == Put(m, key, value)
<1>1. /\ p = [k \in DOMAIN p |-> p[k]]
      /\ DOMAIN p = DOMAIN m \cup {key}
      /\ p[key] = value
      /\ \A k \in DOMAIN m \ {key} : p[k] = m[k]
  BY DEF Put
<1> HIDE DEF p
<1>2. DOMAIN p \subseteq K /\ \A k \in DOMAIN p : p[k] \in V
  BY <1>1, MapElim
<1>3. p \in Map(K, V)
  BY <1>1, <1>2, MapIntro
<1> QED
  BY <1>1, <1>3 DEF p

LEMMA DeleteMap ==
  ASSUME NEW K, NEW V, NEW m \in Map(K, V), NEW key \in K
  PROVE  /\ Delete(m, key) \in Map(K, V)
         /\ DOMAIN Delete(m, key) = DOMAIN m \ {key}
         /\ \A k \in DOMAIN m \ {key} : Delete(m, key)[k] = m[k]
<1> DEFINE d == Delete(m, key)
<1>1. /\ d = [k \in DOMAIN d |-> d[k]]
      /\ DOMAIN d = DOMAIN m \ {key}
      /\ \A k \in DOMAIN m \ {key} : d[k] = m[k]
  BY DEF Delete
<1> HIDE DEF d
<1>2. DOMAIN d \subseteq K /\ \A k \in DOMAIN d : d[k] \in V
  BY <1>1, MapElim
<1>3. d \in Map(K, V)
  BY <1>1, <1>2, MapIntro
<1> QED
  BY <1>1, <1>3 DEF d

-----------------------------------------------------------------------------
(* The invariant. *)

PodSets == SUBSET Pods
PodMaps == Map(Namespaces, PodSets)

IInv == TypeOK /\ NoEmptyMaps

LEMMA NamespacesOfType ==
  ASSUME TypeOK, NEW role
  PROVE  /\ Store \in Map(Roles, PodMaps)
         /\ NamespacesOf(role) \in PodMaps
         /\ \A namespace : PodsOf(role, namespace) \subseteq Pods
<1>1. Store \in Map(Roles, PodMaps)
  BY DEF TypeOK, PodMaps, PodSets
<1>2. NamespacesOf(role) \in PodMaps
  <2>1. EmptyMap \in PodMaps
    BY EmptyMapType DEF PodMaps
  <2>2. \A r \in DOMAIN Store : Store[r] \in PodMaps
    BY <1>1, MapElim
  <2> QED
    BY <2>1, <2>2 DEF NamespacesOf
<1>3. \A namespace : PodsOf(role, namespace) \subseteq Pods
  <2>1. \A n \in DOMAIN NamespacesOf(role) : NamespacesOf(role)[n] \in PodSets
    BY <1>2, MapElim DEF PodMaps
  <2> QED
    BY <2>1 DEF PodsOf, PodSets
<1> QED
  BY <1>1, <1>2, <1>3

\* The store Add leaves behind.
LEMMA AddEffect ==
  ASSUME IInv, NEW role \in Roles, NEW namespace \in Namespaces,
         NEW name \in Pods, Add(role, namespace, name)
  PROVE  /\ IInv'
         /\ PodsOf(role, namespace)' = PodsOf(role, namespace) \cup {name}
         /\ \A r, n : <<r, n>> # <<role, namespace>>
               => PodsOf(r, n)' = PodsOf(r, n)
<1> DEFINE pods == PodsOf(role, namespace) \cup {name}
           spaces == Put(NamespacesOf(role), namespace, pods)
<1>1. Store' = Put(Store, role, spaces) /\ UNCHANGED answer
  BY DEF Add
<1>2. pods \in PodSets /\ pods # {}
  BY NamespacesOfType DEF IInv, PodSets
<1>3. NamespacesOf(role) \in PodMaps /\ Store \in Map(Roles, PodMaps)
  BY NamespacesOfType DEF IInv
<1>pods. pods = PodsOf(role, namespace) \cup {name}
  OBVIOUS
<1> HIDE DEF pods
<1>4. /\ spaces \in PodMaps
      /\ DOMAIN spaces = DOMAIN NamespacesOf(role) \cup {namespace}
      /\ spaces[namespace] = pods
      /\ \A n \in DOMAIN NamespacesOf(role) \ {namespace} :
            spaces[n] = NamespacesOf(role)[n]
  BY <1>2, <1>3, PutMap DEF PodMaps
<1> HIDE DEF spaces
<1>5. /\ Store' \in Map(Roles, PodMaps)
      /\ DOMAIN Store' = DOMAIN Store \cup {role}
      /\ Store'[role] = spaces
      /\ \A r \in DOMAIN Store \ {role} : Store'[r] = Store[r]
  BY <1>1, <1>3, <1>4, PutMap
<1>6. TypeOK'
  BY <1>1, <1>5 DEF TypeOK, IInv, PodMaps, PodSets
<1>7. NoEmptyMaps'
  <2>1. \A n \in DOMAIN NamespacesOf(role) : NamespacesOf(role)[n] # {}
    BY EmptyMapType DEF IInv, NoEmptyMaps, NamespacesOf
  <2>2. \A n \in DOMAIN spaces : spaces[n] # {}
    BY <1>2, <1>4, <2>1
  <2> QED
    BY <1>4, <1>5, <2>2 DEF IInv, NoEmptyMaps
<1>8. NamespacesOf(role)' = spaces
  BY <1>5 DEF NamespacesOf
<1>9. \A r : r # role => NamespacesOf(r)' = NamespacesOf(r)
  BY <1>5 DEF NamespacesOf
<1>10. PodsOf(role, namespace)' = pods
  BY <1>4, <1>8 DEF PodsOf
<1>11. ASSUME NEW n, n # namespace
       PROVE  PodsOf(role, n)' = PodsOf(role, n)
  BY <1>4, <1>8, <1>11 DEF PodsOf
<1>12. ASSUME NEW r, NEW n, r # role
       PROVE  PodsOf(r, n)' = PodsOf(r, n)
  BY <1>9, <1>12 DEF PodsOf
<1> QED
  BY <1>6, <1>7, <1>10, <1>11, <1>12, <1>pods DEF IInv

\* The store Remove leaves behind.
LEMMA RemoveEffect ==
  ASSUME IInv, NEW role \in Roles, NEW namespace \in Namespaces,
         NEW name \in Pods, Remove(role, namespace, name)
  PROVE  /\ IInv'
         /\ PodsOf(role, namespace)' = PodsOf(role, namespace) \ {name}
         /\ \A r, n : <<r, n>> # <<role, namespace>>
               => PodsOf(r, n)' = PodsOf(r, n)
<1>1. CASE name \notin PodsOf(role, namespace)
  <2>1. UNCHANGED <<Store, answer>>
    BY <1>1 DEF Remove
  <2> QED
    BY <1>1, <2>1 DEF IInv, TypeOK, NoEmptyMaps, PodsOf, NamespacesOf
<1>2. CASE name \in PodsOf(role, namespace)
  <2> DEFINE old == NamespacesOf(role)
             pods == PodsOf(role, namespace) \ {name}
             left == IF pods = {} THEN Delete(old, namespace)
                                  ELSE Put(old, namespace, pods)
  <2>0. role \in DOMAIN Store /\ Store[role] = old
    BY <1>2, EmptyMapType DEF PodsOf, NamespacesOf
  <2>1. /\ Store' = IF DOMAIN left = {} THEN Delete(Store, role)
                                        ELSE Put(Store, role, left)
        /\ UNCHANGED answer
    BY <1>2, <2>0 DEF Remove
  <2>2. pods \in PodSets /\ pods = PodsOf(role, namespace) \ {name}
    BY NamespacesOfType DEF IInv, PodSets
  <2>3. namespace \in DOMAIN old /\ old = NamespacesOf(role)
    BY <1>2 DEF PodsOf
  <2>4. old \in PodMaps
    BY NamespacesOfType DEF IInv
  <2> HIDE DEF pods, old
  <2>5. /\ left \in PodMaps
        /\ namespace \in DOMAIN left <=> pods # {}
        /\ namespace \in DOMAIN left => left[namespace] = pods
        /\ \A n : n # namespace =>
              /\ n \in DOMAIN left <=> n \in DOMAIN old
              /\ n \in DOMAIN left => left[n] = old[n]
    <3>1. CASE pods = {}
      <4>1. left = Delete(old, namespace)
        BY <3>1
      <4> HIDE DEF left
      <4>2. /\ left \in PodMaps
            /\ DOMAIN left = DOMAIN old \ {namespace}
            /\ \A n \in DOMAIN old \ {namespace} :
                  left[n] = old[n]
        <5>1. Delete(old, namespace) \in PodMaps
          BY <2>4, DeleteMap DEF PodMaps
        <5> QED
          BY <4>1, <5>1 DEF Delete
      <4> QED
        BY <3>1, <4>2
    <3>2. CASE pods # {}
      <4>1. left = Put(old, namespace, pods)
        BY <3>2
      <4> HIDE DEF left
      <4>2. /\ left \in PodMaps
            /\ DOMAIN left = DOMAIN old \cup {namespace}
            /\ left[namespace] = pods
            /\ \A n \in DOMAIN old \ {namespace} :
                  left[n] = old[n]
        <5>1. Put(old, namespace, pods) \in PodMaps
          BY <2>2, <2>4, PutMap DEF PodMaps
        <5> QED
          BY <4>1, <5>1 DEF Put
      <4> QED
        BY <3>2, <4>2
    <3> QED
      BY <3>1, <3>2
  <2> HIDE DEF left
  <2>6. /\ Store' \in Map(Roles, PodMaps)
        /\ role \in DOMAIN Store' <=> DOMAIN left # {}
        /\ role \in DOMAIN Store' => Store'[role] = left
        /\ \A r : r # role =>
              /\ r \in DOMAIN Store' <=> r \in DOMAIN Store
              /\ r \in DOMAIN Store' => Store'[r] = Store[r]
    <3>1. Store \in Map(Roles, PodMaps)
      BY NamespacesOfType DEF IInv
    <3>2. CASE DOMAIN left = {}
      <4>1. Store' = Delete(Store, role)
        BY <2>1, <3>2
      <4>2. /\ Store' \in Map(Roles, PodMaps)
            /\ DOMAIN Store' = DOMAIN Store \ {role}
            /\ \A r \in DOMAIN Store \ {role} : Store'[r] = Store[r]
        <5>1. Delete(Store, role) \in Map(Roles, PodMaps)
          BY <3>1, DeleteMap
        <5> QED
          BY <4>1, <5>1 DEF Delete
      <4> QED
        BY <3>2, <4>2
    <3>3. CASE DOMAIN left # {}
      <4>1. Store' = Put(Store, role, left)
        BY <2>1, <3>3
      <4>2. /\ Store' \in Map(Roles, PodMaps)
            /\ DOMAIN Store' = DOMAIN Store \cup {role}
            /\ Store'[role] = left
            /\ \A r \in DOMAIN Store \ {role} : Store'[r] = Store[r]
        <5>1. left \in PodMaps
          BY <2>5
        <5>2. Put(Store, role, left) \in Map(Roles, PodMaps)
          BY <3>1, <5>1, PutMap
        <5> QED
          BY <4>1, <5>2 DEF Put
      <4> QED
        BY <3>3, <4>2
    <3> QED
      BY <3>2, <3>3
  <2>7. TypeOK'
    BY <2>1, <2>6 DEF TypeOK, IInv, PodMaps, PodSets
  <2>8. NoEmptyMaps'
    BY <2>0, <2>5, <2>6 DEF IInv, NoEmptyMaps
  <2>9. PodsOf(role, namespace)' = pods
    BY <2>5, <2>6, EmptyMapType DEF PodsOf, NamespacesOf
  <2>10. ASSUME NEW n, n # namespace
         PROVE  PodsOf(role, n)' = PodsOf(role, n)
    <3>1. n \in DOMAIN NamespacesOf(role)' <=> n \in DOMAIN old
      BY <2>5, <2>6, <2>10, EmptyMapType DEF NamespacesOf
    <3>2. n \in DOMAIN old => NamespacesOf(role)'[n] = old[n]
      BY <2>5, <2>6, <2>10 DEF NamespacesOf
    <3> QED
      BY <2>3, <3>1, <3>2 DEF PodsOf
  <2>11. ASSUME NEW r, NEW n, r # role
         PROVE  PodsOf(r, n)' = PodsOf(r, n)
    BY <2>6, <2>11 DEF PodsOf, NamespacesOf
  <2> QED
    BY <2>2, <2>7, <2>8, <2>9, <2>10, <2>11 DEF IInv
<1> QED
  BY <1>1, <1>2

LEMMA InitIInv ==
  ASSUME Init
  PROVE  IInv
BY EmptyMapType DEF Init, IInv, TypeOK, NoEmptyMaps

LEMMA IInvInductive ==
  ASSUME IInv, [Next]_vars
  PROVE  IInv'
<1>1. ASSUME NEW role \in Roles, NEW namespace \in Namespaces,
             Exists(role, namespace)
      PROVE  IInv'
  BY <1>1 DEF Exists, IInv, TypeOK, NoEmptyMaps
<1>2. CASE UNCHANGED vars
  BY <1>2 DEF vars, IInv, TypeOK, NoEmptyMaps
<1> QED
  BY <1>1, <1>2, AddEffect, RemoveEffect DEF Next

\* No key outlives what is stored under it.
THEOREM StoreHasNoEmptyMaps == Spec => [](TypeOK /\ NoEmptyMaps)
<1>1. Init => IInv
  BY InitIInv
<1>2. IInv /\ [Next]_vars => IInv'
  BY IInvInductive
<1>3. Spec => []IInv
  BY <1>1, <1>2, PTL DEF Spec
<1> QED
  BY <1>3, PTL DEF IInv

\* The nested maps keep their shape: a role maps to namespaces and a namespace
\* to pods, whatever the pod events add and remove.
THEOREM StoreTypes == Spec => []TypeOK
<1>1. TypeOK /\ NoEmptyMaps => TypeOK
  OBVIOUS
<1> QED
  BY <1>1, StoreHasNoEmptyMaps, PTL

-----------------------------------------------------------------------------
(* The refinement. *)

LEMMA AddRefines ==
  ASSUME IInv, NEW role \in Roles, NEW namespace \in Namespaces,
         NEW name \in Pods, Add(role, namespace, name)
  PROVE  Abstract!Add(role, namespace, name)
<1>1. Used' = Used \cup {<<role, namespace, name>>}
  BY AddEffect DEF Used
<1> QED
  BY <1>1 DEF Abstract!Add, Add

LEMMA RemoveRefines ==
  ASSUME IInv, NEW role \in Roles, NEW namespace \in Namespaces,
         NEW name \in Pods, Remove(role, namespace, name)
  PROVE  Abstract!Remove(role, namespace, name)
<1>1. Used' = Used \ {<<role, namespace, name>>}
  BY RemoveEffect DEF Used
<1> QED
  BY <1>1 DEF Abstract!Remove, Remove

\* Looking at the keys is enough, because no key is left without a pod.
LEMMA ExistsRefines ==
  ASSUME IInv, NEW role \in Roles, NEW namespace \in Namespaces,
         Exists(role, namespace)
  PROVE  Abstract!Exists(role, namespace)
<1>1. (namespace \in DOMAIN NamespacesOf(role))
         <=> \E name \in Pods : name \in PodsOf(role, namespace)
  <2>1. ASSUME namespace \in DOMAIN NamespacesOf(role)
        PROVE  PodsOf(role, namespace) # {}
    BY <2>1, EmptyMapType DEF PodsOf, NamespacesOf, IInv, NoEmptyMaps
  <2> QED
    BY <2>1, NamespacesOfType DEF PodsOf, IInv
<1>2. \A name \in Pods :
         <<role, namespace, name>> \in Used <=> name \in PodsOf(role, namespace)
  BY DEF Used
<1>3. (namespace \in DOMAIN NamespacesOf(role))
         <=> \E name \in Pods : <<role, namespace, name>> \in Used
  BY <1>1, <1>2
<1>4. answer' = (\E name \in Pods : <<role, namespace, name>> \in Used)
  <2>1. answer' = (namespace \in DOMAIN NamespacesOf(role))
    BY DEF Exists
  <2>2. CASE namespace \in DOMAIN NamespacesOf(role)
    BY <1>3, <2>1, <2>2
  <2>3. CASE namespace \notin DOMAIN NamespacesOf(role)
    <3>1. answer' = FALSE
      <4>1. (namespace \in DOMAIN NamespacesOf(role)) = FALSE
        BY <2>3
      <4> QED
        BY <2>1, <4>1, Zenon
    <3>2. (\E name \in Pods : <<role, namespace, name>> \in Used) = FALSE
      BY <1>3, <2>3
    <3> QED
      BY <3>1, <3>2
  <2> QED
    BY <2>2, <2>3
<1>5. Used' = Used
  BY DEF Exists, Used, PodsOf, NamespacesOf
<1> QED
  BY <1>4, <1>5 DEF Abstract!Exists, Abstract!InUse

\* The nested maps of role_store.go implement the set of triples: Add and
\* Remove touch one triple, and Exists is exact.
THEOREM StoreImplementsRoleSet == Spec => ImplementsRoleSet
<1>1. Init => Abstract!Init
  BY EmptyMapType DEF Init, Abstract!Init, Used, PodsOf, NamespacesOf
<1>2. ASSUME IInv, [Next]_vars
      PROVE  [Abstract!Next]_Abstract!vars
  <2>1. CASE UNCHANGED vars
    <3>1. UNCHANGED <<Used, answer>>
      BY <2>1 DEF vars, Used, PodsOf, NamespacesOf
    <3> QED
      BY <3>1 DEF Abstract!vars
  <2>2. CASE Next
    BY <1>2, <2>2, AddRefines, RemoveRefines, ExistsRefines
    DEF Next, Abstract!Next
  <2> QED
    BY <1>2, <2>1, <2>2
<1>3. Spec => []IInv
  BY InitIInv, IInvInductive, PTL DEF Spec
<1> QED
  BY <1>1, <1>2, <1>3, PTL DEF Spec, ImplementsRoleSet, Abstract!Spec
=============================================================================
