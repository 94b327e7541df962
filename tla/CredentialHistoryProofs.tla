---------------------- MODULE CredentialHistoryProofs ----------------------
(***************************************************************************)
(* AWSIAMRoleController implements IssuedCredentials: from the controller's *)
(* inductive invariant, the invariant of the history, and what each step   *)
(* does to the mapped state.                                               *)
(***************************************************************************)
EXTENDS CredentialHistory, AWSIAMRoleControllerProofs

-----------------------------------------------------------------------------
(* The mapping. *)

\* The version of a role that exists is not the one that stands for none.
LEMMA VersionOfRole ==
  ASSUME NEW r, r.uid # 0
  PROVE  /\ Version(r).uid = r.uid
         /\ Version(r).generation = r.generation
         /\ Version(r).arn = RoleARN(r.reference)
         /\ Version(r) # NoVersion
<1>1. /\ Version(r).uid = r.uid
      /\ Version(r).generation = r.generation
      /\ Version(r).arn = RoleARN(r.reference)
  BY DEF Version
<1>2. NoVersion.uid = 0
  BY DEF NoVersion
<1> QED
  BY <1>1, <1>2

\* Version looks at three fields only.
LEMMA SameVersion ==
  ASSUME NEW r, NEW s, r.uid = s.uid, r.generation = s.generation,
         r.reference = s.reference
  PROVE  Version(r) = Version(s)
BY DEF Version

\* A short name and a full ARN both resolve to an ARN.
LEMMA ReferencesResolve ==
  ASSUME NEW ref \in References
  PROVE  RoleARN(ref) \in ARNs
BY ClusterAssumption DEF References, RoleARN

\* Remember adds the live version of each name, and nothing else.
LEMMA RememberEffect ==
  ASSUME Remember, HistoryInv, NEW n \in Names
  PROVE  /\ versions[n] \subseteq versions'[n]
         /\ roles'[n].uid # 0 => versions'[n] = versions[n] \cup {Version(roles'[n])}
         /\ roles'[n].uid = 0 => versions'[n] = versions[n]
<1>1. versions'[n] = versions[n] \cup {v \in {Version(roles'[n])} : v # NoVersion}
  BY DEF Remember
<1>2. CASE roles'[n].uid = 0
  BY <1>1, <1>2 DEF Version
<1>3. CASE roles'[n].uid # 0
  <2>1. Version(roles'[n]) # NoVersion
    BY <1>3, VersionOfRole
  <2> QED
    BY <1>1, <1>3, <2>1
<1> QED
  BY <1>2, <1>3

\* A name whose live version stays gets no new one.
LEMMA NothingNewAt ==
  ASSUME Remember, HistoryInv, NEW n \in Names,
         Version(roles'[n]) = Version(roles[n])
  PROVE  versions'[n] = versions[n]
<1> DEFINE new == {v \in {Version(roles'[n])} : v # NoVersion}
<1>1. versions'[n] = versions[n] \cup new
  BY DEF Remember
<1>2. Version(roles[n]) # NoVersion => Version(roles[n]) \in versions[n]
  BY DEF HistoryInv, ListedVersionsAreKept, Version
<1>3. new \subseteq versions[n]
  BY <1>2
<1> QED
  BY <1>1, <1>3

\* A step that changes no version adds none.
LEMMA NothingNew ==
  ASSUME Remember, HistoryInv,
         \A n \in Names : Version(roles'[n]) = Version(roles[n])
  PROVE  UNCHANGED <<LiveVersion, versions>>
<1>1. LiveVersion' = LiveVersion
  BY DEF LiveVersion
<1>2. \A n \in Names : versions'[n] = versions[n]
  BY NothingNewAt
<1>3. versions' = versions
  BY <1>2 DEF Remember, HistoryInv
<1> QED
  BY <1>1, <1>3

\* A step that gives one name a new version adds that one.
LEMMA OneBecomes ==
  ASSUME Remember, HistoryInv, NEW n \in Names, roles'[n].uid # 0,
         \A m \in Names \ {n} : roles'[m] = roles[m]
  PROVE  /\ LiveVersion' = [LiveVersion EXCEPT ![n] = Version(roles'[n])]
         /\ versions' = [versions EXCEPT ![n] = @ \cup {Version(roles'[n])}]
<1>1. LiveVersion' = [LiveVersion EXCEPT ![n] = Version(roles'[n])]
  BY DEF LiveVersion
<1>2. versions'[n] = versions[n] \cup {Version(roles'[n])}
  BY RememberEffect
<1>3. ASSUME NEW m \in Names \ {n}
      PROVE  versions'[m] = versions[m]
  <2>1. Version(roles'[m]) = Version(roles[m])
    OBVIOUS
  <2> QED
    BY <2>1, NothingNewAt
<1> QED
  BY <1>1, <1>2, <1>3 DEF Remember, HistoryInv

\* A step that writes one secret puts what it holds.
LEMMA OneHeld ==
  ASSUME NEW n \in Names, \A m \in Names \ {n} : secrets'[m] = secrets[m]
  PROVE  HeldSecrets' = [HeldSecrets EXCEPT ![n] = Held(secrets'[n])]
BY DEF HeldSecrets

LEMMA NoneHeld ==
  ASSUME \A m \in Names : Held(secrets'[m]) = Held(secrets[m])
  PROVE  HeldSecrets' = HeldSecrets
BY DEF HeldSecrets

\* What a secret that exists is mapped to.
LEMMA HeldFields ==
  ASSUME NEW s, s.exists
  PROVE  /\ Held(s).owner = s.owner
         /\ Selected(s.labels) => Held(s).kind = "ours"
         /\ Held(s).generation # Absent
              => s.generation \in Nat /\ Held(s).generation = s.generation
<1> DEFINE kind == IF Selected(s.labels) THEN "ours" ELSE "foreign"
           generation == IF s.generation \in Nat THEN s.generation ELSE Absent
<1>1. Held(s) = [kind |-> kind, owner |-> s.owner,
                 generation |-> generation, arn |-> s.arn]
  BY DEF Held
<1>2. /\ Selected(s.labels) => kind = "ours"
      /\ generation # Absent => s.generation \in Nat /\ generation = s.generation
  OBVIOUS
<1> HIDE DEF kind, generation
<1> QED
  BY <1>1, <1>2

\* What there is before the controller starts has no credentials.
LEMMA BareSecrets ==
  /\ Held(NoSecret) = Promise!Missing
  /\ Held(ForeignSecret) = Promise!Bare("foreign", 0)
  /\ Held(UnownedSecret) = Promise!Bare("ours", 0)
  /\ \A s \in {NoSecret, ForeignSecret, UnownedSecret} : s.generation = Absent
<1>1. Absent \notin Nat
  BY ClusterAssumption
<1>2. Held(NoSecret) = Promise!Missing /\ NoSecret.generation = Absent
  BY DEF Held, NoSecret, Promise!Missing, Promise!Bare
<1>3. /\ ForeignSecret.exists
      /\ ForeignSecret.labels = NoLabels
      /\ ForeignSecret.owner = 0
      /\ ForeignSecret.generation = Absent
      /\ ForeignSecret.arn = Absent
  BY DEF ForeignSecret, NoSecret
<1>4. /\ UnownedSecret.exists
      /\ UnownedSecret.labels = awsIAMRoleOwnerLabels
      /\ UnownedSecret.owner = 0
      /\ UnownedSecret.generation = Absent
      /\ UnownedSecret.arn = Absent
  BY DEF UnownedSecret, ForeignSecret, NoSecret
<1>5. ~Selected(NoLabels) /\ Selected(awsIAMRoleOwnerLabels)
  BY DEF Selected, NoLabels, awsIAMRoleOwnerLabels, LabelKeys
<1>6. Held(ForeignSecret) = Promise!Bare("foreign", 0)
  BY <1>1, <1>3, <1>5 DEF Held, Promise!Bare
<1>7. Held(UnownedSecret) = Promise!Bare("ours", 0)
  BY <1>1, <1>4, <1>5 DEF Held, Promise!Bare
<1> QED
  BY <1>2, <1>3, <1>4, <1>6, <1>7

\* The mapped state of a name, field by field.
LEMMA MappedState ==
  ASSUME TypeOK, NEW n \in Names
  PROVE  /\ LiveVersion[n] = Version(roles[n])
         /\ LiveVersion[n].uid = roles[n].uid
         /\ HeldSecrets[n] = Held(secrets[n])
         /\ secrets[n].exists <=> HeldSecrets[n].kind # "none"
         /\ secrets[n].exists => HeldSecrets[n].owner = secrets[n].owner
         /\ Promise!Owned(n) <=> Owned(n)
<1>1. LiveVersion[n] = Version(roles[n]) /\ HeldSecrets[n] = Held(secrets[n])
  BY DEF LiveVersion, HeldSecrets
<1>2. Version(roles[n]).uid = roles[n].uid
  BY DEF Version, NoVersion
<1>3. secrets[n].exists \in BOOLEAN
  BY DEF TypeOK, ClusterTypeOK, Secret
<1>4. /\ secrets[n].exists <=> Held(secrets[n]).kind # "none"
      /\ secrets[n].exists => Held(secrets[n]).owner = secrets[n].owner
  BY <1>3 DEF Held
<1> QED
  BY <1>1, <1>2, <1>4 DEF Promise!Owned, Owned, isOwnedReference

-----------------------------------------------------------------------------
(* Everyone else. *)

\* A step that leaves every role's version and every secret as it is stutters.
LEMMA OthersStutter ==
  ASSUME Remember, HistoryInv,
         \A n \in Names : Version(roles'[n]) = Version(roles[n]),
         \A n \in Names : Held(secrets'[n]) = Held(secrets[n]),
         nextUID' = nextUID
  PROVE  UNCHANGED Promise!vars
BY NothingNew, NoneHeld DEF Promise!vars

\* A step that writes one secret and no role.
LEMMA OnePut ==
  ASSUME Remember, HistoryInv, NEW n \in Names,
         \A m \in Names : Version(roles'[m]) = Version(roles[m]),
         \A m \in Names \ {n} : secrets'[m] = secrets[m],
         nextUID' = nextUID
  PROVE  Promise!Put(n, Held(secrets'[n]))
BY NothingNew, OneHeld DEF Promise!Put

\* A new resource is a version of its own.
LEMMA CreateRoleBecomes ==
  ASSUME TypeOK, NEW n \in Names, CreateRole(n)
  PROVE  \E a \in ARNs :
           /\ roles'[n].uid # 0
           /\ Version(roles'[n]) = [uid |-> nextUID, generation |-> 1, arn |-> a]
           /\ \A m \in Names \ {n} : roles'[m] = roles[m]
<1>1. PICK ref \in References, d \in Durations, l \in RoleLabels :
        roles' = [roles EXCEPT ![n] =
                    [uid |-> nextUID, generation |-> 1, reference |-> ref,
                     duration |-> d, labels |-> l, status |-> NoStatus]]
  BY DEF CreateRole
<1>2. nextUID # 0 /\ roles \in [Names -> AWSIAMRole]
  BY DEF TypeOK, ClusterTypeOK
<1>3. /\ roles'[n].uid = nextUID
      /\ roles'[n].generation = 1
      /\ roles'[n].reference = ref
      /\ \A m \in Names \ {n} : roles'[m] = roles[m]
  BY <1>1, <1>2
<1>4. RoleARN(ref) \in ARNs
  BY ReferencesResolve
<1>5. Version(roles'[n]) =
        [uid |-> nextUID, generation |-> 1, arn |-> RoleARN(ref)]
  BY <1>2, <1>3 DEF Version
<1> QED
  BY <1>2, <1>3, <1>4, <1>5

\* So is an edited spec.
LEMMA EditSpecBecomes ==
  ASSUME TypeOK, NEW n \in Names, EditSpec(n)
  PROVE  \E a \in ARNs :
           /\ roles'[n].uid # 0
           /\ Version(roles'[n]) = [uid |-> roles[n].uid,
                                    generation |-> roles[n].generation + 1,
                                    arn |-> a]
           /\ \A m \in Names \ {n} : roles'[m] = roles[m]
<1>1. PICK ref \in References, d \in Durations :
        roles' = [roles EXCEPT ![n].reference = ref, ![n].duration = d,
                               ![n].generation = @ + 1]
  BY DEF EditSpec
<1>2. roles[n].uid # 0 /\ roles \in [Names -> AWSIAMRole]
  BY DEF EditSpec, TypeOK, ClusterTypeOK
<1>3. /\ roles'[n].uid = roles[n].uid
      /\ roles'[n].generation = roles[n].generation + 1
      /\ roles'[n].reference = ref
      /\ \A m \in Names \ {n} : roles'[m] = roles[m]
  BY <1>1, <1>2 DEF AWSIAMRole
<1>4. RoleARN(ref) \in ARNs
  BY ReferencesResolve
<1>5. Version(roles'[n]) = [uid |-> roles[n].uid,
                            generation |-> roles[n].generation + 1,
                            arn |-> RoleARN(ref)]
  BY <1>2, <1>3 DEF Version
<1> QED
  BY <1>2, <1>3, <1>4, <1>5

\* Labels and the clock are no part of a version.
LEMMA OtherFields ==
  ASSUME TypeOK
  PROVE  /\ \A n \in Names : EditLabels(n) =>
               \A m \in Names : Version(roles'[m]) = Version(roles[m])
         /\ roles' = roles =>
               \A m \in Names : Version(roles'[m]) = Version(roles[m])
<1>1. ASSUME NEW n \in Names, EditLabels(n), NEW m \in Names
      PROVE  Version(roles'[m]) = Version(roles[m])
  <2>1. PICK l \in RoleLabels : roles' = [roles EXCEPT ![n].labels = l]
    BY <1>1 DEF EditLabels
  <2>2. /\ roles'[m].uid = roles[m].uid
        /\ roles'[m].generation = roles[m].generation
        /\ roles'[m].reference = roles[m].reference
    BY <2>1 DEF TypeOK, ClusterTypeOK, AWSIAMRole
  <2> QED
    BY <2>2, SameVersion
<1> QED
  BY <1>1

\* The versions roles get are versions.
LEMMA LiveAreVersions ==
  ASSUME RoundInv, HistoryInv, Next, NEW n \in Names, roles'[n].uid # 0
  PROVE  Version(roles'[n]) \in Versions
<1> USE DEF RoundInv
<1>1. /\ versions[n] \subseteq Versions
      /\ roles[n].uid # 0 => Version(roles[n]) \in versions[n]
  BY DEF HistoryInv, ListedVersionsAreKept
<1>2. CASE Version(roles'[n]) = Version(roles[n])
  <2>1. roles[n].uid # 0
    BY <1>2, VersionOfRole DEF Version
  <2> QED
    BY <1>1, <1>2, <2>1
<1>3. CASE ControllerStep
  BY <1>2, <1>3, ControllerGuarantees, SameVersion DEF Guarantee
<1>4. CASE Crash
  BY <1>2, <1>4 DEF Crash, clusterVars
<1>5. ASSUME NEW m \in Names, CreateRole(m)
      PROVE  Version(roles'[n]) \in Versions
  <2>1. nextUID \in Nat
    BY DEF TypeOK, ClusterTypeOK
  <2>2. PICK a \in ARNs :
          /\ Version(roles'[m]) = [uid |-> nextUID, generation |-> 1, arn |-> a]
          /\ n # m => roles'[n] = roles[n]
    BY <1>5, CreateRoleBecomes
  <2>3. CASE n = m
    BY <2>1, <2>2, <2>3 DEF Versions
  <2> QED
    BY <1>2, <2>2, <2>3
<1>6. ASSUME NEW m \in Names, EditSpec(m)
      PROVE  Version(roles'[n]) \in Versions
  <2>1. roles[m].uid \in Nat /\ roles[m].generation \in Nat
    BY NumericFields
  <2>2. PICK a \in ARNs :
          /\ Version(roles'[m]) = [uid |-> roles[m].uid,
                                   generation |-> roles[m].generation + 1,
                                   arn |-> a]
          /\ n # m => roles'[n] = roles[n]
    BY <1>6, EditSpecBecomes
  <2>3. CASE n = m
    BY <2>1, <2>2, <2>3 DEF Versions
  <2> QED
    BY <1>2, <2>2, <2>3
<1>7. ASSUME NEW m \in Names, DeleteRole(m)
      PROVE  Version(roles'[n]) \in Versions
  <2>1. roles'[n] = roles[n]
    BY <1>7 DEF DeleteRole, NoRole, TypeOK, ClusterTypeOK
  <2> QED
    BY <1>2, <2>1
<1>8. ASSUME NEW m \in Names, EditLabels(m)
      PROVE  Version(roles'[n]) \in Versions
  BY <1>2, <1>8, OtherFields
<1>9. CASE roles' = roles
  BY <1>2, <1>9
<1> QED
  BY <1>3, <1>4, <1>5, <1>6, <1>7, <1>8, <1>9
  DEF Next, ClusterStep, UserStep, SeedSecret, CreateForeignSecret, TamperSecret,
      DeleteSecret, CollectGarbage, Tick
\* Whatever others do to a role or a secret, IssuedCredentials has a step for it.
LEMMA OthersImplement ==
  ASSUME TypeOK, HistoryInv, ClusterStep, Remember
  PROVE  [Promise!Others]_Promise!vars
<1>1. roles \in [Names -> AWSIAMRole] /\ secrets \in [Names -> Secret]
  BY DEF TypeOK, ClusterTypeOK
<1>2. secrets' = secrets => HeldSecrets' = HeldSecrets
  BY NoneHeld
<1>3. roles' = roles =>
        \A m \in Names : Version(roles'[m]) = Version(roles[m])
  BY OtherFields
<1>4. ASSUME NEW n \in Names, CreateRole(n)
      PROVE  Promise!CreateRole(n)
  <2>1. PICK a \in ARNs :
          /\ roles'[n].uid # 0
          /\ Version(roles'[n]) = [uid |-> nextUID, generation |-> 1, arn |-> a]
          /\ \A m \in Names \ {n} : roles'[m] = roles[m]
    BY <1>4, CreateRoleBecomes
  <2>2. Promise!Becomes(n, [uid |-> nextUID, generation |-> 1, arn |-> a])
    BY <1>2, <1>4, <2>1, OneBecomes DEF CreateRole, Promise!Becomes
  <2>3. LiveVersion[n].uid = 0 /\ nextUID' = nextUID + 1
    BY <1>4, MappedState DEF CreateRole
  <2> QED
    BY <2>2, <2>3 DEF Promise!CreateRole
<1>5. ASSUME NEW n \in Names, EditSpec(n)
      PROVE  Promise!EditRole(n)
  <2>1. PICK a \in ARNs :
          /\ roles'[n].uid # 0
          /\ Version(roles'[n]) = [uid |-> roles[n].uid,
                                   generation |-> roles[n].generation + 1,
                                   arn |-> a]
          /\ \A m \in Names \ {n} : roles'[m] = roles[m]
    BY <1>5, EditSpecBecomes
  <2>2. roles[n].uid # 0 /\ nextUID' = nextUID /\ secrets' = secrets
    BY <1>5 DEF EditSpec
  <2>3. /\ LiveVersion[n] = Version(roles[n])
        /\ Version(roles[n]).uid = roles[n].uid
        /\ Version(roles[n]).generation = roles[n].generation
    BY <2>2, MappedState, VersionOfRole
  <2>4. Promise!Becomes(n, [uid |-> LiveVersion[n].uid,
                            generation |-> LiveVersion[n].generation + 1,
                            arn |-> a])
    BY <1>2, <2>1, <2>2, <2>3, OneBecomes DEF Promise!Becomes
  <2>5. LiveVersion[n].uid # 0
    BY <2>2, MappedState
  <2> QED
    BY <2>2, <2>4, <2>5 DEF Promise!EditRole
<1>6. ASSUME NEW n \in Names, DeleteRole(n)
      PROVE  Promise!DeleteRole(n)
  <2>1. /\ roles'[n] = NoRole
        /\ \A m \in Names \ {n} : roles'[m] = roles[m]
        /\ roles[n].uid # 0
        /\ UNCHANGED <<secrets, nextUID>>
    BY <1>1, <1>6 DEF DeleteRole
  <2>2. Version(NoRole) = NoVersion
    BY DEF Version, NoRole
  <2>3. LiveVersion' = [LiveVersion EXCEPT ![n] = Promise!NoVersion]
    BY <2>1, <2>2 DEF LiveVersion, NoVersion, Promise!NoVersion
  <2>4. versions' = versions
    <3>1. ASSUME NEW m \in Names
          PROVE  versions'[m] = versions[m]
      <4>1. CASE m = n
        <5>1. roles'[m].uid = 0
          BY <2>1, <4>1 DEF NoRole
        <5> QED
          BY <5>1, RememberEffect
      <4>2. CASE m # n
        <5>1. Version(roles'[m]) = Version(roles[m])
          BY <2>1, <4>2
        <5> QED
          BY <5>1, NothingNewAt
      <4> QED
        BY <4>1, <4>2
    <3> QED
      BY <3>1 DEF Remember, HistoryInv
  <2> QED
    BY <1>2, <2>1, <2>3, <2>4, MappedState DEF Promise!DeleteRole
<1>7. ASSUME NEW n \in Names, EditLabels(n)
      PROVE  UNCHANGED Promise!vars
  BY <1>7, OtherFields, OthersStutter DEF EditLabels
<1>8. ASSUME NEW n \in Names, SeedSecret(n)
      PROVE  Promise!MakeSecret(n)
  <2>1. /\ secrets'[n] = [UnownedSecret EXCEPT !.owner = roles[n].uid]
        /\ \A m \in Names \ {n} : secrets'[m] = secrets[m]
        /\ ~secrets[n].exists
        /\ UNCHANGED <<roles, nextUID>>
    BY <1>1, <1>8 DEF SeedSecret
  <2>2. Held(secrets'[n]) = Promise!Bare("ours", LiveVersion[n].uid)
    BY <2>1, MappedState, ClusterAssumption
    DEF Held, Promise!Bare, UnownedSecret, ForeignSecret, NoSecret, Selected,
        awsIAMRoleOwnerLabels, LabelKeys
  <2>3. Promise!Put(n, Promise!Bare("ours", LiveVersion[n].uid))
    BY <1>3, <2>1, <2>2, OnePut
  <2> QED
    BY <2>1, <2>3, MappedState DEF Promise!MakeSecret
<1>9. ASSUME NEW n \in Names, CreateForeignSecret(n)
      PROVE  Promise!MakeSecret(n)
  <2>1. /\ secrets'[n] = ForeignSecret
        /\ \A m \in Names \ {n} : secrets'[m] = secrets[m]
        /\ ~secrets[n].exists
        /\ UNCHANGED <<roles, nextUID>>
    BY <1>1, <1>9 DEF CreateForeignSecret
  <2>2. Held(secrets'[n]) = Promise!Bare("foreign", 0)
    BY <2>1, ClusterAssumption
    DEF Held, Promise!Bare, ForeignSecret, NoSecret, NoLabels, Selected,
        awsIAMRoleOwnerLabels, LabelKeys
  <2>3. Promise!Put(n, Promise!Bare("foreign", 0))
    BY <1>3, <2>1, <2>2, OnePut
  <2> QED
    BY <2>1, <2>3, MappedState DEF Promise!MakeSecret
<1>10. ASSUME NEW n \in Names, TamperSecret(n)
       PROVE  [Promise!LoseGeneration(n)]_Promise!vars
  <2>1. PICK s \in {Absent, Malformed} :
          \/ secrets' = [secrets EXCEPT ![n].expire = s]
          \/ secrets' = [secrets EXCEPT ![n].generation = s]
    BY <1>10 DEF TamperSecret
  <2>2. secrets[n].exists /\ UNCHANGED <<roles, nextUID>>
    BY <1>10 DEF TamperSecret
  <2>3. CASE secrets' = [secrets EXCEPT ![n].expire = s]
    <3>1. \A m \in Names : Held(secrets'[m]) = Held(secrets[m])
      BY <1>1, <2>3 DEF Held, Secret
    <3> QED
      BY <1>3, <2>2, <3>1, OthersStutter
  <2>4. CASE secrets' = [secrets EXCEPT ![n].generation = s]
    <3>1. /\ secrets'[n] = [secrets[n] EXCEPT !.generation = s]
          /\ \A m \in Names \ {n} : secrets'[m] = secrets[m]
      BY <1>1, <2>4
    <3>2. s \notin Nat
      BY ClusterAssumption
    <3>3. Held(secrets'[n]) = [HeldSecrets[n] EXCEPT !.generation = Absent]
      <4> DEFINE kind == IF Selected(secrets[n].labels) THEN "ours" ELSE "foreign"
      <4>1. \E g : HeldSecrets[n] = [kind |-> kind, owner |-> secrets[n].owner,
                                    generation |-> g, arn |-> secrets[n].arn]
        BY <2>2, MappedState DEF Held
      <4>2. /\ secrets'[n].exists
            /\ secrets'[n].labels = secrets[n].labels
            /\ secrets'[n].owner = secrets[n].owner
            /\ secrets'[n].arn = secrets[n].arn
            /\ secrets'[n].generation = s
        BY <1>1, <2>2, <3>1 DEF Secret
      <4>3. Held(secrets'[n]) = [kind |-> kind, owner |-> secrets[n].owner,
                                 generation |-> Absent, arn |-> secrets[n].arn]
        BY <3>2, <4>2 DEF Held
      <4> QED
        BY <4>1, <4>3
    <3>4. Promise!Put(n, [HeldSecrets[n] EXCEPT !.generation = Absent])
      BY <1>3, <2>2, <3>1, <3>3, OnePut
    <3> QED
      BY <2>2, <3>4, MappedState DEF Promise!LoseGeneration
  <2> QED
    BY <2>1, <2>3, <2>4
<1>11. ASSUME NEW n \in Names, DeleteSecret(n) \/ CollectGarbage(n)
       PROVE  Promise!LoseSecret(n)
  <2>1. /\ secrets'[n] = NoSecret
        /\ \A m \in Names \ {n} : secrets'[m] = secrets[m]
        /\ secrets[n].exists
        /\ UNCHANGED <<roles, nextUID>>
    BY <1>1, <1>11 DEF DeleteSecret, CollectGarbage
  <2>2. Held(secrets'[n]) = Promise!Missing
    BY <2>1 DEF Held, NoSecret, Promise!Missing, Promise!Bare
  <2>3. Promise!Put(n, Promise!Missing)
    BY <1>3, <2>1, <2>2, OnePut
  <2> QED
    BY <2>1, <2>3, MappedState DEF Promise!LoseSecret
<1>12. CASE Tick
  BY <1>3, <1>12, OthersStutter DEF Tick
<1> QED
  BY <1>4, <1>5, <1>6, <1>7, <1>8, <1>9, <1>10, <1>11, <1>12
  DEF ClusterStep, UserStep, Promise!Others

-----------------------------------------------------------------------------
(* The controller. *)

\* A loop step writes at most one secret.
LEMMA OneSecretWritten ==
  ASSUME TypeOK, WorkStep
  PROVE  \E n \in Names : \A m \in Names \ {n} : secrets'[m] = secrets[m]
<1>1. cur \in Names /\ secrets \in [Names -> Secret]
  BY DEF TypeOK, ClusterTypeOK
<1>2. CASE pc # "cleanup"
  <2>1. \A m \in Names \ {cur} : secrets'[m] = secrets[m]
    BY <1>2, WorkClusterEffect
    DEF ClusterEffect, SecretWritten, Deletes, Updates, Creates
  <2> QED
    BY <1>1, <2>1
<1>3. ASSUME NEW n \in Names, CleanupDelete(n)
      PROVE  \A m \in Names \ {n} : secrets'[m] = secrets[m]
  BY <1>1, <1>3 DEF CleanupDelete, PutSecret
<1>4. CASE CleanupDone
  BY <1>1, <1>4 DEF CleanupDone, NextLoop, clusterVars
<1>5. CASE pc = "cleanup"
  <2>1. CleanupDone \/ \E n \in Names : CleanupDelete(n)
    BY <1>5
    DEF WorkStep, RefreshSkip, RefreshGetCreds, RefreshUpdate, RefreshStatus,
        RefreshDone, SyncSkip, SyncGetCreds, SyncUpdate, SyncReport, SyncStatus,
        CreateGetCreds, CreateSecret
  <2> QED
    BY <1>3, <1>4, <2>1
<1> QED
  BY <1>2, <1>5

\* What the controller writes is what the listed version of the role holds.
LEMMA WrittenHoldsListed ==
  ASSUME RoundInv, HistoryInv, NEW n \in Names,
         Updates(n) \/ Creates(n),
         secrets'[n].exists,
         secrets'[n].generation = roleSnap[n].generation,
         secrets'[n].arn = creds.arn,
         Selected(secrets'[n].labels)
  PROVE  LET v == Version(roleSnap[n]) IN
         /\ v \in versions[n]
         /\ v.uid = roleSnap[n].uid
         /\ v.generation = roleSnap[n].generation
         /\ v.generation \in Nat
         /\ Held(secrets'[n]) = Promise!Holding(secrets'[n].owner, v)
<1>1. roleSnap[n].uid # 0 /\ creds.arn = RoleARN(roleSnap[n].reference)
  BY DEF Updates, Creates, HistoryInv, VisitsListedRoles, RoundInv,
         CredsOfListedRole
<1> DEFINE v == Version(roleSnap[n])
<1>2. v \in versions[n]
  BY <1>1 DEF HistoryInv, ListedVersionsAreKept
<1>3. /\ v.uid = roleSnap[n].uid
      /\ v.generation = roleSnap[n].generation
      /\ v.arn = RoleARN(roleSnap[n].reference)
  BY <1>1, VersionOfRole
<1>4. v.generation \in Nat
  BY <1>3, NumericFields DEF RoundInv
<1>5. Held(secrets'[n]) = Promise!Holding(secrets'[n].owner, v)
  BY <1>1, <1>3, <1>4 DEF Held, Promise!Holding
<1> QED
  BY <1>2, <1>3, <1>4, <1>5

\* A round's step provides, replaces or deletes one secret, or none.
LEMMA ControllerWrites ==
  ASSUME RoundInv, HistoryInv, ControllerStep, Remember
  PROVE  \/ UNCHANGED Promise!vars
         \/ \E n \in Names :
              \/ Promise!Provide(n)
              \/ Promise!Replace(n)
              \/ /\ Deletes(n)
                 /\ secrets[n].exists
                 /\ Promise!Put(n, Promise!Missing)
<1> USE DEF RoundInv
<1>1. /\ nextUID' = nextUID
      /\ \A n \in Names : Version(roles'[n]) = Version(roles[n])
  BY ControllerGuarantees, SameVersion DEF Guarantee
<1>2. CASE secrets' = secrets
  BY <1>1, <1>2, OthersStutter
<1>3. CASE WorkStep
  <2>1. PICK n \in Names : \A m \in Names \ {n} : secrets'[m] = secrets[m]
    BY <1>3, OneSecretWritten
  <2>2. SecretWritten(n)
    BY <1>3, WorkClusterEffect DEF ClusterEffect
  <2>3. Promise!Put(n, Held(secrets'[n]))
    BY <1>1, <2>1, OnePut
  <2>4. CASE secrets'[n] = secrets[n]
    BY <1>1, <2>1, <2>4, OthersStutter
  <2>5. CASE Deletes(n)
    <3>1. Held(secrets'[n]) = Promise!Missing
      BY <2>5 DEF Deletes, Held, NoSecret, Promise!Missing, Promise!Bare
    <3>2. CASE secrets[n].exists
      BY <2>3, <2>5, <3>1, <3>2
    <3>3. CASE ~secrets[n].exists
      <4>1. \A m \in Names : Held(secrets'[m]) = Held(secrets[m])
        BY <2>1, <3>1, <3>3 DEF Held, Promise!Missing, Promise!Bare
      <4> QED
        BY <1>1, <4>1, OthersStutter
    <3> QED
      BY <3>2, <3>3
  <2>6. CASE /\ Updates(n) \/ Creates(n)
             /\ secrets'[n].generation = roleSnap[n].generation
             /\ secrets'[n].arn = creds.arn
             /\ Selected(secrets'[n].labels)
    <3> DEFINE v == Version(roleSnap[n])
    <3>1. secrets'[n].exists
      BY <2>6, UpdateOfLive DEF Creates
    <3>2. /\ v \in versions[n]
          /\ v.uid = roleSnap[n].uid
          /\ v.generation = roleSnap[n].generation
          /\ v.generation \in Nat
          /\ Promise!Put(n, Promise!Holding(secrets'[n].owner, v))
      BY <2>3, <2>6, <3>1, WrittenHoldsListed
    <3> HIDE DEF v
    <3>3. CASE Creates(n)
      <4>1. HeldSecrets[n].kind = "none" /\ secrets'[n].owner = v.uid
        BY <3>2, <3>3, MappedState DEF Creates
      <4> QED
        BY <3>2, <4>1 DEF Promise!Provide
    <3>4. CASE Updates(n)
      <4>1. /\ secrets[n].exists /\ secrets[n] = secretSnap[n]
            /\ n \in Listed
            /\ secrets'[n].owner = secrets[n].owner
        BY <3>4, UpdateOfLive
      <4>2. HeldSecrets[n].kind = "ours" /\ HeldSecrets[n].owner = secrets[n].owner
        BY <4>1, MappedState, HeldFields DEF ListedSelected
      <4>3. Promise!Owned(n) => v.uid = HeldSecrets[n].owner
        BY <3>2, <3>4, <4>1, <4>2, MappedState
        DEF ListedOwnerIsListed, Owned, isOwnedReference, Updates
      <4>4. ASSUME Promise!Owned(n), HeldSecrets[n].generation # Absent
            PROVE  v.generation >= HeldSecrets[n].generation
        <5>1. /\ secrets[n].generation \in Nat
              /\ HeldSecrets[n].generation = secrets[n].generation
          BY <4>1, <4>4, MappedState, HeldFields
        <5>2. Owned(n)
          BY <4>4, MappedState
        <5> QED
          BY <2>6, <3>1, <3>2, <5>1, <5>2, OwnedGenerationStep
      <4> QED
        BY <3>2, <4>1, <4>2, <4>3, <4>4 DEF Promise!Replace
    <3> QED
      BY <2>6, <3>3, <3>4
  <2> QED
    BY <2>2, <2>4, <2>5, <2>6 DEF SecretWritten
<1>4. CASE ListSecrets \/ ListRoles \/ RoundEnd
  <2>1. secrets' = secrets
    BY <1>4, RoundEndResets DEF ListSecrets, ListRoles, clusterVars
  <2> QED
    BY <1>2, <2>1
<1> QED
  BY <1>3, <1>4 DEF ControllerStep, WorkStep, RoundEnd

\* What it deletes is its own and an orphan, unless others have taken the
\* orphan's name.
LEMMA ControllerImplements ==
  ASSUME IInv, HistoryInv, ControllerStep, Remember
  PROVE  [Promise!Controller]_Promise!vars \/ DeletesRetaken
<1>1. ASSUME NEW n \in Names, Deletes(n), secrets[n].exists,
             Promise!Put(n, Promise!Missing), n \notin retaken
      PROVE  Promise!Remove(n)
  <2>1. ~Owned(n)
    BY <1>1 DEF IInv, OrphansStayOrphans, Deletes
  <2>2. Selected(secrets[n].labels)
    BY <1>1 DEF IInv, RoundInv, Deletes, LoopsVisitListed, ListedSelected
  <2>3. HeldSecrets[n].kind = "ours"
    BY <1>1, <2>2, MappedState, HeldFields DEF IInv, RoundInv
  <2>4. ~Promise!Owned(n)
    BY <2>1, MappedState DEF IInv, RoundInv
  <2> QED
    BY <1>1, <2>3, <2>4 DEF Promise!Remove
<1>2. ASSUME NEW n \in Names, Deletes(n), n \in retaken
      PROVE  n \in orphans \cap retaken
  BY <1>2 DEF IInv, OrphansStayOrphans, Deletes
<1> QED
  BY <1>1, <1>2, ControllerWrites DEF IInv, Promise!Controller, DeletesRetaken
-----------------------------------------------------------------------------
(* The invariant of the history. *)

LEMMA InitHistoryInv == HistoryInit => HistoryInv
<1> SUFFICES ASSUME HistoryInit
             PROVE  HistoryInv
  OBVIOUS
<1> USE DEF HistoryInit, Init, ClusterInit
<1>1. versions \in [Names -> SUBSET Versions]
  OBVIOUS
<1>2. ListedVersionsAreKept
  BY DEF ListedVersionsAreKept, NoRole
<1>3. VisitsListedRoles
  BY DEF VisitsListedRoles
<1>4. SecretsHoldAVersion
  BY BareSecrets, ClusterAssumption DEF SecretsHoldAVersion
<1> QED
  BY <1>1, <1>2, <1>3, <1>4 DEF HistoryInv

\* A call of getCreds is made for an item of the loop.
LEMMA GetCredsVisits ==
  ASSUME HistoryInv, NEW n \in todo, NEW answer, NEW next,
         GetCreds(n, answer, next),
         pc \in {"refresh", "sync"},
         next \in {"refreshUpdate", "syncUpdate", "create"}
  PROVE  VisitsListedRoles'
<1>1. /\ roleSnap[n].uid # 0
      /\ \A m \in todo : roleSnap[m].uid # 0
  BY DEF HistoryInv, VisitsListedRoles
<1>2. /\ todo' \subseteq todo
      /\ roleSnap' = roleSnap
      /\ \/ pc' = pc
         \/ pc' = next /\ cur' = n
  BY DEF GetCreds, snapVars
<1> QED
  BY <1>1, <1>2 DEF VisitsListedRoles

\* A step that makes no call of getCreds, within one loop.
LEMMA LoopVisits ==
  ASSUME HistoryInv, todo' \subseteq todo, roleSnap' = roleSnap,
         pc \notin {"idle", "listed", "cleanup"},
         pc' \notin {"refreshUpdate", "syncUpdate", "create"}
  PROVE  VisitsListedRoles'
BY DEF HistoryInv, VisitsListedRoles

LEMMA NextVisits ==
  ASSUME HistoryInv, Next
  PROVE  VisitsListedRoles'
<1>1. CASE ListSecrets
  BY <1>1 DEF ListSecrets, VisitsListedRoles
<1>2. CASE ListRoles
  <2>1. CASE ResetLocals
    BY <2>1 DEF ResetLocals, VisitsListedRoles
  <2>2. CASE ListRolesOK
    BY <2>2
    DEF ListRolesOK, VisitsListedRoles, Orphaned, isOwnedReference, Listed
  <2> QED
    BY <1>2, <2>1, <2>2 DEF ListRoles
<1>3. ASSUME NEW n \in Names, RefreshSkip(n) \/ SyncSkip(n)
      PROVE  VisitsListedRoles'
  BY <1>3, LoopVisits DEF RefreshSkip, SyncSkip, PassOver, snapVars
<1>4. ASSUME NEW n \in Names,
             RefreshGetCreds(n) \/ SyncGetCreds(n) \/ CreateGetCreds(n)
      PROVE  VisitsListedRoles'
  BY <1>4, GetCredsVisits DEF RefreshGetCreds, SyncGetCreds, CreateGetCreds
<1>5. CASE RefreshUpdate \/ SyncUpdate \/ CreateSecret
  BY <1>5, LoopVisits
  DEF RefreshUpdate, SyncUpdate, CreateSecret, WriteSecret, snapVars
<1>6. CASE RefreshStatus \/ SyncStatus
  BY <1>6, LoopVisits DEF RefreshStatus, SyncStatus, UpdateStatus, snapVars
<1>7. ASSUME NEW n \in Names, SyncReport(n)
      PROVE  VisitsListedRoles'
  BY <1>7, LoopVisits DEF SyncReport, snapVars
<1>8. ASSUME NEW n \in Names, CleanupDelete(n)
      PROVE  VisitsListedRoles'
  BY <1>8 DEF CleanupDelete, VisitsListedRoles
<1>9. CASE RefreshDone
  BY <1>9 DEF RefreshDone, NextLoop, VisitsListedRoles
<1>10. CASE CleanupDone
  BY <1>10 DEF CleanupDone, NextLoop, snapVars, VisitsListedRoles
<1>11. CASE RoundEnd \/ Crash
  BY <1>11, RoundEndResets DEF Crash, ResetLocals, VisitsListedRoles
<1>12. CASE ClusterStep
  BY <1>12 DEF ClusterStep, Observe, snapVars, HistoryInv, VisitsListedRoles
<1> QED
  BY <1>1, <1>2, <1>3, <1>4, <1>5, <1>6, <1>7, <1>8, <1>9, <1>10, <1>11, <1>12
  DEF Next, ControllerStep, RoundEnd

\* The lists are filled from what is live, and versions are not forgotten.
LEMMA NextKeepsVersions ==
  ASSUME RoundInv, HistoryInv, Next, Remember
  PROVE  /\ versions' \in [Names -> SUBSET Versions]
         /\ ListedVersionsAreKept'
<1>1. ASSUME NEW n \in Names
      PROVE  versions'[n] \in SUBSET Versions
  BY LiveAreVersions, RememberEffect DEF HistoryInv
<1>2. versions' \in [Names -> SUBSET Versions]
  BY <1>1 DEF Remember
<1>3. \/ roleSnap' = roleSnap
      \/ roleSnap' = [n \in Names |-> NoRole]
      \/ roleSnap' = roles
  <2>1. CASE WorkStep
    BY <2>1, WorkClusterEffect DEF RoundInv, ClusterEffect
  <2>2. CASE ~WorkStep
    BY <2>2, RoundEndResets
    DEF Next, ControllerStep, WorkStep, ListSecrets, ListRoles, ListRolesOK,
        RoundEnd, Crash, ResetLocals, ClusterStep, Observe, snapVars
  <2> QED
    BY <2>1, <2>2
<1>4. ASSUME NEW n \in Names, roleSnap'[n].uid # 0
      PROVE  Version(roleSnap'[n]) \in versions'[n]
  <2>1. /\ roles[n].uid # 0 => Version(roles[n]) \in versions[n]
        /\ roleSnap[n].uid # 0 => Version(roleSnap[n]) \in versions[n]
    BY DEF HistoryInv, ListedVersionsAreKept
  <2>2. versions[n] \subseteq versions'[n]
    BY RememberEffect
  <2>3. NoRole.uid = 0
    BY DEF NoRole
  <2> QED
    BY <1>3, <1>4, <2>1, <2>2, <2>3
<1>5. ASSUME NEW n \in Names, roles'[n].uid # 0
      PROVE  Version(roles'[n]) \in versions'[n]
  BY <1>5, RememberEffect
<1> QED
  BY <1>2, <1>4, <1>5 DEF ListedVersionsAreKept

\* What a secret holds after a step it held before, or is what was written.
LEMMA NextHoldsAVersion ==
  ASSUME RoundInv, HistoryInv, Next, Remember, NEW n \in Names,
         secrets'[n].exists, secrets'[n].generation \in Nat
  PROVE  \E v \in versions'[n] : /\ v.generation = secrets'[n].generation
                                 /\ v.arn = secrets'[n].arn
<1> USE DEF RoundInv
<1>1. versions[n] \subseteq versions'[n]
  BY RememberEffect
<1>2. secrets[n].exists /\ secrets[n].generation \in Nat =>
        \E v \in versions[n] : /\ v.generation = secrets[n].generation
                               /\ v.arn = secrets[n].arn
  BY DEF HistoryInv, SecretsHoldAVersion
<1>3. CASE secrets'[n] = secrets[n]
  BY <1>1, <1>2, <1>3
<1>4. CASE WorkStep
  <2>1. SecretWritten(n)
    BY <1>4, WorkClusterEffect DEF ClusterEffect
  <2>2. CASE /\ Updates(n) \/ Creates(n)
             /\ secrets'[n].generation = roleSnap[n].generation
             /\ secrets'[n].arn = creds.arn
    <3>1. roleSnap[n].uid # 0 /\ creds.arn = RoleARN(roleSnap[n].reference)
      BY <2>2
      DEF Updates, Creates, HistoryInv, VisitsListedRoles, CredsOfListedRole
    <3>2. Version(roleSnap[n]) \in versions[n]
      BY <3>1 DEF HistoryInv, ListedVersionsAreKept
    <3> QED
      BY <1>1, <2>2, <3>1, <3>2, VersionOfRole
  <2>3. ~Deletes(n)
    BY DEF Deletes, NoSecret
  <2> QED
    BY <1>3, <2>1, <2>2, <2>3 DEF SecretWritten
<1>5. CASE ClusterStep
  <2>1. SecretMoves(n)
    BY <1>5, ClusterStepEffect
  <2>2. Absent \notin Nat /\ Malformed \notin Nat
    BY ClusterAssumption
  <2>3. /\ secrets'[n].exists = secrets[n].exists
        /\ secrets'[n].arn = secrets[n].arn
        /\ secrets'[n].generation = secrets[n].generation
    <3>1. ~NoSecret.exists
      BY DEF NoSecret
    <3>2. secrets'[n] # NoSecret /\ secrets'[n].generation \notin {Absent, Malformed}
      BY <2>2, <3>1
    <3> QED
      BY <2>1, <3>2 DEF SecretMoves
  <2> QED
    BY <1>1, <1>2, <2>3
<1>6. CASE ListSecrets \/ ListRoles \/ RoundEnd \/ Crash
  BY <1>3, <1>6, RoundEndResets DEF ListSecrets, ListRoles, Crash, clusterVars
<1> QED
  BY <1>4, <1>5, <1>6 DEF Next, ControllerStep, WorkStep, RoundEnd

\* Both invariants, step by step.
LEMMA HistoryInductive ==
  ASSUME IInv, HistoryInv, [HistoryNext]_historyVars
  PROVE  IInv' /\ HistoryInv'
<1>1. CASE HistoryNext
  <2>1. IInv'
    BY <1>1, IInvInductive DEF HistoryNext
  <2>2. SecretsHoldAVersion'
    BY <1>1, NextHoldsAVersion DEF HistoryNext, IInv, SecretsHoldAVersion
  <2>3. /\ versions' \in [Names -> SUBSET Versions]
        /\ ListedVersionsAreKept'
        /\ VisitsListedRoles'
    BY <1>1, NextKeepsVersions, NextVisits DEF HistoryNext, IInv
  <2> QED
    BY <2>1, <2>2, <2>3 DEF HistoryInv
<1>2. CASE UNCHANGED historyVars
  <2>1. UNCHANGED vars /\ versions' = versions
    BY <1>2 DEF historyVars
  <2>2. IInv'
    BY <2>1, IInvInductive
  <2>3. HistoryInv'
    BY <2>1
    DEF HistoryInv, ListedVersionsAreKept, VisitsListedRoles,
        SecretsHoldAVersion, vars, clusterVars, localVars, snapVars
  <2> QED
    BY <2>2, <2>3
<1> QED
  BY <1>1, <1>2

-----------------------------------------------------------------------------
(* The theorems. *)

\* Every list a round works from, and every secret it leaves behind, goes back
\* to versions the roles of that name have been.
THEOREM HistoryInvariant == HistorySpec => [](IInv /\ HistoryInv)
<1>1. HistoryInit => IInv /\ HistoryInv
  BY InitIInv, InitHistoryInv DEF HistoryInit
<1>2. IInv /\ HistoryInv /\ [HistoryNext]_historyVars => IInv' /\ HistoryInv'
  BY HistoryInductive
<1> QED
  BY <1>1, <1>2, PTL DEF HistorySpec

\* refresh() never leaves a secret whose generation stands next to the ARN of
\* another version of the role, not even for roles that are gone.
THEOREM SecretsHoldVersions == HistorySpec => []SecretsHoldAVersion
<1>1. HistoryInv => SecretsHoldAVersion
  BY DEF HistoryInv
<1> QED
  BY <1>1, HistoryInvariant, PTL

\* The controller, its crashes and everyone around it implement
\* IssuedCredentials, which knows neither rounds nor lists.
THEOREM ControllerImplementsIssuedCredentials ==
  HistorySpec => ImplementsIssuedCredentials
<1>1. HistoryInit => Promise!Init
  <2> SUFFICES ASSUME HistoryInit
               PROVE  Promise!Init
    OBVIOUS
  <2> USE DEF HistoryInit, Init, ClusterInit
  <2>1. LiveVersion = [n \in Names |-> Promise!NoVersion]
    BY DEF LiveVersion, Version, NoVersion, Promise!NoVersion, NoRole
  <2>2. HeldSecrets \in [Names -> {Promise!Missing, Promise!Bare("ours", 0),
                                   Promise!Bare("foreign", 0)}]
    BY BareSecrets DEF HeldSecrets
  <2> QED
    BY <2>1, <2>2 DEF Promise!Init
<1>2. ASSUME IInv, HistoryInv, [HistoryNext]_historyVars
      PROVE  [Promise!Next]_Promise!vars
  <2>1. CASE UNCHANGED historyVars
    BY <2>1
    DEF historyVars, vars, clusterVars, Promise!vars, LiveVersion, HeldSecrets
  <2>2. CASE HistoryNext /\ ClusterStep
    BY <1>2, <2>2, OthersImplement DEF HistoryNext, IInv, RoundInv, Promise!Next
  <2>3. CASE HistoryNext /\ Crash
    BY <1>2, <2>3, OthersStutter DEF HistoryNext, Crash, clusterVars
  <2>4. CASE HistoryNext /\ ControllerStep
    <3>1. ASSUME NEW n \in Names, secrets[n].exists,
                 Promise!Put(n, Promise!Missing)
          PROVE  Promise!LoseSecret(n)
      BY <1>2, <3>1, MappedState DEF IInv, RoundInv, Promise!LoseSecret
    <3> QED
      BY <1>2, <2>4, <3>1, ControllerWrites
      DEF IInv, HistoryNext, Promise!Next, Promise!Controller, Promise!Others
  <2> QED
    BY <1>2, <2>1, <2>2, <2>3, <2>4 DEF HistoryNext, Next
<1> QED
  BY <1>1, <1>2, HistoryInvariant, PTL
  DEF HistorySpec, ImplementsIssuedCredentials, Promise!Spec

\* Of the steps of IssuedCredentials, the controller takes only its own three:
\* it provides, replaces on the terms of versions, and removes only orphans, or
\* what others have created on an orphan's name since the List.
THEOREM ControllerKeepsItsPromise == HistorySpec => ControllerKeepsPromise
<1>1. IInv /\ HistoryInv /\ [HistoryNext]_historyVars =>
        [ControllerStep => \/ [Promise!Controller]_Promise!vars
                           \/ DeletesRetaken]_historyVars
  BY ControllerImplements DEF HistoryNext
<1> QED
  BY <1>1, HistoryInvariant, PTL DEF HistorySpec, ControllerKeepsPromise
=============================================================================
