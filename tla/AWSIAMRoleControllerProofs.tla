-------------------- MODULE AWSIAMRoleControllerProofs --------------------
(***************************************************************************)
(* Theorems about AWSIAMRoleController, for every set of names, roles and  *)
(* references and every bound.                                             *)
(***************************************************************************)
EXTENDS AWSIAMRoleController, TLAPS

-----------------------------------------------------------------------------
(* Typing of the operators. *)

\* The labels the controller writes are label maps that its selector accepts,
\* whatever labels the role carries (mergeLabels).
LEMMA MergedLabels ==
  ASSUME NEW base \in Labels
  PROVE  /\ mergeLabels(base, awsIAMRoleOwnerLabels) \in Labels
         /\ Selected(mergeLabels(base, awsIAMRoleOwnerLabels))
BY DEF mergeLabels, awsIAMRoleOwnerLabels, Selected, Labels, LabelKeys,
       LabelValues

\* The records that stand for missing objects are well typed.
LEMMA EmptyObjects ==
  /\ NoLabels \in Labels
  /\ awsIAMRoleOwnerLabels \in Labels
  /\ NoStatus \in Status
  /\ NoRole \in AWSIAMRole
  /\ {NoSecret, ForeignSecret, UnownedSecret} \subseteq Secret
  /\ NoCreds \in Credentials
<1>1. NoLabels \in Labels /\ awsIAMRoleOwnerLabels \in Labels
  BY DEF NoLabels, awsIAMRoleOwnerLabels, Labels, LabelKeys, LabelValues
<1>2. NoStatus \in Status
  BY DEF NoStatus, Status
<1>3. NoRole \in AWSIAMRole
  BY <1>1, <1>2 DEF NoRole, AWSIAMRole
<1>4. NoSecret \in Secret
  BY <1>1 DEF NoSecret, Secret, Stamps
<1>5. ForeignSecret \in Secret
  BY <1>4 DEF ForeignSecret, Secret
<1>6. UnownedSecret \in Secret
  BY <1>1, <1>5 DEF UnownedSecret, Secret
<1>7. NoCreds \in Credentials
  BY DEF NoCreds, Credentials
<1> QED
  BY <1>1, <1>2, <1>3, <1>4, <1>5, <1>6, <1>7

\* What Update and Create send is a secret.
LEMMA WithCredsType ==
  ASSUME NEW s \in Secret, NEW r \in AWSIAMRole, NEW c \in Credentials
  PROVE  /\ WithCreds(s, r, c) \in Secret
         /\ WithCreds(s, r, c).exists = s.exists
         /\ WithCreds(s, r, c).owner = s.owner
         /\ WithCreds(s, r, c).generation = r.generation
         /\ WithCreds(s, r, c).arn = c.arn
         /\ Selected(WithCreds(s, r, c).labels)
<1>1. r.labels \in Labels /\ r.generation \in Nat
  BY DEF AWSIAMRole
<1>2. c.arn \in ARNs \cup {Absent} /\ c.expire \in Nat
  BY DEF Credentials
<1> DEFINE m == mergeLabels(r.labels, awsIAMRoleOwnerLabels)
<1>3. m \in Labels /\ Selected(m)
  BY <1>1, MergedLabels
<1> HIDE DEF m
<1>4. WithCreds(s, r, c) = [s EXCEPT !.labels = m, !.expire = c.expire,
                                     !.arn = c.arn,
                                     !.generation = r.generation]
  BY DEF WithCreds, m
<1> QED
  BY <1>1, <1>2, <1>3, <1>4 DEF Secret, Stamps

\* What UpdateStatus sends is a status.
LEMMA NewStatusType ==
  ASSUME NEW r \in AWSIAMRole, NEW c \in Credentials
  PROVE  NewStatus(r, c) \in Status
BY DEF NewStatus, Status, AWSIAMRole, Credentials

\* Credentials obtained from STS are well typed and of the role the listed
\* resource refers to.
LEMMA GetCredsType ==
  ASSUME NEW r \in AWSIAMRole, NEW answer, AssumeRole(r, answer),
         now \in Nat
  PROVE  getCreds(r) \in Credentials
<1>1. RoleARN(r.reference) \in ARNs
  BY ControllerAssumption DEF AssumeRole, Succeeds
<1>2. now + roleSessionDuration(r) \in Nat
  BY ControllerAssumption DEF roleSessionDuration, AWSIAMRole
<1> QED
  BY <1>1, <1>2 DEF getCreds, Credentials

-----------------------------------------------------------------------------
(* Type correctness. *)

\* What the building blocks of the actions leave behind is well typed.
LEMMA CallType ==
  ASSUME faults \in Nat, NEW answer, Call(answer)
  PROVE  faults' \in Nat
BY DEF Call

LEMMA PutSecretType ==
  ASSUME TypeOK, NEW n \in Names, NEW s \in Secret, NEW applied \in BOOLEAN,
         PutSecret(n, s, applied)
  PROVE  /\ secrets' \in [Names -> Secret]
         /\ currentSecrets' \subseteq Names
BY DEF PutSecret, TypeOK, ClusterTypeOK

LEMMA PutStatusType ==
  ASSUME TypeOK, NEW n \in Names, NEW s \in Status, NEW applied \in BOOLEAN,
         PutStatus(n, s, applied)
  PROVE  /\ roles' \in [Names -> AWSIAMRole]
         /\ currentRoles' \subseteq Names
<1>1. [roles EXCEPT ![n].status = s] \in [Names -> AWSIAMRole]
  BY DEF TypeOK, ClusterTypeOK, AWSIAMRole
<1> QED
  BY <1>1 DEF PutStatus, TypeOK, ClusterTypeOK

LEMMA ResetLocalsType ==
  ASSUME TypeOK, ResetLocals
  PROVE  /\ pc' \in Locations
         /\ secretSnap' \in [Names -> Secret]
         /\ roleSnap' \in [Names -> AWSIAMRole]
         /\ retaken' \subseteq Names
         /\ currentSecrets' \subseteq Names
         /\ currentRoles' \subseteq Names
         /\ orphans' \subseteq Names
         /\ todo' \subseteq Names
         /\ cur' \in Names
         /\ creds' \in Credentials
BY EmptyObjects DEF ResetLocals, TypeOK, Locations

LEMMA GetCredsStepType ==
  ASSUME TypeOK, NEW n \in Names, NEW answer, NEW next \in Locations,
         GetCreds(n, answer, next)
  PROVE  TypeOK'
<1>1. faults' \in Nat
  BY CallType DEF GetCreds, TypeOK
<1>2. pc' \in Locations /\ cur' \in Names /\ creds' \in Credentials
  BY GetCredsType DEF GetCreds, TypeOK, ClusterTypeOK
<1> QED
  BY <1>1, <1>2 DEF GetCreds, TypeOK, ClusterTypeOK, clusterVars, snapVars

LEMMA UpdateStatusType ==
  ASSUME TypeOK, NEW next \in Locations, UpdateStatus(next)
  PROVE  TypeOK'
<1>1. PICK answer \in Answers :
        /\ Call(answer)
        /\ PutStatus(cur, NewStatus(roleSnap[cur], creds),
                     Applied(answer, cur \in currentRoles))
  BY DEF UpdateStatus
<1>2. NewStatus(roleSnap[cur], creds) \in Status
  BY NewStatusType DEF TypeOK
<1>3. roles' \in [Names -> AWSIAMRole] /\ currentRoles' \subseteq Names
  BY <1>1, <1>2, PutStatusType DEF TypeOK, Applied
<1>4. faults' \in Nat
  BY <1>1, CallType DEF TypeOK
<1> QED
  BY <1>3, <1>4, EmptyObjects DEF UpdateStatus, TypeOK, ClusterTypeOK, snapVars

\* An action that puts a well-typed secret and moves on keeps the types.
LEMMA PutStepType ==
  ASSUME TypeOK, NEW n \in Names, NEW s \in Secret, NEW applied \in BOOLEAN,
         PutSecret(n, s, applied),
         NEW answer, Call(answer),
         pc' \in Locations, creds' \in Credentials, todo' \subseteq Names,
         UNCHANGED <<roles, nextUID, now, edits, snapVars, currentRoles,
                     orphans, cur>>
  PROVE  TypeOK'
BY CallType, PutSecretType DEF TypeOK, ClusterTypeOK, snapVars

\* Users, the garbage collector and the clock keep the types.
LEMMA ClusterStepType ==
  ASSUME TypeOK, ClusterStep
  PROVE  TypeOK'
<1>1. ClusterTypeOK'
  <2> USE DEF TypeOK, ClusterTypeOK
  <2>1. ASSUME NEW n \in Names, CreateRole(n)
        PROVE  ClusterTypeOK'
    <3>1. PICK ref \in References, d \in Durations, l \in RoleLabels :
            roles' = [roles EXCEPT ![n] =
                        [uid |-> nextUID, generation |-> 1, reference |-> ref,
                         duration |-> d, labels |-> l, status |-> NoStatus]]
      BY <2>1 DEF CreateRole
    <3>2. [uid |-> nextUID, generation |-> 1, reference |-> ref,
           duration |-> d, labels |-> l, status |-> NoStatus] \in AWSIAMRole
      BY EmptyObjects, ClusterAssumption DEF AWSIAMRole
    <3> QED
      BY <2>1, <3>1, <3>2 DEF CreateRole, UserEdit
  <2>2. ASSUME NEW n \in Names, EditSpec(n)
        PROVE  ClusterTypeOK'
    <3>1. PICK ref \in References, d \in Durations :
            roles' = [roles EXCEPT ![n].reference = ref, ![n].duration = d,
                                   ![n].generation = @ + 1]
      BY <2>2 DEF EditSpec
    <3> DEFINE g == roles[n].generation + 1
               r == [roles[n] EXCEPT !.reference = ref, !.duration = d,
                                     !.generation = g]
    <3>2. roles' = [roles EXCEPT ![n] = r]
      BY <3>1 DEF AWSIAMRole
    <3>3. g \in Nat
      BY DEF AWSIAMRole
    <3> HIDE DEF g
    <3>4. r \in AWSIAMRole
      BY <3>3, ClusterAssumption DEF AWSIAMRole
    <3> HIDE DEF r
    <3>5. roles' \in [Names -> AWSIAMRole]
      BY <3>2, <3>4
    <3>6. edits' \in Nat /\ UNCHANGED <<secrets, nextUID, now>>
      BY <2>2 DEF EditSpec, UserEdit
    <3> QED
      BY <3>5, <3>6
  <2>3. ASSUME NEW n \in Names, EditLabels(n)
        PROVE  ClusterTypeOK'
    <3>1. PICK l \in RoleLabels : roles' = [roles EXCEPT ![n].labels = l]
      BY <2>3 DEF EditLabels
    <3>2. [roles[n] EXCEPT !.labels = l] \in AWSIAMRole
      BY ClusterAssumption DEF AWSIAMRole
    <3> QED
      BY <2>3, <3>1, <3>2 DEF EditLabels, UserEdit
  <2>4. ASSUME NEW n \in Names, DeleteRole(n)
        PROVE  ClusterTypeOK'
    BY <2>4, EmptyObjects DEF DeleteRole, UserEdit
  <2>5. ASSUME NEW n \in Names, SeedSecret(n)
        PROVE  ClusterTypeOK'
    <3>1. [UnownedSecret EXCEPT !.owner = roles[n].uid] \in Secret
      BY EmptyObjects DEF Secret, AWSIAMRole
    <3> QED
      BY <2>5, <3>1 DEF SeedSecret, UserEdit
  <2>6. ASSUME NEW n \in Names, CreateForeignSecret(n)
        PROVE  ClusterTypeOK'
    BY <2>6, EmptyObjects DEF CreateForeignSecret, UserEdit
  <2>7. ASSUME NEW n \in Names, TamperSecret(n)
        PROVE  ClusterTypeOK'
    <3>1. PICK s \in {Absent, Malformed} :
            \/ secrets' = [secrets EXCEPT ![n].expire = s]
            \/ secrets' = [secrets EXCEPT ![n].generation = s]
      BY <2>7 DEF TamperSecret
    <3>2. /\ [secrets[n] EXCEPT !.expire = s] \in Secret
          /\ [secrets[n] EXCEPT !.generation = s] \in Secret
      BY DEF Secret, Stamps
    <3> QED
      BY <2>7, <3>1, <3>2 DEF TamperSecret, UserEdit
  <2>8. ASSUME NEW n \in Names, DeleteSecret(n)
        PROVE  ClusterTypeOK'
    BY <2>8, EmptyObjects DEF DeleteSecret, UserEdit
  <2>9. ASSUME NEW n \in Names, CollectGarbage(n)
        PROVE  ClusterTypeOK'
    BY <2>9, EmptyObjects DEF CollectGarbage
  <2>10. CASE Tick
    BY <2>10 DEF Tick
  <2> QED
    BY <2>1, <2>2, <2>3, <2>4, <2>5, <2>6, <2>7, <2>8, <2>9, <2>10
    DEF ClusterStep, UserStep
<1> QED
  BY <1>1 DEF ClusterStep, Observe, Listed, TypeOK

\* The steps that end a round after the loops began.
RoundEnd == SyncDone \/ \E n \in Names : Panic(n)

LEMMA RoundEndResets ==
  ASSUME RoundEnd
  PROVE  ResetLocals /\ UNCHANGED <<clusterVars, faults>>
BY DEF RoundEnd, SyncDone, Panic

\* Every step keeps the types.
LEMMA TypeInductive ==
  ASSUME TypeOK, [Next]_vars
  PROVE  TypeOK'
<1> USE DEF Locations
<1>1. CASE ListSecrets
  <2>1. faults' \in Nat
    BY <1>1, CallType DEF ListSecrets, Lists, TypeOK
  <2> QED
    BY <1>1, <2>1, EmptyObjects
    DEF ListSecrets, Lists, TypeOK, ClusterTypeOK, clusterVars
<1>2. CASE ListRoles
  <2>1. faults' \in Nat
    BY <1>2, CallType DEF ListRoles, TypeOK
  <2>2. CASE ResetLocals
    BY <1>2, <2>1, <2>2, ResetLocalsType
    DEF ListRoles, TypeOK, ClusterTypeOK, clusterVars
  <2>3. CASE ListRolesOK
    BY <1>2, <2>1, <2>3
   
     DEF ListRoles, ListRolesOK, Orphaned, Listed, TypeOK, ClusterTypeOK, clusterVars
  <2> QED
    BY <1>2, <2>2, <2>3 DEF ListRoles
<1>3. ASSUME NEW n \in Names, RefreshSkip(n)
      PROVE  TypeOK'
  BY <1>3
    DEF RefreshSkip, PassOver, TypeOK, ClusterTypeOK, clusterVars, snapVars
<1>4. ASSUME NEW n \in Names, RefreshGetCreds(n)
      PROVE  TypeOK'
  BY <1>4, GetCredsStepType DEF RefreshGetCreds
<1>5. CASE RefreshUpdate
  BY <1>5, WithCredsType, PutStepType, EmptyObjects
  DEF RefreshUpdate, UpdateAdmissible, WriteSecret, TypeOK, Applied
<1>6. CASE RefreshStatus
  BY <1>6, UpdateStatusType DEF RefreshStatus
<1>7. CASE RefreshDone
  BY <1>7
    DEF RefreshDone, ToDelete, NextLoop, TypeOK, ClusterTypeOK, clusterVars, snapVars
<1>8. ASSUME NEW n \in Names, CleanupDelete(n)
      PROVE  TypeOK'
  BY <1>8, PutStepType, EmptyObjects
  DEF CleanupDelete, TypeOK, ClusterTypeOK, Applied, Secret
<1>9. CASE CleanupDone
  BY <1>9
    DEF CleanupDone, NextLoop, TypeOK, ClusterTypeOK, clusterVars, snapVars
<1>10. ASSUME NEW n \in Names, SyncSkip(n)
       PROVE  TypeOK'
  BY <1>10 DEF SyncSkip, PassOver, TypeOK, ClusterTypeOK, clusterVars, snapVars
<1>11. ASSUME NEW n \in Names, SyncGetCreds(n)
       PROVE  TypeOK'
  BY <1>11, GetCredsStepType DEF SyncGetCreds
<1>12. CASE SyncUpdate
  BY <1>12, WithCredsType, PutStepType, EmptyObjects
  DEF SyncUpdate, UpdateAdmissible, WriteSecret, TypeOK, Applied
<1>13. ASSUME NEW n \in Names, SyncReport(n)
       PROVE  TypeOK'
  <2>1. creds' \in Credentials
    BY <1>13 DEF SyncReport, Reportable, TypeOK, Secret, Credentials
  <2> QED
    BY <1>13, <2>1
      DEF SyncReport, Reportable, TypeOK, ClusterTypeOK, clusterVars, snapVars
<1>14. CASE SyncStatus
  BY <1>14, UpdateStatusType DEF SyncStatus
<1>15. ASSUME NEW n \in Names, CreateGetCreds(n)
       PROVE  TypeOK'
  BY <1>15, GetCredsStepType DEF CreateGetCreds
<1>16. CASE CreateSecret
  <2> DEFINE new == [NoSecret EXCEPT !.exists = TRUE,
                                     !.owner = roleSnap[cur].uid]
             secret == WithCreds(new, roleSnap[cur], creds)
  <2>1. new \in Secret
    BY EmptyObjects DEF TypeOK, Secret, AWSIAMRole
  <2>2. PICK answer \in Answers :
          /\ Call(answer)
          /\ PutSecret(cur, secret, Applied(answer, ~secrets[cur].exists))
    BY <1>16 DEF CreateSecret, BlankSecret, WriteSecret
  <2> HIDE DEF new
  <2>3. secret \in Secret
    BY <2>1, WithCredsType DEF TypeOK
  <2> HIDE DEF secret
  <2>4. Applied(answer, ~secrets[cur].exists) \in BOOLEAN
    BY DEF Applied
  <2>5. pc' \in Locations /\ creds' \in Credentials
    BY <1>16, EmptyObjects DEF CreateSecret, BlankSecret, WriteSecret, TypeOK
  <2> QED
    BY <1>16, <2>2, <2>3, <2>4, <2>5, PutStepType
      DEF CreateSecret, BlankSecret, WriteSecret, TypeOK
<1>17. CASE RoundEnd
  BY <1>17, ResetLocalsType, RoundEndResets
  DEF TypeOK, ClusterTypeOK, clusterVars
<1>18. CASE Crash
  BY <1>18, ResetLocalsType DEF Crash, TypeOK, ClusterTypeOK, clusterVars
<1>19. CASE ClusterStep
  BY <1>19, ClusterStepType
<1>20. CASE UNCHANGED vars
  BY <1>20 DEF vars, clusterVars, localVars, snapVars, TypeOK, ClusterTypeOK
<1> QED
  BY <1>1, <1>2, <1>3, <1>4, <1>5, <1>6, <1>7, <1>8, <1>9, <1>10, <1>11,
     <1>12, <1>13, <1>14, <1>15, <1>16, <1>17, <1>18, <1>19, <1>20
  DEF Next, ControllerStep, RoundEnd

LEMMA InitTypeOK ==
  ASSUME Init
  PROVE  TypeOK
BY EmptyObjects, ClusterAssumption, ControllerAssumption
DEF Init, ClusterInit, TypeOK, ClusterTypeOK, Locations

\* Every value the controller computes from what it lists and receives has
\* its type: in particular a status is never given an expiry that did not
\* parse.
THEOREM TypeCorrect == Spec => []TypeOK
<1>1. Init => TypeOK
  BY InitTypeOK
<1>2. TypeOK /\ [Next]_vars => TypeOK'
  BY TypeInductive
<1> QED
  BY <1>1, <1>2, PTL DEF Spec

-----------------------------------------------------------------------------
(* What a step may do to the cluster, name by name.                        *)

\* How others may change a role: it stays or grows older, disappears, or is
\* a new resource with a new UID.
RoleMoves(n) ==
    \/ /\ roles'[n].uid = roles[n].uid
       /\ roles'[n].generation >= roles[n].generation
       /\ roles'[n].generation = roles[n].generation
            => roles'[n].reference = roles[n].reference
    \/ roles'[n].uid = 0
    \/ roles'[n].uid = nextUID /\ nextUID' = nextUID + 1

\* How others may change a secret: its data is damaged, it is deleted, or it
\* is created without credentials.
SecretMoves(n) ==
    \/ /\ secrets'[n].exists = secrets[n].exists
       /\ secrets'[n].labels = secrets[n].labels
       /\ secrets'[n].owner = secrets[n].owner
       /\ secrets'[n].arn = secrets[n].arn
       /\ secrets'[n].generation \in {secrets[n].generation, Absent, Malformed}
    \/ secrets'[n] = NoSecret
    \/ /\ ~secrets[n].exists
       /\ n \in Listed => n \in retaken'
       /\ secrets'[n].arn = Absent
       /\ secrets'[n].generation = Absent
       /\ secrets'[n].owner \in {0, roles[n].uid}

LEMMA EditSpecEffect ==
  ASSUME TypeOK, NEW n \in Names, EditSpec(n)
  PROVE  /\ \A m \in Names : RoleMoves(m)
         /\ UNCHANGED <<secrets, nextUID>>
<1> USE DEF TypeOK, ClusterTypeOK
<1>1. PICK ref \in References, d \in Durations :
        roles' = [roles EXCEPT ![n].reference = ref, ![n].duration = d,
                               ![n].generation = @ + 1]
  BY DEF EditSpec
<1>2. /\ roles'[n].uid = roles[n].uid
      /\ roles'[n].generation = roles[n].generation + 1
      /\ \A m \in Names \ {n} : roles'[m] = roles[m]
  BY <1>1 DEF AWSIAMRole
<1>3. \A m \in Names : roles[m].generation \in Nat
  BY DEF AWSIAMRole
<1>4. RoleMoves(n)
  BY <1>2, <1>3 DEF RoleMoves
<1>5. \A m \in Names \ {n} : RoleMoves(m)
  BY <1>2, <1>3 DEF RoleMoves
<1> QED
  BY <1>4, <1>5 DEF EditSpec

\* The environment as the controller's safety argument sees it.
LEMMA ClusterStepEffect ==
  ASSUME TypeOK, ClusterStep
  PROVE  /\ nextUID' \in {nextUID, nextUID + 1}
         /\ \A n \in Names : RoleMoves(n) /\ SecretMoves(n)
         /\ \A n \in currentSecrets' :
                n \in currentSecrets /\ secrets'[n] = secrets[n]
         /\ retaken \subseteq retaken'
         /\ UNCHANGED <<pc, secretSnap, roleSnap, orphans, todo, cur, creds>>
<1>1. /\ \A n \in currentSecrets' :
             n \in currentSecrets /\ secrets'[n] = secrets[n]
      /\ retaken \subseteq retaken'
      /\ UNCHANGED <<pc, secretSnap, roleSnap, orphans, todo, cur, creds>>
  BY DEF ClusterStep, Observe
<1>0. \A n \in Listed : ~secrets[n].exists /\ secrets'[n].exists
                           => n \in retaken'
  BY DEF ClusterStep, Observe
<1> USE DEF TypeOK, ClusterTypeOK
<1>2. (\A n \in Names : roles'[n] = roles[n])
         => \A n \in Names : RoleMoves(n)
  BY DEF RoleMoves, AWSIAMRole
<1>3. (\A n \in Names : secrets'[n] = secrets[n])
         => \A n \in Names : SecretMoves(n)
  BY DEF SecretMoves
<1> DEFINE Effect == /\ nextUID' \in {nextUID, nextUID + 1}
                     /\ \A n \in Names : RoleMoves(n) /\ SecretMoves(n)
<1>4. ASSUME NEW n \in Names, CreateRole(n)
      PROVE  Effect
  <2>1. roles'[n].uid = nextUID /\ \A m \in Names \ {n} : roles'[m] = roles[m]
    BY <1>4 DEF CreateRole
  <2>2. \A m \in Names : RoleMoves(m)
    BY <1>4, <2>1 DEF CreateRole, RoleMoves, AWSIAMRole
  <2> QED
    BY <1>3, <1>4, <2>2 DEF CreateRole
<1>5. ASSUME NEW n \in Names, EditSpec(n)
      PROVE  Effect
  BY <1>3, <1>5, EditSpecEffect
<1>6. ASSUME NEW n \in Names, EditLabels(n)
      PROVE  Effect
  <2>1. PICK l \in RoleLabels : roles' = [roles EXCEPT ![n].labels = l]
    BY <1>6 DEF EditLabels
  <2>2. \A m \in Names : /\ roles'[m].uid = roles[m].uid
                         /\ roles'[m].generation = roles[m].generation
                         /\ roles'[m].reference = roles[m].reference
    BY <2>1 DEF AWSIAMRole
  <2>3. \A m \in Names : RoleMoves(m)
    BY <2>2 DEF RoleMoves, AWSIAMRole
  <2> QED
    BY <1>3, <1>6, <2>3 DEF EditLabels
<1>7. ASSUME NEW n \in Names, DeleteRole(n)
      PROVE  Effect
  <2>1. roles'[n].uid = 0 /\ \A m \in Names \ {n} : roles'[m] = roles[m]
    BY <1>7 DEF DeleteRole, NoRole
  <2>2. \A m \in Names : RoleMoves(m)
    BY <2>1 DEF RoleMoves, AWSIAMRole
  <2> QED
    BY <1>3, <1>7, <2>2 DEF DeleteRole
<1>8. ASSUME NEW n \in Names, SeedSecret(n)
      PROVE  Effect
  <2>1. secrets'[n] = [UnownedSecret EXCEPT !.owner = roles[n].uid]
    BY <1>8 DEF SeedSecret
  <2>2. /\ secrets'[n].arn = Absent
        /\ secrets'[n].generation = Absent
        /\ secrets'[n].owner = roles[n].uid
        /\ secrets'[n].exists
    BY <2>1 DEF UnownedSecret, ForeignSecret, NoSecret
  <2>3. SecretMoves(n)
    BY <1>0, <1>8, <2>2 DEF SeedSecret, SecretMoves
  <2>4. \A m \in Names \ {n} : SecretMoves(m)
    BY <1>8 DEF SeedSecret, SecretMoves
  <2> QED
    BY <1>2, <1>8, <2>3, <2>4 DEF SeedSecret
<1>9. ASSUME NEW n \in Names, CreateForeignSecret(n)
      PROVE  Effect
  <2>1. secrets'[n] = ForeignSecret
    BY <1>9 DEF CreateForeignSecret
  <2>2. /\ secrets'[n].arn = Absent
        /\ secrets'[n].generation = Absent
        /\ secrets'[n].owner = 0
        /\ secrets'[n].exists
    BY <2>1 DEF ForeignSecret, NoSecret
  <2>3. SecretMoves(n)
    BY <1>0, <1>9, <2>2 DEF CreateForeignSecret, SecretMoves
  <2>4. \A m \in Names \ {n} : SecretMoves(m)
    BY <1>9 DEF CreateForeignSecret, SecretMoves
  <2> QED
    BY <1>2, <1>9, <2>3, <2>4 DEF CreateForeignSecret
<1>10. ASSUME NEW n \in Names, TamperSecret(n)
       PROVE  Effect
  <2>1. PICK s \in {Absent, Malformed} :
          \/ secrets' = [secrets EXCEPT ![n].expire = s]
          \/ secrets' = [secrets EXCEPT ![n].generation = s]
    BY <1>10 DEF TamperSecret
  <2>2. \A m \in Names :
          /\ secrets'[m].exists = secrets[m].exists
          /\ secrets'[m].labels = secrets[m].labels
          /\ secrets'[m].owner = secrets[m].owner
          /\ secrets'[m].arn = secrets[m].arn
          /\ secrets'[m].generation
               \in {secrets[m].generation, Absent, Malformed}
    BY <2>1 DEF Secret
  <2>3. \A m \in Names : SecretMoves(m)
    BY <2>2 DEF SecretMoves
  <2> QED
    BY <1>2, <1>10, <2>3 DEF TamperSecret
<1>11. ASSUME NEW n \in Names, DeleteSecret(n) \/ CollectGarbage(n)
       PROVE  Effect
  <2>1. \A m \in Names : SecretMoves(m)
    BY <1>11 DEF DeleteSecret, CollectGarbage, SecretMoves
  <2> QED
    BY <1>2, <1>11, <2>1 DEF DeleteSecret, CollectGarbage
<1>12. ASSUME Tick
       PROVE  Effect
  BY <1>2, <1>3, <1>12 DEF Tick
<1>13. Effect
  BY <1>4, <1>5, <1>6, <1>7, <1>8, <1>9, <1>10, <1>11, <1>12
  DEF ClusterStep, UserStep
<1> QED
  BY <1>1, <1>13

-----------------------------------------------------------------------------
(* The steps of the three loops: everything between the List calls and the *)
(* end of a round.                                                         *)

Refreshing == {"refresh", "refreshUpdate", "refreshStatus"}

WorkStep ==
    \/ \E n \in Names : RefreshSkip(n)
    \/ \E n \in Names : RefreshGetCreds(n)
    \/ RefreshUpdate
    \/ RefreshStatus
    \/ RefreshDone
    \/ \E n \in Names : CleanupDelete(n)
    \/ CleanupDone
    \/ \E n \in Names : SyncSkip(n)
    \/ \E n \in Names : SyncGetCreds(n)
    \/ SyncUpdate
    \/ \E n \in Names : SyncReport(n)
    \/ SyncStatus
    \/ \E n \in Names : CreateGetCreds(n)
    \/ CreateSecret

\* The three ways a loop changes a secret.
Updates(n) ==
    /\ pc \in {"refreshUpdate", "syncUpdate"}
    /\ n = cur
    /\ n \in currentSecrets
    /\ secrets'[n].exists = secretSnap[n].exists
    /\ secrets'[n].owner = secretSnap[n].owner

Creates(n) ==
    /\ pc = "create"
    /\ n = cur
    /\ ~secrets[n].exists
    /\ secrets'[n].exists
    /\ secrets'[n].owner = roleSnap[n].uid

Deletes(n) ==
    /\ pc = "cleanup"
    /\ n \in todo
    /\ secrets'[n] = NoSecret

SecretWritten(n) ==
    \/ secrets'[n] = secrets[n]
    \/ Deletes(n)
    \/ /\ Updates(n) \/ Creates(n)
       /\ secrets'[n].generation = roleSnap[n].generation
       /\ secrets'[n].arn = creds.arn
       /\ Selected(secrets'[n].labels)

\* What a loop step does to the cluster.
ClusterEffect ==
    /\ UNCHANGED <<secretSnap, roleSnap, retaken, nextUID, orphans>>
    /\ \A n \in Names : /\ roles'[n].uid = roles[n].uid
                        /\ roles'[n].generation = roles[n].generation
                        /\ roles'[n].reference = roles[n].reference
    /\ \A n \in Names : SecretWritten(n)
    /\ \A n \in currentSecrets' :
           n \in currentSecrets /\ secrets'[n] = secrets[n]

\* What a loop step does to the controller's own state.
LocalEffect ==
    /\ {pc, pc'} \cap {"idle", "listed"} = {}
    /\ pc' \in Refreshing => pc \in Refreshing
    /\ pc' = "cleanup" => \/ pc = "cleanup" /\ todo' \subseteq todo
                          \/ pc \in Refreshing /\ todo' = orphans
    /\ CredsOfListedRole'
    /\ LoopsVisitListed'

\* A step that writes no object.
LEMMA QuietEffect ==
  ASSUME UNCHANGED <<clusterVars, snapVars, currentSecrets, orphans>>
  PROVE  ClusterEffect
BY DEF ClusterEffect, SecretWritten, clusterVars, snapVars

\* Update sends the listed secret with new credentials, under the listed
\* version.
LEMMA UpdateEffect ==
  ASSUME TypeOK, pc \in {"refreshUpdate", "syncUpdate"}, NEW answer,
         PutSecret(cur, WithCreds(secretSnap[cur], roleSnap[cur], creds),
                   Applied(answer, cur \in currentSecrets)),
         UNCHANGED <<roles, nextUID, now, edits, snapVars, orphans>>
  PROVE  ClusterEffect
<1> DEFINE new == WithCreds(secretSnap[cur], roleSnap[cur], creds)
<1>1. /\ new.exists = secretSnap[cur].exists
      /\ new.owner = secretSnap[cur].owner
      /\ new.generation = roleSnap[cur].generation
      /\ new.arn = creds.arn
      /\ Selected(new.labels)
  BY WithCredsType DEF TypeOK
<1>2. PutSecret(cur, new, Applied(answer, cur \in currentSecrets))
  OBVIOUS
<1> HIDE DEF new
<1>3. CASE ~Applied(answer, cur \in currentSecrets)
  BY <1>2, <1>3 DEF PutSecret, ClusterEffect, SecretWritten, snapVars
<1>4. CASE Applied(answer, cur \in currentSecrets)
  <2>1. /\ secrets' = [secrets EXCEPT ![cur] = new]
        /\ currentSecrets' = currentSecrets \ {cur}
        /\ cur \in currentSecrets
    BY <1>2, <1>4 DEF PutSecret, Applied
  <2>2. SecretWritten(cur)
    BY <1>1, <2>1 DEF SecretWritten, Updates, TypeOK, ClusterTypeOK
  <2>3. \A n \in Names \ {cur} : secrets'[n] = secrets[n]
    BY <2>1 DEF TypeOK, ClusterTypeOK
  <2> QED
    BY <2>1, <2>2, <2>3 DEF ClusterEffect, SecretWritten, snapVars, TypeOK
<1> QED
  BY <1>3, <1>4

LEMMA CreateEffect ==
  ASSUME TypeOK, CreateSecret
  PROVE  ClusterEffect
<1> DEFINE empty == [NoSecret EXCEPT !.exists = TRUE,
                                     !.owner = roleSnap[cur].uid]
           new == WithCreds(empty, roleSnap[cur], creds)
<1>1. PICK answer \in Answers :
        PutSecret(cur, new, Applied(answer, ~secrets[cur].exists))
  BY DEF CreateSecret, BlankSecret, WriteSecret
<1>2. empty \in Secret /\ empty.exists /\ empty.owner = roleSnap[cur].uid
  BY EmptyObjects DEF TypeOK, Secret, AWSIAMRole
<1> HIDE DEF empty
<1>3. /\ new.exists
      /\ new.owner = roleSnap[cur].uid
      /\ new.generation = roleSnap[cur].generation
      /\ new.arn = creds.arn
      /\ Selected(new.labels)
  BY <1>2, WithCredsType DEF TypeOK
<1> HIDE DEF new
<1>4. UNCHANGED <<roles, nextUID, now, edits, snapVars, orphans>>
  BY DEF CreateSecret, BlankSecret, WriteSecret
<1>5. CASE ~Applied(answer, ~secrets[cur].exists)
  BY <1>1, <1>4, <1>5 DEF PutSecret, ClusterEffect, SecretWritten, snapVars
<1>6. CASE Applied(answer, ~secrets[cur].exists)
  <2>1. /\ secrets' = [secrets EXCEPT ![cur] = new]
        /\ currentSecrets' = currentSecrets \ {cur}
        /\ ~secrets[cur].exists
    BY <1>1, <1>6 DEF PutSecret, Applied
  <2>2. SecretWritten(cur)
    BY <1>3, <2>1
      DEF SecretWritten, Creates, CreateSecret, BlankSecret, WriteSecret, TypeOK, ClusterTypeOK
  <2>3. \A n \in Names \ {cur} : secrets'[n] = secrets[n]
    BY <2>1 DEF TypeOK, ClusterTypeOK
  <2> QED
    BY <1>4, <2>1, <2>2, <2>3 DEF ClusterEffect, SecretWritten, snapVars, TypeOK
<1> QED
  BY <1>5, <1>6

LEMMA DeleteEffect ==
  ASSUME TypeOK, NEW n \in Names, CleanupDelete(n)
  PROVE  ClusterEffect
<1>1. PICK answer \in Answers :
        PutSecret(n, NoSecret, Applied(answer, secrets[n].exists))
  BY DEF CleanupDelete
<1>2. /\ UNCHANGED <<roles, nextUID, now, edits, snapVars, orphans>>
      /\ pc = "cleanup" /\ n \in todo
  BY DEF CleanupDelete
<1>3. CASE ~Applied(answer, secrets[n].exists)
  BY <1>1, <1>2, <1>3 DEF PutSecret, ClusterEffect, SecretWritten, snapVars
<1>4. CASE Applied(answer, secrets[n].exists)
  <2>1. /\ secrets' = [secrets EXCEPT ![n] = NoSecret]
        /\ currentSecrets' = currentSecrets \ {n}
    BY <1>1, <1>4 DEF PutSecret
  <2>2. SecretWritten(n)
    BY <1>2, <2>1 DEF SecretWritten, Deletes, TypeOK, ClusterTypeOK
  <2>3. \A m \in Names \ {n} : secrets'[m] = secrets[m]
    BY <2>1 DEF TypeOK, ClusterTypeOK
  <2> QED
    BY <1>2, <2>1, <2>2, <2>3 DEF ClusterEffect, SecretWritten, snapVars, TypeOK
<1> QED
  BY <1>3, <1>4

LEMMA StatusEffect ==
  ASSUME TypeOK, NEW next, UpdateStatus(next)
  PROVE  ClusterEffect
<1>1. PICK answer \in Answers :
        PutStatus(cur, NewStatus(roleSnap[cur], creds),
                  Applied(answer, cur \in currentRoles))
  BY DEF UpdateStatus
<1>2. \A n \in Names : /\ roles'[n].uid = roles[n].uid
                       /\ roles'[n].generation = roles[n].generation
                       /\ roles'[n].reference = roles[n].reference
  BY <1>1 DEF PutStatus, TypeOK, ClusterTypeOK, AWSIAMRole
<1> QED
  BY <1>2 DEF UpdateStatus, ClusterEffect, SecretWritten, snapVars

LEMMA WorkClusterEffect ==
  ASSUME TypeOK, WorkStep
  PROVE  ClusterEffect
<1>1. ASSUME NEW n \in Names,
             RefreshSkip(n) \/ SyncSkip(n) \/ SyncReport(n)
      PROVE  ClusterEffect
  BY <1>1, QuietEffect
    DEF RefreshSkip, PassOver, SyncSkip, SyncReport, Reportable
<1>2. ASSUME NEW n \in Names,
             RefreshGetCreds(n) \/ SyncGetCreds(n) \/ CreateGetCreds(n)
      PROVE  ClusterEffect
  BY <1>2, QuietEffect
    DEF RefreshGetCreds, SyncGetCreds, CreateGetCreds, GetCreds
<1>3. CASE RefreshUpdate
  BY <1>3, UpdateEffect DEF RefreshUpdate, UpdateAdmissible, WriteSecret
<1>4. CASE SyncUpdate
  BY <1>4, UpdateEffect DEF SyncUpdate, UpdateAdmissible, WriteSecret
<1>5. CASE RefreshStatus \/ SyncStatus
  BY <1>5, StatusEffect DEF RefreshStatus, SyncStatus
<1>6. CASE RefreshDone \/ CleanupDone
  BY <1>6, QuietEffect DEF RefreshDone, ToDelete, NextLoop, CleanupDone
<1>7. ASSUME NEW n \in Names, CleanupDelete(n)
      PROVE  ClusterEffect
  BY <1>7, DeleteEffect
<1>8. CASE CreateSecret
  BY <1>8, CreateEffect
<1> QED
  BY <1>1, <1>2, <1>3, <1>4, <1>5, <1>6, <1>7, <1>8 DEF WorkStep

\* The credentials a call of getCreds leaves behind.
LEMMA GetCredsLocal ==
  ASSUME NEW n \in Names, NEW answer, NEW next, GetCreds(n, answer, next)
  PROVE  /\ todo' \subseteq todo
         /\ UNCHANGED <<secretSnap, roleSnap, orphans>>
         /\ \/ pc' = pc
            \/ /\ pc' = next
               /\ cur' = n
               /\ creds'.arn = RoleARN(roleSnap[n].reference)
BY DEF GetCreds, getCreds, snapVars

LEMMA WorkLocalEffect ==
  ASSUME TypeOK, LoopsVisitListed, WorkStep
  PROVE  LocalEffect
<1> USE DEF Refreshing, LoopsVisitListed, Listed, CredsOfListedRole
<1>1. ASSUME NEW n \in Names, RefreshSkip(n)
      PROVE  LocalEffect
  BY <1>1 DEF RefreshSkip, PassOver, LocalEffect, snapVars
<1>2. ASSUME NEW n \in Names, RefreshGetCreds(n)
      PROVE  LocalEffect
  <2>1. PICK answer : GetCreds(n, answer, "refreshUpdate")
    BY <1>2 DEF RefreshGetCreds
  <2>2. pc = "refresh" /\ n \in todo
    BY <1>2 DEF RefreshGetCreds
  <2> QED
    BY <2>1, <2>2, GetCredsLocal DEF LocalEffect
<1>3. CASE RefreshUpdate
  BY <1>3
    DEF RefreshUpdate, UpdateAdmissible, WriteSecret, LocalEffect, snapVars
<1>4. CASE RefreshStatus
  BY <1>4 DEF RefreshStatus, UpdateStatus, LocalEffect, snapVars
<1>5. CASE RefreshDone
  BY <1>5 DEF RefreshDone, ToDelete, NextLoop, LocalEffect, snapVars
<1>6. ASSUME NEW n \in Names, CleanupDelete(n)
      PROVE  LocalEffect
  BY <1>6 DEF CleanupDelete, LocalEffect, snapVars
<1>7. CASE CleanupDone
  BY <1>7 DEF CleanupDone, NextLoop, LocalEffect, snapVars
<1>8. ASSUME NEW n \in Names, SyncSkip(n)
      PROVE  LocalEffect
  BY <1>8 DEF SyncSkip, PassOver, LocalEffect, snapVars
<1>9. ASSUME NEW n \in Names, SyncGetCreds(n)
      PROVE  LocalEffect
  <2>1. PICK answer : GetCreds(n, answer, "syncUpdate")
    BY <1>9 DEF SyncGetCreds
  <2>2. pc = "sync" /\ n \in Listed
    BY <1>9 DEF SyncGetCreds
  <2> QED
    BY <2>1, <2>2, GetCredsLocal DEF LocalEffect
<1>10. CASE SyncUpdate
  BY <1>10 DEF SyncUpdate, UpdateAdmissible, WriteSecret, LocalEffect, snapVars
<1>11. ASSUME NEW n \in Names, SyncReport(n)
       PROVE  LocalEffect
  BY <1>11 DEF SyncReport, Reportable, LocalEffect, snapVars
<1>12. CASE SyncStatus
  BY <1>12 DEF SyncStatus, UpdateStatus, LocalEffect, snapVars
<1>13. ASSUME NEW n \in Names, CreateGetCreds(n)
       PROVE  LocalEffect
  <2>1. PICK answer : GetCreds(n, answer, "create")
    BY <1>13 DEF CreateGetCreds
  <2>2. pc = "sync"
    BY <1>13 DEF CreateGetCreds
  <2> QED
    BY <2>1, <2>2, GetCredsLocal DEF LocalEffect
<1>14. CASE CreateSecret
  BY <1>14 DEF CreateSecret, BlankSecret, WriteSecret, LocalEffect, snapVars
<1> QED
  BY <1>1, <1>2, <1>3, <1>4, <1>5, <1>6, <1>7, <1>8, <1>9, <1>10, <1>11,
     <1>12, <1>13, <1>14 DEF WorkStep

-----------------------------------------------------------------------------
(* The inductive invariant is kept. *)

\* The number-valued fields of the objects.
LEMMA NumericFields ==
  ASSUME TypeOK, NEW n \in Names
  PROVE  /\ roles[n].uid \in Nat /\ roles[n].generation \in Nat
         /\ roleSnap[n].uid \in Nat /\ roleSnap[n].generation \in Nat
         /\ secrets[n].owner \in Nat /\ secretSnap[n].owner \in Nat
         /\ nextUID \in Nat
         /\ secrets[n].exists \in BOOLEAN
         /\ secrets[n].generation \in Stamps
BY DEF TypeOK, ClusterTypeOK, AWSIAMRole, Secret

\* A round's loops.
LEMMA WorkKeepsRoundInv ==
  ASSUME RoundInv, WorkStep, TypeOK'
  PROVE  RoundInv'
<1> USE DEF RoundInv
<1>1. ClusterEffect /\ LocalEffect
  BY WorkClusterEffect, WorkLocalEffect
<1>2. UNCHANGED <<secretSnap, roleSnap, retaken, nextUID, orphans>>
  BY <1>1 DEF ClusterEffect
<1>3. pc \notin {"idle", "listed"} /\ pc' \notin {"idle", "listed"}
  BY <1>1 DEF LocalEffect
<1>4. \A n \in Names : /\ roles'[n].uid = roles[n].uid
                       /\ roles'[n].generation = roles[n].generation
                       /\ roles'[n].reference = roles[n].reference
                       /\ SecretWritten(n)
  BY <1>1 DEF ClusterEffect
<1>5. Listed' = Listed
  BY <1>2 DEF Listed
<1>6. UIDsAreOld'
  <2> SUFFICES ASSUME NEW n \in Names
               PROVE  secrets'[n].owner < nextUID
    BY <1>2, <1>4 DEF UIDsAreOld
  <2>1. NoSecret.owner = 0
    BY DEF NoSecret
  <2>2. roles[n].uid \in Nat /\ roles[n].uid < nextUID /\ nextUID \in Nat
    BY NumericFields DEF UIDsAreOld
  <2> QED
    BY <1>4, <2>1, <2>2
    DEF SecretWritten, Updates, Creates, Deletes, UIDsAreOld
<1>7. ListedRoleIsOlder'
  BY <1>2, <1>4 DEF ListedRoleIsOlder
<1>8. SecretBehindRole'
  <2> SUFFICES ASSUME NEW n \in Names, Owned(n)', secrets'[n].generation \in Nat
               PROVE  /\ secrets'[n].generation <= roles'[n].generation
                      /\ secrets'[n].generation = roles'[n].generation
                           => secrets'[n].arn = RoleARN(roles'[n].reference)
    BY DEF SecretBehindRole
  <2>1. CASE secrets'[n] = secrets[n]
    BY <1>4, <2>1 DEF SecretBehindRole, Owned, isOwnedReference
  <2>2. CASE Deletes(n)
    BY <2>2 DEF Deletes, Owned, NoSecret
  <2>3. CASE /\ Updates(n) \/ Creates(n)
             /\ secrets'[n].generation = roleSnap[n].generation
             /\ secrets'[n].arn = creds.arn
    <3>1. roles[n].uid # 0 /\ roleSnap[n].uid = roles[n].uid
      BY <1>3, <1>4, <2>3
      DEF Updates, Creates, Owned, isOwnedReference, ListedOwnerIsListed
    <3>2. creds.arn = RoleARN(roleSnap[n].reference)
      BY <2>3 DEF Updates, Creates, CredsOfListedRole
    <3> QED
      BY <1>4, <2>3, <3>1, <3>2 DEF ListedRoleIsOlder
  <2> QED
    BY <1>4, <2>1, <2>2, <2>3 DEF SecretWritten
<1>9. ListedOwnerIsListed'
  BY <1>2, <1>3, <1>4 DEF ListedOwnerIsListed
<1>10. ListedSecretBehindRole'
  BY <1>2, <1>3 DEF ListedSecretBehindRole, isOwnedReference
<1>11. CurrentSecretIsLive'
  BY <1>1, <1>2, <1>5 DEF ClusterEffect, CurrentSecretIsLive
<1>12. ListedSelected'
  <2> SUFFICES ASSUME NEW n \in Listed, n \notin retaken, secrets'[n].exists
               PROVE  Selected(secrets'[n].labels)
    BY <1>2, <1>5 DEF ListedSelected
  <2>1. n \in Names /\ ~NoSecret.exists
    BY DEF Listed, NoSecret
  <2> QED
    BY <1>4, <2>1 DEF ListedSelected, SecretWritten, Deletes
<1>13. WrittenSecretsStaySelected'
  <2>1. ~NoSecret.exists
    BY DEF NoSecret
  <2> QED
    BY <1>4, <2>1 DEF WrittenSecretsStaySelected, SecretWritten, Deletes
<1> QED
  BY <1>1, <1>6, <1>7, <1>8, <1>9, <1>10, <1>11, <1>12, <1>13
  DEF LocalEffect

\* Users, the garbage collector and the clock.
LEMMA ClusterKeepsRoundInv ==
  ASSUME RoundInv, ClusterStep, TypeOK'
  PROVE  RoundInv'
<1> USE DEF RoundInv
<1>1. /\ nextUID' \in {nextUID, nextUID + 1}
      /\ \A n \in Names : RoleMoves(n) /\ SecretMoves(n)
      /\ \A n \in currentSecrets' :
             n \in currentSecrets /\ secrets'[n] = secrets[n]
      /\ retaken \subseteq retaken'
      /\ UNCHANGED <<pc, secretSnap, roleSnap, orphans, todo, cur, creds>>
  BY ClusterStepEffect
<1>2. Listed' = Listed
  BY <1>1 DEF Listed
<1>3. /\ ~NoSecret.exists
      /\ NoSecret.owner = 0
  BY DEF NoSecret
<1>4. \A n \in Names : /\ roles[n].uid \in Nat /\ roles[n].generation \in Nat
                       /\ roles'[n].generation \in Nat
                       /\ roleSnap[n].generation \in Nat
                       /\ nextUID \in Nat
  BY NumericFields DEF TypeOK, ClusterTypeOK, AWSIAMRole
<1>5. \A n \in Names : /\ roles[n].uid < nextUID
                       /\ roleSnap[n].uid < nextUID
                       /\ secrets[n].owner < nextUID
                       /\ secretSnap[n].owner < nextUID
  BY DEF UIDsAreOld
<1>6. UIDsAreOld'
  BY <1>1, <1>3, <1>4, <1>5, NumericFields
  DEF UIDsAreOld, RoleMoves, SecretMoves
<1>7. ListedRoleIsOlder'
  BY <1>1, <1>4, <1>5 DEF ListedRoleIsOlder, RoleMoves
\* Nobody else makes a role own a secret that holds credentials.
<1>8. ASSUME NEW n \in Names, Owned(n)', secrets'[n].generation \in Nat
      PROVE  /\ Owned(n)
             /\ secrets'[n].generation = secrets[n].generation
             /\ secrets'[n].arn = secrets[n].arn
             /\ roles'[n].uid = roles[n].uid
  <2>1. SecretMoves(n) /\ RoleMoves(n)
    BY <1>1
  <2>2. /\ secrets'[n].exists = secrets[n].exists
        /\ secrets'[n].owner = secrets[n].owner
        /\ secrets'[n].arn = secrets[n].arn
        /\ secrets'[n].generation = secrets[n].generation
    BY <1>3, <1>8, <2>1, ClusterAssumption DEF SecretMoves, Owned
  <2>3. roles'[n].uid # nextUID
    BY <1>5, <1>4, <1>8, <2>2, NumericFields DEF Owned, isOwnedReference
  <2> QED
    BY <1>8, <2>1, <2>2, <2>3 DEF RoleMoves, Owned, isOwnedReference
<1>9. SecretBehindRole'
  <2> SUFFICES ASSUME NEW n \in Names, Owned(n)', secrets'[n].generation \in Nat
               PROVE  /\ secrets'[n].generation <= roles'[n].generation
                      /\ secrets'[n].generation = roles'[n].generation
                           => secrets'[n].arn = RoleARN(roles'[n].reference)
    BY DEF SecretBehindRole
  <2>1. /\ Owned(n)
        /\ secrets'[n].generation = secrets[n].generation
        /\ secrets'[n].arn = secrets[n].arn
        /\ roles'[n].uid = roles[n].uid
    BY <1>8
  <2>2. /\ roles'[n].generation >= roles[n].generation
        /\ roles'[n].generation = roles[n].generation
             => roles'[n].reference = roles[n].reference
    BY <1>1, <1>5, <1>4, <2>1 DEF RoleMoves, Owned, isOwnedReference
  <2> QED
    BY <1>4, <2>1, <2>2 DEF SecretBehindRole
<1>10. ListedOwnerIsListed'
  BY <1>1, <1>4, <1>5, NumericFields DEF ListedOwnerIsListed, RoleMoves
<1>11. ListedSecretBehindRole'
  <2>1. CASE pc # "listed"
    BY <1>1, <2>1 DEF ListedSecretBehindRole, isOwnedReference
  <2>2. CASE pc = "listed"
    <3> SUFFICES ASSUME NEW n \in Names, roles'[n].uid # 0,
                        secretSnap[n].owner = roles'[n].uid,
                        secretSnap[n].generation \in Nat
                 PROVE  secretSnap[n].generation <= roles'[n].generation
      BY <1>1, <2>2 DEF ListedSecretBehindRole, isOwnedReference
    <3>1. /\ roles'[n].uid = roles[n].uid
          /\ roles'[n].generation >= roles[n].generation
      BY <1>1, <1>4, <1>5, NumericFields DEF RoleMoves
    <3> QED
      BY <1>4, <2>2, <3>1 DEF ListedSecretBehindRole, isOwnedReference
  <2> QED
    BY <2>1, <2>2
<1>12. CredsOfListedRole'
  BY <1>1 DEF CredsOfListedRole
<1>13. LoopsVisitListed'
  BY <1>1, <1>2 DEF LoopsVisitListed
<1>14. CurrentSecretIsLive'
  BY <1>1, <1>2 DEF CurrentSecretIsLive
<1>15. ListedSelected'
  <2> SUFFICES ASSUME NEW n \in Listed, n \notin retaken', secrets'[n].exists
               PROVE  Selected(secrets'[n].labels)
    BY <1>1, <1>2 DEF ListedSelected
  <2>1. n \in Names /\ SecretMoves(n) /\ n \notin retaken
    BY <1>1 DEF Listed
  <2> QED
    BY <1>3, <2>1 DEF ListedSelected, SecretMoves
<1>16. WrittenSecretsStaySelected'
  BY <1>1, <1>3 DEF WrittenSecretsStaySelected, SecretMoves
<1> QED
  BY <1>6, <1>7, <1>9, <1>10, <1>11, <1>12, <1>13, <1>14, <1>15, <1>16

\* The end of a round, however it ends: nothing listed survives it.
LEMMA ResetKeepsRoundInv ==
  ASSUME RoundInv, ResetLocals, UNCHANGED clusterVars, TypeOK'
  PROVE  RoundInv'
<1> USE DEF RoundInv
<1>1. /\ pc' = "idle" /\ currentSecrets' = {}
      /\ UNCHANGED <<roles, secrets, nextUID>>
  BY DEF ResetLocals, clusterVars
<1>2. \A n \in Names : /\ secretSnap'[n].exists = FALSE
                       /\ secretSnap'[n].owner = 0
                       /\ roleSnap'[n].uid = 0
  BY DEF ResetLocals, NoSecret, NoRole
<1>3. Listed' = {}
  BY <1>2 DEF Listed
<1>4. nextUID \in Nat \ {0}
  BY DEF TypeOK, ClusterTypeOK
<1>5. UIDsAreOld'
  BY <1>1, <1>2, <1>4 DEF UIDsAreOld
<1>6. ListedRoleIsOlder'
  BY <1>2 DEF ListedRoleIsOlder
<1>7. SecretBehindRole' /\ WrittenSecretsStaySelected'
  BY <1>1 DEF SecretBehindRole, WrittenSecretsStaySelected, Owned
<1>8. ListedOwnerIsListed' /\ CredsOfListedRole'
  BY <1>1 DEF ListedOwnerIsListed, CredsOfListedRole
<1>9. ListedSecretBehindRole'
  BY <1>1, <1>2 DEF ListedSecretBehindRole, isOwnedReference
<1>10. LoopsVisitListed' /\ CurrentSecretIsLive' /\ ListedSelected'
  BY <1>1, <1>3 DEF LoopsVisitListed, CurrentSecretIsLive, ListedSelected
<1> QED
  BY <1>5, <1>6, <1>7, <1>8, <1>9, <1>10

LEMMA StutterKeepsRoundInv ==
  ASSUME RoundInv, UNCHANGED <<clusterVars, localVars>>, TypeOK'
  PROVE  RoundInv'
BY DEF RoundInv, clusterVars, localVars, snapVars, UIDsAreOld, ListedRoleIsOlder,
       SecretBehindRole, ListedOwnerIsListed, ListedSecretBehindRole,
       CredsOfListedRole, LoopsVisitListed, CurrentSecretIsLive,
       ListedSelected, WrittenSecretsStaySelected, Listed, Owned

\* The first List call: what it returns is live.
LEMMA ListSecretsKeepsRoundInv ==
  ASSUME RoundInv, ListSecrets, TypeOK'
  PROVE  RoundInv'
<1> USE DEF RoundInv
<1>1. UNCHANGED <<clusterVars, roleSnap, orphans, todo, cur, creds>>
  BY DEF ListSecrets, Lists
<1>2. CASE UNCHANGED <<pc, secretSnap, currentSecrets, retaken>>
  BY <1>2, StutterKeepsRoundInv DEF ListSecrets, Lists, localVars, snapVars
<1>3. CASE /\ pc' = "listed"
           /\ secretSnap' = [n \in Names |->
                 IF secrets[n].exists /\ Selected(secrets[n].labels)
                 THEN secrets[n] ELSE NoSecret]
  <2>1. UNCHANGED <<roles, secrets, nextUID>>
    BY <1>1 DEF clusterVars
  <2>2. ~NoSecret.exists /\ NoSecret.owner = 0
    BY DEF NoSecret
  <2>3. \A n \in Names :
           IF secrets[n].exists /\ Selected(secrets[n].labels)
           THEN secretSnap'[n] = secrets[n] ELSE secretSnap'[n] = NoSecret
    BY <1>3
  <2>4. \A n \in Listed' : /\ n \in Names /\ secretSnap'[n] = secrets[n]
                           /\ secrets[n].exists
                           /\ Selected(secrets[n].labels)
    BY <2>2, <2>3 DEF Listed
  <2>5. UIDsAreOld'
    <3>1. nextUID \in Nat \ {0}
      BY DEF TypeOK, ClusterTypeOK
    <3> QED
      BY <1>1, <2>1, <2>2, <2>3, <3>1 DEF UIDsAreOld
  <2>6. ListedRoleIsOlder'
    BY <1>1, <2>1 DEF ListedRoleIsOlder
  <2>7. SecretBehindRole' /\ WrittenSecretsStaySelected'
    BY <2>1 DEF SecretBehindRole, WrittenSecretsStaySelected, Owned
  <2>8. ListedOwnerIsListed' /\ CredsOfListedRole' /\ LoopsVisitListed'
    BY <1>3 DEF ListedOwnerIsListed, CredsOfListedRole, LoopsVisitListed
  <2>9. ListedSecretBehindRole'
    <3> SUFFICES ASSUME NEW n \in Names, roles[n].uid # 0,
                        secretSnap'[n].owner = roles[n].uid,
                        secretSnap'[n].generation \in Nat
                 PROVE  secretSnap'[n].generation <= roles[n].generation
      BY <1>3, <2>1 DEF ListedSecretBehindRole, isOwnedReference
    <3>1. secretSnap'[n] = secrets[n] /\ secrets[n].exists
      BY <2>2, <2>3
    <3> QED
      BY <3>1 DEF SecretBehindRole, Owned, isOwnedReference
  <2>10. CurrentSecretIsLive' /\ ListedSelected'
    BY <1>3, <2>1, <2>4 DEF CurrentSecretIsLive, ListedSelected
  <2> QED
    BY <2>5, <2>6, <2>7, <2>8, <2>9, <2>10
<1> QED
  BY <1>2, <1>3 DEF ListSecrets, Lists

\* The second List call: roles are listed after secrets.
LEMMA ListRolesKeepsRoundInv ==
  ASSUME RoundInv, pc = "listed", ListRolesOK, UNCHANGED clusterVars, TypeOK'
  PROVE  RoundInv'
<1> USE DEF RoundInv
<1>1. /\ pc' = "refresh"
      /\ roleSnap' = roles
      /\ orphans' = {n \in Listed : ~isOwnedReference(roles[n], secretSnap[n])}
      /\ todo' \subseteq Listed
      /\ UNCHANGED <<secretSnap, retaken, currentSecrets, cur, creds>>
      /\ UNCHANGED <<roles, secrets, nextUID>>
  BY DEF ListRolesOK, Orphaned, clusterVars
<1>2. Listed' = Listed
  BY <1>1 DEF Listed
<1>3. UIDsAreOld'
  BY <1>1 DEF UIDsAreOld
<1>4. ListedRoleIsOlder'
  BY <1>1, NumericFields DEF ListedRoleIsOlder
<1>5. SecretBehindRole' /\ WrittenSecretsStaySelected'
  BY <1>1 DEF SecretBehindRole, WrittenSecretsStaySelected, Owned
<1>6. ListedOwnerIsListed'
  BY <1>1 DEF ListedOwnerIsListed
<1>7. ListedSecretBehindRole'
  BY <1>1 DEF ListedSecretBehindRole, isOwnedReference
<1>8. CredsOfListedRole' /\ CurrentSecretIsLive' /\ ListedSelected'
  BY <1>1, <1>2 DEF CredsOfListedRole, CurrentSecretIsLive, ListedSelected
<1>9. LoopsVisitListed'
  BY <1>1, <1>2 DEF LoopsVisitListed
<1> QED
  BY <1>3, <1>4, <1>5, <1>6, <1>7, <1>8, <1>9

LEMMA InitRoundInv ==
  ASSUME Init
  PROVE  RoundInv
<1>1. TypeOK
  BY InitTypeOK
<1>2. \A n \in Names : /\ roles[n].uid = 0 /\ roleSnap[n].uid = 0
                       /\ secretSnap[n].exists = FALSE
                       /\ secretSnap[n].owner = 0
  BY DEF Init, ClusterInit, NoRole, NoSecret
<1>3. \A n \in Names : secrets[n].owner = 0 /\ secrets[n].arn = Absent
  <2>1. NoSecret.owner = 0 /\ NoSecret.arn = Absent
    BY DEF NoSecret
  <2>2. ForeignSecret.owner = 0 /\ ForeignSecret.arn = Absent
    BY DEF ForeignSecret, NoSecret
  <2>3. UnownedSecret.owner = 0 /\ UnownedSecret.arn = Absent
    BY DEF UnownedSecret, ForeignSecret, NoSecret
  <2> QED
    BY <2>1, <2>2, <2>3 DEF Init, ClusterInit
<1>4. nextUID = 1 /\ pc = "idle" /\ currentSecrets = {}
  BY DEF Init, ClusterInit
<1>5. Listed = {}
  BY <1>2 DEF Listed
<1> QED
  BY <1>1, <1>2, <1>3, <1>4, <1>5
  DEF RoundInv, UIDsAreOld, ListedRoleIsOlder, SecretBehindRole,
      ListedOwnerIsListed, ListedSecretBehindRole, CredsOfListedRole,
      LoopsVisitListed, CurrentSecretIsLive, ListedSelected,
      WrittenSecretsStaySelected, Owned, isOwnedReference

\* A round's own steps keep RoundInv.
LEMMA ControllerKeepsRoundInv ==
  ASSUME RoundInv, ControllerStep
  PROVE  RoundInv'
<1>1. TypeOK'
  BY TypeInductive DEF RoundInv, Next
<1>2. CASE ListSecrets
  BY <1>1, <1>2, ListSecretsKeepsRoundInv
<1>3. CASE ListRoles
  BY <1>1, <1>3, ListRolesKeepsRoundInv, ResetKeepsRoundInv DEF ListRoles
<1>4. CASE WorkStep
  BY <1>1, <1>4, WorkKeepsRoundInv
<1>5. CASE RoundEnd
  BY <1>1, <1>5, ResetKeepsRoundInv, RoundEndResets
<1> QED
  BY <1>2, <1>3, <1>4, <1>5 DEF ControllerStep, WorkStep, RoundEnd

\* RoundInv is inductive.
LEMMA RoundInvInductive ==
  ASSUME RoundInv, [Next]_vars
  PROVE  RoundInv'
<1>1. TypeOK'
  BY TypeInductive DEF RoundInv
<1>2. CASE ControllerStep
  BY <1>2, ControllerKeepsRoundInv
<1>3. CASE Crash
  BY <1>1, <1>3, ResetKeepsRoundInv DEF Crash
<1>4. CASE ClusterStep
  BY <1>1, <1>4, ClusterKeepsRoundInv
<1>5. CASE UNCHANGED vars
  BY <1>1, <1>5, StutterKeepsRoundInv DEF vars
<1> QED
  BY <1>2, <1>3, <1>4, <1>5 DEF Next

-----------------------------------------------------------------------------
(* Orphans: with RoundInv, what the second loop is about to delete stays   *)
(* without an owner.                                                       *)

\* An Update under the live version keeps the owner.
LEMMA UpdateOfLive ==
  ASSUME RoundInv, NEW n \in Names, Updates(n)
  PROVE  /\ n \in Listed
         /\ secrets[n] = secretSnap[n]
         /\ secrets'[n].exists
         /\ secrets'[n].exists = secrets[n].exists
         /\ secrets'[n].owner = secrets[n].owner
BY DEF RoundInv, Updates, LoopsVisitListed, CurrentSecretIsLive, Listed

LEMMA WorkKeepsOrphans ==
  ASSUME IInv, WorkStep
  PROVE  OrphansStayOrphans'
<1> USE DEF IInv
<1>1. ClusterEffect /\ LocalEffect
  BY WorkClusterEffect, WorkLocalEffect DEF RoundInv
<1>2. UNCHANGED <<secretSnap, roleSnap, retaken, nextUID, orphans>>
  BY <1>1 DEF ClusterEffect
<1>3. pc' \notin {"idle", "listed"}
  BY <1>1 DEF LocalEffect
<1>4. \A n \in Names : roles'[n].uid = roles[n].uid /\ SecretWritten(n)
  BY <1>1 DEF ClusterEffect
<1> SUFFICES /\ pc' \in Refreshing => \A n \in orphans \ retaken : ~Owned(n)'
             /\ pc' = "cleanup" =>
                   /\ todo' \subseteq orphans
                   /\ \A n \in todo' \ retaken : ~Owned(n)'
  BY <1>2, <1>3 DEF OrphansStayOrphans, Refreshing
<1>5. ASSUME NEW n \in Names, pc # "create", ~Owned(n)
      PROVE  ~Owned(n)'
  <2>1. ~NoSecret.exists
    BY DEF NoSecret
  <2>2. Updates(n) => /\ secrets'[n].exists = secrets[n].exists
                      /\ secrets'[n].owner = secrets[n].owner
    BY UpdateOfLive
  <2> QED
    BY <1>4, <1>5, <2>1, <2>2
    DEF SecretWritten, Creates, Deletes, Owned, isOwnedReference
<1>6. orphans \subseteq Names /\ todo \subseteq Names
  BY DEF RoundInv, TypeOK
<1>7. pc' \in Refreshing => pc \in Refreshing
  BY <1>1 DEF LocalEffect
<1>8. pc' = "cleanup" => \/ pc = "cleanup" /\ todo' \subseteq todo
                         \/ pc \in Refreshing /\ todo' = orphans
  BY <1>1 DEF LocalEffect
<1> QED
  BY <1>5, <1>6, <1>7, <1>8 DEF OrphansStayOrphans, Refreshing

LEMMA ClusterKeepsOrphans ==
  ASSUME IInv, ClusterStep, TypeOK'
  PROVE  OrphansStayOrphans'
<1> USE DEF IInv
<1>1. /\ nextUID' \in {nextUID, nextUID + 1}
      /\ \A n \in Names : RoleMoves(n) /\ SecretMoves(n)
      /\ retaken \subseteq retaken'
      /\ UNCHANGED <<pc, secretSnap, roleSnap, orphans, todo, cur, creds>>
  BY ClusterStepEffect DEF RoundInv
<1>2. Listed' = Listed
  BY <1>1 DEF Listed
<1>3. ~NoSecret.exists
  BY DEF NoSecret
<1>4. \A n \in Names : /\ roles[n].uid < nextUID
                       /\ secrets[n].owner < nextUID
  BY DEF RoundInv, UIDsAreOld
<1>5. ASSUME NEW n \in Listed \ retaken', secrets'[n].exists
      PROVE  secrets[n].exists /\ secrets'[n].owner = secrets[n].owner
  BY <1>1, <1>3, <1>5 DEF SecretMoves, Listed
<1>6. ASSUME NEW n \in Listed \ retaken', ~Owned(n)
      PROVE  ~Owned(n)'
  BY <1>1, <1>4, <1>5, <1>6, NumericFields
  DEF RoleMoves, Owned, isOwnedReference, RoundInv, Listed
<1>7. /\ pc \in Refreshing => orphans \subseteq Listed
      /\ pc = "cleanup" => todo \subseteq Listed
  BY DEF RoundInv, LoopsVisitListed, Refreshing
<1>8. pc = "listed" =>
         \A n \in Listed \ retaken' :
             secrets'[n].exists => secrets'[n].owner = secretSnap[n].owner
  BY <1>1, <1>5 DEF OrphansStayOrphans
<1>9. pc \in Refreshing => \A n \in orphans \ retaken' : ~Owned(n)'
  BY <1>1, <1>6, <1>7 DEF OrphansStayOrphans, Refreshing
<1>10. pc = "cleanup" => /\ todo \subseteq orphans
                         /\ \A n \in todo \ retaken' : ~Owned(n)'
  BY <1>1, <1>6, <1>7 DEF OrphansStayOrphans
<1> QED
  BY <1>1, <1>2, <1>8, <1>9, <1>10 DEF OrphansStayOrphans, Refreshing

LEMMA InitIInv ==
  ASSUME Init
  PROVE  IInv
BY InitRoundInv DEF IInv, Init, OrphansStayOrphans

\* IInv is inductive.
LEMMA IInvInductive ==
  ASSUME IInv, [Next]_vars
  PROVE  IInv'
<1> USE DEF IInv
<1>1. RoundInv' /\ TypeOK'
  BY RoundInvInductive DEF RoundInv
<1>2. CASE ListSecrets
  <2>1. CASE pc' = "idle"
    BY <1>1, <2>1 DEF OrphansStayOrphans
  <2>2. CASE /\ pc' = "listed"
             /\ secretSnap' = [n \in Names |->
                   IF Lists(secrets[n]) THEN secrets[n] ELSE NoSecret]
    <3>1. \A n \in Listed' : secretSnap'[n] = secrets[n]
      BY <2>2 DEF Listed, NoSecret
    <3>2. secrets' = secrets
      BY <1>2 DEF ListSecrets, clusterVars
    <3> QED
      BY <1>1, <2>2, <3>1, <3>2 DEF OrphansStayOrphans
  <2> QED
    BY <1>2, <2>1, <2>2 DEF ListSecrets
<1>3. CASE ListRoles /\ ListRolesOK
  <2>1. /\ pc' = "refresh"
        /\ orphans' = {n \in Listed : ~isOwnedReference(roles[n],
                                                        secretSnap[n])}
        /\ UNCHANGED <<roles, secrets, secretSnap, retaken>>
        /\ pc = "listed"
    BY <1>3 DEF ListRoles, ListRolesOK, Orphaned, clusterVars
  <2> QED
    BY <1>1, <2>1 DEF OrphansStayOrphans, Owned, isOwnedReference
<1>4. CASE WorkStep
  BY <1>1, <1>4, WorkKeepsOrphans
<1>5. CASE ResetLocals
  BY <1>1, <1>5 DEF ResetLocals, OrphansStayOrphans
<1>6. CASE ClusterStep
  BY <1>1, <1>6, ClusterKeepsOrphans
<1>7. CASE UNCHANGED vars
  BY <1>1, <1>7
  DEF vars, clusterVars, localVars, snapVars, OrphansStayOrphans, Listed, Owned
<1> QED
  BY <1>2, <1>3, <1>4, <1>5, <1>6, <1>7, RoundEndResets
  DEF Next, ControllerStep, WorkStep, ListRoles, RoundEnd, Crash

\* The inductive invariant holds in every reachable state: no round, however its
\* lists age, goes wrong in any of the ways IInv names.
THEOREM IInvAlways == Spec => []IInv
<1>1. Init => IInv
  BY InitIInv
<1>2. IInv /\ [Next]_vars => IInv'
  BY IInvInductive
<1> QED
  BY <1>1, <1>2, PTL DEF Spec

-----------------------------------------------------------------------------
(* What a controller step does to a secret, from RoundInv alone.           *)

\* A secret that is owned by its role is left alone, deleted as an orphan, or
\* updated from the listed copy, which is the live one.
LEMMA OwnedSecretStep ==
  ASSUME RoundInv, ControllerStep, NEW n \in Names, Owned(n)
  PROVE  \/ secrets'[n] = secrets[n]
         \/ Deletes(n)
         \/ /\ Updates(n)
            /\ secrets[n] = secretSnap[n]
            /\ secrets'[n].exists
            /\ secrets'[n].generation = roleSnap[n].generation
<1>1. CASE ListSecrets \/ ListRoles \/ RoundEnd
  BY <1>1, RoundEndResets DEF ListSecrets, Lists, ListRoles, clusterVars
<1>2. CASE WorkStep
  <2>1. SecretWritten(n)
    BY <1>2, WorkClusterEffect DEF ClusterEffect, RoundInv
  <2>2. ~Creates(n)
    BY DEF Creates, Owned
  <2> QED
    BY <2>1, <2>2, UpdateOfLive DEF SecretWritten
<1> QED
  BY <1>1, <1>2 DEF ControllerStep, WorkStep, RoundEnd

\* Unless it is deleted, it does not fall back to an older generation.
LEMMA OwnedGenerationStep ==
  ASSUME RoundInv, ControllerStep, NEW n \in Names, Owned(n),
         secrets[n].generation \in Nat, secrets'[n].exists
  PROVE  /\ secrets'[n].generation \in Nat
         /\ secrets'[n].generation >= secrets[n].generation
<1>1. CASE secrets'[n] = secrets[n]
  BY <1>1
<1>2. CASE /\ Updates(n)
           /\ secrets[n] = secretSnap[n]
           /\ secrets'[n].generation = roleSnap[n].generation
  <2>1. roleSnap[n].uid = roles[n].uid
    BY <1>2
    DEF RoundInv, ListedOwnerIsListed, Owned, isOwnedReference, Updates
  <2>2. secretSnap[n].generation <= roleSnap[n].generation
    BY <1>2, <2>1
    DEF RoundInv, ListedSecretBehindRole, Owned, isOwnedReference, Updates
  <2>3. roleSnap[n].generation \in Nat
    BY NumericFields DEF RoundInv
  <2> QED
    BY <1>2, <2>2, <2>3
<1>3. ~Deletes(n)
  BY DEF Deletes, NoSecret
<1> QED
  BY <1>1, <1>2, <1>3, OwnedSecretStep

\* A secret without the controller's labels is left alone, or deleted in the
\* place of the orphan that had its name.
LEMMA ForeignSecretStep ==
  ASSUME IInv, ControllerStep, NEW n \in Names, Foreign(n)
  PROVE  \/ secrets'[n] = secrets[n]
         \/ n \in retaken \cap orphans /\ secrets'[n] = NoSecret
<1> USE DEF IInv, RoundInv
<1>1. CASE ListSecrets \/ ListRoles \/ RoundEnd
  BY <1>1, RoundEndResets DEF ListSecrets, Lists, ListRoles, clusterVars
<1>2. CASE WorkStep
  <2>1. SecretWritten(n)
    BY <1>2, WorkClusterEffect DEF ClusterEffect
  <2>2. n \in Listed => n \in retaken
    BY DEF ListedSelected, Foreign
  <2>3. Deletes(n) => n \in retaken \cap orphans
    BY <2>2 DEF Deletes, LoopsVisitListed, OrphansStayOrphans
  <2>4. ~Updates(n)
    BY UpdateOfLive DEF ListedSelected, Foreign
  <2>5. ~Creates(n)
    BY DEF Creates, Foreign
  <2> QED
    BY <2>1, <2>3, <2>4, <2>5 DEF SecretWritten, Deletes
<1> QED
  BY <1>1, <1>2 DEF ControllerStep, WorkStep, RoundEnd

-----------------------------------------------------------------------------
(* Two processes.  What one controller's step guarantees is all the other  *)
(* relies on.                                                              *)

\* How a controller's step leaves the objects for whoever else has listed
\* them.
Guarantee ==
    /\ nextUID' = nextUID
    /\ \A n \in Names : /\ roles'[n].uid = roles[n].uid
                        /\ roles'[n].generation = roles[n].generation
                        /\ roles'[n].reference = roles[n].reference
    /\ \A n \in Names : \/ secrets'[n] = secrets[n]
                        \/ secrets'[n] = NoSecret
                        \/ /\ Selected(secrets'[n].labels)
                           /\ secrets[n].exists
                                => secrets'[n].owner = secrets[n].owner
    /\ \A n \in Names : secrets'[n].owner < nextUID
    /\ SecretBehindRole'
    /\ WrittenSecretsStaySelected'

LEMMA ControllerGuarantees ==
  ASSUME RoundInv, ControllerStep
  PROVE  Guarantee
<1>1. RoundInv'
  BY ControllerKeepsRoundInv
<1>2. CASE ListSecrets \/ ListRoles \/ RoundEnd
  <2>1. UNCHANGED <<roles, secrets, nextUID>>
    BY <1>2, RoundEndResets DEF ListSecrets, ListRoles, clusterVars
  <2> QED
    BY <1>1, <2>1 DEF RoundInv, UIDsAreOld, Guarantee
<1>3. CASE WorkStep
  <2>1. ClusterEffect
    BY <1>3, WorkClusterEffect DEF RoundInv
  <2>2. \A n \in Names : \/ secrets'[n] = secrets[n]
                         \/ secrets'[n] = NoSecret
                         \/ /\ Selected(secrets'[n].labels)
                            /\ secrets[n].exists
                                 => secrets'[n].owner = secrets[n].owner
    BY <2>1, UpdateOfLive DEF ClusterEffect, SecretWritten, Deletes, Creates
  <2> QED
    BY <1>1, <2>1, <2>2 DEF RoundInv, UIDsAreOld, ClusterEffect, Guarantee
<1> QED
  BY <1>2, <1>3 DEF ControllerStep, WorkStep, RoundEnd

\* The guarantee of the other process is enough for this one's invariant.
LEMMA GuaranteeKeepsIInv ==
  ASSUME IInv, Guarantee, Observe, TypeOK'
  PROVE  IInv'
<1> USE DEF IInv, RoundInv
<1>1. /\ \A n \in currentSecrets' :
             n \in currentSecrets /\ secrets'[n] = secrets[n]
      /\ retaken \subseteq retaken'
      /\ \A n \in Listed : ~secrets[n].exists /\ secrets'[n].exists
                              => n \in retaken'
      /\ UNCHANGED <<pc, secretSnap, roleSnap, orphans, todo, cur, creds>>
  BY DEF Observe
<1>2. /\ nextUID' = nextUID
      /\ \A n \in Names : /\ roles'[n].uid = roles[n].uid
                          /\ roles'[n].generation = roles[n].generation
                          /\ roles'[n].reference = roles[n].reference
      /\ SecretBehindRole' /\ WrittenSecretsStaySelected'
  BY DEF Guarantee
<1>3. Listed' = Listed
  BY <1>1 DEF Listed
<1>4. UIDsAreOld'
  BY <1>1, <1>2 DEF UIDsAreOld, Guarantee
<1>5. ListedRoleIsOlder' /\ ListedOwnerIsListed'
  BY <1>1, <1>2 DEF ListedRoleIsOlder, ListedOwnerIsListed
<1>6. ListedSecretBehindRole'
  BY <1>1, <1>2 DEF ListedSecretBehindRole, isOwnedReference
<1>7. CredsOfListedRole' /\ LoopsVisitListed' /\ CurrentSecretIsLive'
  BY <1>1, <1>3 DEF CredsOfListedRole, LoopsVisitListed, CurrentSecretIsLive
<1>8. ListedSelected'
  BY <1>1, <1>3 DEF ListedSelected, Guarantee, NoSecret, Listed
<1>9. ASSUME NEW n \in Listed \ retaken', secrets'[n].exists
      PROVE  secrets[n].exists /\ secrets'[n].owner = secrets[n].owner
  BY <1>1, <1>9 DEF Guarantee, NoSecret, Listed
<1>10. ASSUME NEW n \in Listed \ retaken', ~Owned(n)
       PROVE  ~Owned(n)'
  BY <1>2, <1>9, <1>10 DEF Owned, isOwnedReference, Listed
<1>11. /\ pc \in Refreshing => orphans \subseteq Listed
       /\ pc = "cleanup" => todo \subseteq Listed
  BY DEF LoopsVisitListed, Refreshing
<1>12. pc = "listed" =>
          \A n \in Listed \ retaken' :
              secrets'[n].exists => secrets'[n].owner = secretSnap[n].owner
  BY <1>1, <1>9 DEF OrphansStayOrphans
<1>13. pc \in Refreshing => \A n \in orphans \ retaken' : ~Owned(n)'
  BY <1>1, <1>10, <1>11 DEF OrphansStayOrphans, Refreshing
<1>14. pc = "cleanup" => /\ todo \subseteq orphans
                         /\ \A n \in todo \ retaken' : ~Owned(n)'
  BY <1>1, <1>10, <1>11 DEF OrphansStayOrphans
<1>15. OrphansStayOrphans'
  BY <1>1, <1>3, <1>12, <1>13, <1>14 DEF OrphansStayOrphans, Refreshing
<1> QED
  BY <1>2, <1>4, <1>5, <1>6, <1>7, <1>8, <1>15

-----------------------------------------------------------------------------
(* The theorems. *)

LEMMA UpToDateSecretsByInv ==
  ASSUME RoundInv
  PROVE  UpToDateSecretHoldsReferencedRole
BY NumericFields
DEF RoundInv, SecretBehindRole, UpToDateSecretHoldsReferencedRole

\* refresh() never stamps a generation on credentials of another IAM role than
\* the one that generation of the AWSIAMRole refers to, although it reads the
\* role once and writes its secret up to three calls later.
THEOREM UpToDateSecrets == Spec => []UpToDateSecretHoldsReferencedRole
<1>1. IInv => UpToDateSecretHoldsReferencedRole
  BY UpToDateSecretsByInv DEF IInv
<1> QED
  BY <1>1, IInvAlways, PTL

\* Credentials the controller issued stay visible to its List selector,
\* whatever labels users give the AWSIAMRole (mergeLabels).
THEOREM WrittenSecretsSelected == Spec => []WrittenSecretsStaySelected
<1>1. IInv => WrittenSecretsStaySelected
  BY DEF IInv, RoundInv
<1> QED
  BY <1>1, IInvAlways, PTL

\* No secret of a live role is deleted while orphans stay orphans.
LEMMA OwnedSecretSurvives ==
  ASSUME IInv, ControllerStep, NEW n \in Names, Owned(n), n \notin retaken
  PROVE  secrets'[n].exists
<1>1. ~Deletes(n)
  BY DEF IInv, OrphansStayOrphans, Deletes
<1> QED
  BY <1>1, OwnedSecretStep DEF IInv, Owned

\* "clean up orphaned secrets": although Delete names the secret without a
\* precondition and the decision is as old as the two lists, the secret of a
\* live role is removed only if others have created it on the name of an orphan
\* since the List (run rolling_delete shows that case).  Roles and secrets may
\* be created, edited and deleted at any time.
THEOREM OnlyOrphansDeleted == Spec => DeletesOnlyOrphans
<1>1. IInv /\ [Next]_vars
         => [\A n \in Names :
               ControllerStep /\ Owned(n) /\ n \notin retaken
                 => secrets'[n].exists]_vars
  BY OwnedSecretSurvives
<1> QED
  BY <1>1, IInvAlways, PTL DEF Spec, DeletesOnlyOrphans

\* No step of a round that leaves a live role its secret replaces the
\* credentials in it by those of an older generation: the resourceVersion of
\* the listed secret and the order of the two List calls rule it out.
THEOREM GenerationsNeverRollBack == Spec => NoGenerationRollback
<1>0. IInv => RoundInv
  BY DEF IInv
<1>1. IInv /\ [Next]_vars
         => [\A n \in Names :
               ControllerStep /\ Owned(n) /\ secrets'[n].exists
               /\ secrets[n].generation \in Nat
                 => /\ secrets'[n].generation \in Nat
                    /\ secrets'[n].generation >= secrets[n].generation]_vars
  BY <1>0, OwnedGenerationStep
<1> QED
  BY <1>1, IInvAlways, PTL DEF Spec, NoGenerationRollback

\* A secret without the controller's labels is never overwritten, whenever it
\* was created, and is deleted only where it has taken the name of a listed
\* orphan after the List: the Delete at the end of the round names the secret
\* only.
THEOREM ForeignSecretsLeftAlone == Spec => ForeignSecretsUntouched
<1>1. IInv /\ [Next]_vars
         => [\A n \in Names :
               ControllerStep /\ Foreign(n)
                 => \/ secrets'[n] = secrets[n]
                    \/ n \in retaken \cap orphans /\ secrets'[n] = NoSecret]_vars
  BY ForeignSecretStep
<1> QED
  BY <1>1, IInvAlways, PTL DEF Spec, ForeignSecretsUntouched
=============================================================================
