------------------------------ MODULE Cluster ------------------------------
(***************************************************************************)
(* The Kubernetes objects the controllers read and write, and everyone     *)
(* else who changes them: users editing AWSIAMRole resources and secrets,  *)
(* the set_secret.sh bootstrap script, the garbage collector of the API    *)
(* server, and the clock.  The API server is not part of the repository;   *)
(* it is modelled from how the controllers use it.                         *)
(*                                                                         *)
(* A key of roles and secrets is a "namespace/name" pair.  A role with     *)
(* uid 0 does not exist; neither does a secret whose exists is FALSE.      *)
(***************************************************************************)
EXTENDS Naturals

CONSTANTS
    Names,             \* namespace/name keys
    ARNs,              \* full IAM role ARNs
    ShortNames,        \* IAM role names, resolved against the base role ARN
    BaseRoleARN,       \* what a short name resolves to
    Durations,         \* values of spec.roleSessionDuration, 0 when unset
    RoleLabels,        \* label maps users put on AWSIAMRole resources
    Absent, Malformed, \* a missing data key, and one that does not parse
    MaxUID,            \* bound: AWSIAMRole resources ever created
    MaxGeneration,     \* bound: spec edits of one resource
    MaxTime,           \* bound: the clock
    MaxEdits           \* bound: steps taken by users

References == ShortNames \cup ARNs

(***************************************************************************)
(* Labels.  Only the two keys the selectors look at matter.                *)
(***************************************************************************)
LabelKeys == {"heritage", "type"}
LabelValues == {"kube-aws-iam-controller", "awsiamrole", "other", "unset"}
Labels == [LabelKeys -> LabelValues]

NoLabels == [k \in LabelKeys |-> "unset"]

\* awsIAMRoleOwnerLabels: what the AWSIAMRole controller stamps on its
\* secrets and what its List selects.
awsIAMRoleOwnerLabels ==
    [k \in LabelKeys |-> IF k = "heritage" THEN "kube-aws-iam-controller"
                                           ELSE "awsiamrole"]

Stamps == Nat \cup {Absent, Malformed}

ASSUME ClusterAssumption ==
    /\ BaseRoleARN \in [ShortNames -> ARNs]
    /\ Durations \subseteq Nat
    /\ RoleLabels \subseteq Labels
    /\ Absent \notin Nat
    /\ Malformed \notin Nat
    /\ Absent # Malformed
    /\ Absent \notin ARNs
    /\ {MaxUID, MaxGeneration, MaxTime, MaxEdits} \subseteq Nat

VARIABLES
    roles,      \* the AWSIAMRole resources
    secrets,    \* the secrets
    nextUID,    \* UIDs are never reused
    now,        \* the wall clock
    edits       \* steps users may still take

clusterVars == <<roles, secrets, nextUID, now, edits>>

(***************************************************************************)
(* AWSIAMRole and the parts of v1.Secret the controllers use.  The data    *)
(* keys holding the credentials themselves are always written together     *)
(* with role-arn and expire, so arn and expire stand for them.             *)
(***************************************************************************)
Status == [observedGeneration : Nat,          \* 0 stands for nil
           roleARN            : ARNs \cup {Absent},
           expiration         : Nat \cup {Absent}]

NoStatus ==
    [observedGeneration |-> 0, roleARN |-> Absent, expiration |-> Absent]

AWSIAMRole == [uid        : Nat,
               generation : Nat,
               reference  : References \cup {Absent},
               duration   : Nat,
               labels     : Labels,
               status     : Status]

NoRole == [uid |-> 0, generation |-> 0, reference |-> Absent, duration |-> 0,
           labels |-> NoLabels, status |-> NoStatus]

Secret == [exists     : BOOLEAN,
           labels     : Labels,
           owner      : Nat,                  \* UID of the owning AWSIAMRole
           expire     : Stamps,
           arn        : ARNs \cup {Absent},
           generation : Stamps]

NoSecret == [exists |-> FALSE, labels |-> NoLabels, owner |-> 0,
             expire |-> Absent, arn |-> Absent, generation |-> Absent]

\* A secret that has nothing to do with the controller but sits on the name
\* of an AWSIAMRole.
ForeignSecret == [NoSecret EXCEPT !.exists = TRUE]

\* The "orphan" of TestRefreshAWSIAMRole: our labels, owned by nobody.
UnownedSecret == [ForeignSecret EXCEPT !.labels = awsIAMRoleOwnerLabels]

ClusterTypeOK ==
    /\ roles \in [Names -> AWSIAMRole]
    /\ secrets \in [Names -> Secret]
    /\ nextUID \in Nat \ {0}
    /\ now \in Nat
    /\ edits \in Nat

ClusterInit ==
    /\ roles = [n \in Names |-> NoRole]
    /\ secrets \in [Names -> {NoSecret, ForeignSecret, UnownedSecret}]
    /\ nextUID = 1
    /\ now = 0
    /\ edits = MaxEdits

-----------------------------------------------------------------------------
UserEdit ==
    /\ edits > 0
    /\ edits' = edits - 1
    /\ UNCHANGED now

CreateRole(n) ==
    /\ UserEdit
    /\ roles[n].uid = 0
    /\ nextUID <= MaxUID
    /\ \E ref \in References, d \in Durations, l \in RoleLabels :
         roles' = [roles EXCEPT ![n] =
                     [uid |-> nextUID, generation |-> 1, reference |-> ref,
                      duration |-> d, labels |-> l, status |-> NoStatus]]
    /\ nextUID' = nextUID + 1
    /\ UNCHANGED secrets

\* A change of the spec: the API server bumps metadata.generation.
EditSpec(n) ==
    /\ UserEdit
    /\ roles[n].uid # 0
    /\ roles[n].generation < MaxGeneration
    /\ \E ref \in References, d \in Durations :
         /\ <<ref, d>> # <<roles[n].reference, roles[n].duration>>
         /\ roles' = [roles EXCEPT ![n].reference = ref,
                                   ![n].duration = d,
                                   ![n].generation = @ + 1]
    /\ UNCHANGED <<secrets, nextUID>>

\* A change of metadata only: the resourceVersion moves, the generation does
\* not.
EditLabels(n) ==
    /\ UserEdit
    /\ roles[n].uid # 0
    /\ \E l \in RoleLabels \ {roles[n].labels} :
         roles' = [roles EXCEPT ![n].labels = l]
    /\ UNCHANGED <<secrets, nextUID>>

DeleteRole(n) ==
    /\ UserEdit
    /\ roles[n].uid # 0
    /\ roles' = [roles EXCEPT ![n] = NoRole]
    /\ UNCHANGED <<secrets, nextUID>>

\* scripts/set_secret.sh: a secret with our labels and owner reference, but
\* no expire, role-arn or generation key.
SeedSecret(n) ==
    /\ UserEdit
    /\ roles[n].uid # 0
    /\ ~secrets[n].exists
    /\ secrets' = [secrets EXCEPT ![n] =
                     [UnownedSecret EXCEPT !.owner = roles[n].uid]]
    /\ UNCHANGED <<roles, nextUID>>

\* Someone creates an unrelated secret on a free name.
CreateForeignSecret(n) ==
    /\ UserEdit
    /\ ~secrets[n].exists
    /\ secrets' = [secrets EXCEPT ![n] = ForeignSecret]
    /\ UNCHANGED <<roles, nextUID>>

\* Someone edits the data of a secret by hand.
TamperSecret(n) ==
    /\ UserEdit
    /\ secrets[n].exists
    /\ \E s \in {Absent, Malformed} :
         \/ secrets' = [secrets EXCEPT ![n].expire = s]
         \/ secrets' = [secrets EXCEPT ![n].generation = s]
    /\ UNCHANGED <<roles, nextUID>>

DeleteSecret(n) ==
    /\ UserEdit
    /\ secrets[n].exists
    /\ secrets' = [secrets EXCEPT ![n] = NoSecret]
    /\ UNCHANGED <<roles, nextUID>>

\* The API server removes dependents whose owner is gone.
CollectGarbage(n) ==
    /\ secrets[n].exists
    /\ secrets[n].owner # 0
    /\ secrets[n].owner # roles[n].uid
    /\ secrets' = [secrets EXCEPT ![n] = NoSecret]
    /\ UNCHANGED <<roles, nextUID, now, edits>>

Tick ==
    /\ now < MaxTime
    /\ now' = now + 1
    /\ UNCHANGED <<roles, secrets, nextUID, edits>>
=============================================================================
