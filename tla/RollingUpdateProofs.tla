------------------------ MODULE RollingUpdateProofs ------------------------
(***************************************************************************)
(* Theorems about RollingUpdate.  The argument is one of rely and          *)
(* guarantee: a controller's invariant relies on others only for           *)
(* Guarantee, and its own steps guarantee that to others, so neither       *)
(* process has to know where the other one is.                             *)
(***************************************************************************)
EXTENDS RollingUpdate, TLAPS

-----------------------------------------------------------------------------
(* Both instances speak of the same objects.                               *)

\* The constants of Cluster are shared, so its assumption holds in both.
LEMMA SameLabels ==
  /\ Old!Labels = Labels
  /\ New!Labels = Labels
BY DEF Labels, LabelKeys, LabelValues,
       Old!Labels, Old!LabelKeys, Old!LabelValues,
       New!Labels, New!LabelKeys, New!LabelValues

\* So are its variables: what one process finds well typed, the other does.
LEMMA SameTypes == Old!ClusterTypeOK' <=> New!ClusterTypeOK'
BY DEF Old!ClusterTypeOK, Old!AWSIAMRole, Old!Secret, Old!Status, Old!Stamps,
       Old!References, Old!Labels, Old!LabelKeys, Old!LabelValues,
       New!ClusterTypeOK, New!AWSIAMRole, New!Secret, New!Status, New!Stamps,
       New!References, New!Labels, New!LabelKeys, New!LabelValues

\* Who owns a secret and whose labels it has does not depend on who asks.
LEMMA SameObjects ==
  /\ Old!Guarantee <=> New!Guarantee
  /\ \A n \in Names : /\ Old!Owned(n) <=> New!Owned(n)
                      /\ Old!Foreign(n) <=> New!Foreign(n)
BY DEF Old!Guarantee, Old!SecretBehindRole, Old!WrittenSecretsStaySelected,
       Old!Owned, Old!Foreign, Old!isOwnedReference, Old!RoleARN,
       Old!Selected, Old!LabelKeys, Old!awsIAMRoleOwnerLabels,
       Old!NoSecret, Old!NoLabels,
       New!Guarantee, New!SecretBehindRole, New!WrittenSecretsStaySelected,
       New!Owned, New!Foreign, New!isOwnedReference, New!RoleARN,
       New!Selected, New!LabelKeys, New!awsIAMRoleOwnerLabels,
       New!NoSecret, New!NoLabels

-----------------------------------------------------------------------------
(* BothInv is inductive. *)

\* What the other process observes is well typed.
LEMMA ObserverTypes ==
  /\ Old!TypeOK /\ Old!Observe /\ New!TypeOK' => Old!TypeOK'
  /\ New!TypeOK /\ New!Observe /\ Old!TypeOK' => New!TypeOK'
BY SameTypes DEF Old!TypeOK, Old!Observe, Old!Listed,
                 New!TypeOK, New!Observe, New!Listed

\* A step of the old process keeps its own invariant and guarantees the new
\* one's.
LEMMA OldStepKeepsBothInv ==
  ASSUME BothInv, OldStep
  PROVE  BothInv'
<1> USE ClusterAssumption, RollingAssumption, SameLabels
<1>1. Old!IInv'
  BY Old!IInvInductive DEF BothInv, OldStep, Old!Next
<1>2. Old!Guarantee
  BY Old!ControllerGuarantees DEF BothInv, OldStep, Old!IInv
<1>3. New!TypeOK'
  BY <1>1, ObserverTypes
  DEF BothInv, OldStep, Old!IInv, New!IInv, Old!RoundInv, New!RoundInv
<1>4. New!IInv'
  BY <1>2, <1>3, SameObjects, New!GuaranteeKeepsIInv DEF BothInv, OldStep
<1> QED
  BY <1>1, <1>4 DEF BothInv

LEMMA NewStepKeepsBothInv ==
  ASSUME BothInv, NewStep
  PROVE  BothInv'
<1> USE ClusterAssumption, RollingAssumption, SameLabels
<1>1. New!IInv'
  BY New!IInvInductive DEF BothInv, NewStep, New!Next
<1>2. New!Guarantee
  BY New!ControllerGuarantees DEF BothInv, NewStep, New!IInv
<1>3. Old!TypeOK'
  BY <1>1, ObserverTypes
  DEF BothInv, NewStep, Old!IInv, New!IInv, Old!RoundInv, New!RoundInv
<1>4. Old!IInv'
  BY <1>2, <1>3, SameObjects, Old!GuaranteeKeepsIInv DEF BothInv, NewStep
<1> QED
  BY <1>1, <1>4 DEF BothInv

LEMMA InitBothInv ==
  ASSUME Init
  PROVE  BothInv
BY ClusterAssumption, RollingAssumption, SameLabels,
   Old!InitIInv, New!InitIInv
DEF Init, BothInv

LEMMA BothInvInductive ==
  ASSUME BothInv, [Next]_vars
  PROVE  BothInv'
<1> USE ClusterAssumption, RollingAssumption, SameLabels
<1>1. CASE OthersStep
  BY <1>1, Old!IInvInductive, New!IInvInductive
  DEF OthersStep, BothInv, Old!Next, New!Next
<1>2. CASE UNCHANGED vars
  BY <1>2, Old!IInvInductive, New!IInvInductive DEF vars, BothInv
<1> QED
  BY <1>1, <1>2, OldStepKeepsBothInv, NewStepKeepsBothInv DEF Next

\* Two processes on the same objects, each deciding on lists of its own, keep
\* each other's invariants: the loops of refresh() need no leader election for
\* what IInv says.
THEOREM BothInvAlways == Spec => []BothInv
<1>1. Init => BothInv
  BY InitBothInv
<1>2. BothInv /\ [Next]_vars => BothInv'
  BY BothInvInductive
<1> QED
  BY <1>1, <1>2, PTL DEF Spec

\* What the lemmas about one process's step ask for.
LEMMA BothRoundInv ==
  ASSUME BothInv
  PROVE  Old!RoundInv /\ New!RoundInv
BY DEF BothInv, Old!IInv, New!IInv

-----------------------------------------------------------------------------
(* The theorems. *)

\* A secret stamped with the role's current generation holds credentials of the
\* IAM role that generation refers to, whichever process wrote it and whatever
\* the other one wrote in between.
THEOREM SharedSecrets == Spec => []SharedSecretHoldsReferencedRole
<1>1. BothInv => SharedSecretHoldsReferencedRole
  BY ClusterAssumption, RollingAssumption, SameLabels,
     BothRoundInv, New!UpToDateSecretsByInv
  DEF SharedSecretHoldsReferencedRole
<1> QED
  BY <1>1, BothInvAlways, PTL

\* A secret of a live role that survives a step of either process does not fall
\* back to an older generation: an Update goes through only under the listed
\* resourceVersion, also when it was the other process that wrote last.
THEOREM NoRollback == Spec => NoRollbackByTheOther
<1>1. ASSUME BothInv, NEW n \in Names, OldStep \/ NewStep, New!Owned(n),
             secrets'[n].exists, secrets[n].generation \in Nat
      PROVE  /\ secrets'[n].generation \in Nat
             /\ secrets'[n].generation >= secrets[n].generation
  <2> USE ClusterAssumption, RollingAssumption, SameLabels
  <2>1. CASE Old!ControllerStep
    BY <1>1, <2>1, BothRoundInv, SameObjects, Old!OwnedGenerationStep
  <2>2. CASE New!ControllerStep
    BY <1>1, <2>2, BothRoundInv, New!OwnedGenerationStep
  <2> QED
    BY <1>1, <2>1, <2>2 DEF OldStep, NewStep
<1>2. BothInv /\ [Next]_vars
         => [\A n \in Names :
               (OldStep \/ NewStep) /\ New!Owned(n) /\ secrets'[n].exists
               /\ secrets[n].generation \in Nat
                 => /\ secrets'[n].generation \in Nat
                    /\ secrets'[n].generation >= secrets[n].generation]_vars
  BY <1>1
<1> QED
  BY <1>2, BothInvAlways, PTL DEF Spec, NoRollbackByTheOther

\* Neither process overwrites a secret that lacks the controller's labels, and
\* one that deletes such a secret listed an orphan on its name and has had the
\* name taken since: whatever the other process leaves under a listed name has
\* the labels.
THEOREM ForeignSecretsLeftAlone == Spec => ForeignSecretsUntouchedByBoth
<1>1. ASSUME BothInv, NEW n \in Names, OldStep \/ NewStep, New!Foreign(n)
      PROVE  \/ secrets'[n] = secrets[n]
             \/ /\ \/ OldStep /\ n \in oldRetaken \cap oldOrphans
                   \/ NewStep /\ n \in newRetaken \cap newOrphans
                /\ secrets'[n] = NoSecret
  <2> USE ClusterAssumption, RollingAssumption, SameLabels
  <2>1. Old!NoSecret = NoSecret /\ New!NoSecret = NoSecret
    BY DEF NoSecret, NoLabels, LabelKeys,
           Old!NoSecret, Old!NoLabels, Old!LabelKeys,
           New!NoSecret, New!NoLabels, New!LabelKeys
  <2>2. CASE OldStep
    BY <1>1, <2>1, <2>2, SameObjects, Old!ForeignSecretStep
    DEF BothInv, OldStep
  <2>3. CASE NewStep
    BY <1>1, <2>1, <2>3, New!ForeignSecretStep DEF BothInv, NewStep
  <2> QED
    BY <1>1, <2>2, <2>3
<1>2. BothInv /\ [Next]_vars
         => [\A n \in Names :
               (OldStep \/ NewStep) /\ New!Foreign(n)
                 => \/ secrets'[n] = secrets[n]
                    \/ /\ \/ OldStep /\ n \in oldRetaken \cap oldOrphans
                          \/ NewStep /\ n \in newRetaken \cap newOrphans
                       /\ secrets'[n] = NoSecret]_vars
  BY <1>1
<1> QED
  BY <1>2, BothInvAlways, PTL DEF Spec, ForeignSecretsUntouchedByBoth

\* The secret of a live role falls to the Delete of a process only if it was
\* created after that process listed an orphan on its name; an Update by the
\* other process never makes it a victim.
THEOREM OnlyOrphansDeletedByBoth == Spec => BothDeleteOnlyOrphans
<1>1. ASSUME BothInv, NEW n \in Names, New!Owned(n)
      PROVE  /\ OldStep /\ n \notin oldRetaken => secrets'[n].exists
             /\ NewStep /\ n \notin newRetaken => secrets'[n].exists
  <2> USE ClusterAssumption, RollingAssumption, SameLabels
  <2>1. ASSUME OldStep, n \notin oldRetaken
        PROVE  secrets'[n].exists
    BY <1>1, <2>1, SameObjects, Old!OwnedSecretSurvives DEF BothInv, OldStep
  <2>2. ASSUME NewStep, n \notin newRetaken
        PROVE  secrets'[n].exists
    BY <1>1, <2>2, New!OwnedSecretSurvives DEF BothInv, NewStep
  <2> QED
    BY <2>1, <2>2
<1>2. BothInv /\ [Next]_vars
         => [\A n \in Names :
               New!Owned(n) =>
                 /\ OldStep /\ n \notin oldRetaken => secrets'[n].exists
                 /\ NewStep /\ n \notin newRetaken => secrets'[n].exists]_vars
  BY <1>1
<1> QED
  BY <1>2, BothInvAlways, PTL DEF Spec, BothDeleteOnlyOrphans
=============================================================================
