--------------------------- MODULE RollingUpdate ---------------------------
(***************************************************************************)
(* Two processes on one cluster, as while the Deployment is updated: the   *)
(* new pod is started before the old one is stopped, and nothing elects a  *)
(* leader.  Each runs rounds of AWSIAMRoleController on its own lists; for *)
(* each, the other is one more user of the API server.  The processes are  *)
(* instances of the module that proves AWSIAMRoleController correct, so    *)
(* its lemmas hold of each of them (RollingUpdateProofs).                  *)
(***************************************************************************)
EXTENDS Cluster

CONSTANTS RefreshLimit, DefaultSession, Trusted, TooDeep, MaxFaults,
          ManualSecretEdits

ASSUME RollingAssumption ==
    /\ RefreshLimit \in Nat
    /\ DefaultSession \in Nat
    /\ Trusted \subseteq ARNs
    /\ TooDeep \subseteq ARNs
    /\ MaxFaults \in Nat
    /\ ManualSecretEdits \in BOOLEAN

VARIABLES
    oldPc, oldSecretSnap, oldRoleSnap, oldRetaken, oldCurrentSecrets,
    oldCurrentRoles, oldOrphans, oldTodo, oldCur, oldCreds, oldFaults,
    newPc, newSecretSnap, newRoleSnap, newRetaken, newCurrentSecrets,
    newCurrentRoles, newOrphans, newTodo, newCur, newCreds, newFaults

Old == INSTANCE AWSIAMRoleControllerProofs WITH
    pc <- oldPc, secretSnap <- oldSecretSnap, roleSnap <- oldRoleSnap,
    retaken <- oldRetaken, currentSecrets <- oldCurrentSecrets,
    currentRoles <- oldCurrentRoles, orphans <- oldOrphans, todo <- oldTodo,
    cur <- oldCur, creds <- oldCreds, faults <- oldFaults

New == INSTANCE AWSIAMRoleControllerProofs WITH
    pc <- newPc, secretSnap <- newSecretSnap, roleSnap <- newRoleSnap,
    retaken <- newRetaken, currentSecrets <- newCurrentSecrets,
    currentRoles <- newCurrentRoles, orphans <- newOrphans, todo <- newTodo,
    cur <- newCur, creds <- newCreds, faults <- newFaults

vars == <<Old!vars, New!vars>>

Init == Old!Init /\ New!Init

\* What one process writes makes the copies of the other out of date.
OldStep == Old!ControllerStep /\ New!Observe
NewStep == New!ControllerStep /\ Old!Observe

\* A step of anyone else is seen by both.
OthersStep == Old!ClusterStep /\ New!ClusterStep

Next == OldStep \/ NewStep \/ OthersStep

Spec == Init /\ [][Next]_vars

\* The old process may be stopped for good at any time; the new one runs on.
FairSpec ==
    /\ Spec
    /\ WF_vars(NewStep)
    /\ WF_vars(Old!Tick /\ Old!Observe /\ New!Observe)
-----------------------------------------------------------------------------
(* Properties *)

\* Two processes with lists of different age never leave a secret of the
\* role's current generation with credentials of another IAM role.
SharedSecretHoldsReferencedRole == New!UpToDateSecretHoldsReferencedRole

\* An Update computed by one process from an older spec never overwrites what
\* the other wrote for a newer one: the resourceVersion of the listed secret
\* refuses it.
NoRollbackByTheOther ==
    [][\A n \in Names :
           (OldStep \/ NewStep) /\ New!Owned(n) /\ secrets'[n].exists
           /\ secrets[n].generation \in Nat
               => /\ secrets'[n].generation \in Nat
                  /\ secrets'[n].generation >= secrets[n].generation]_vars

\* Neither overwrites a secret that lacks the controller's labels.  It deletes
\* one only if that was created, after its List, on the name of an orphan it
\* listed; what the other process has done since makes no difference.
ForeignSecretsUntouchedByBoth ==
    [][\A n \in Names :
           (OldStep \/ NewStep) /\ New!Foreign(n)
               => \/ secrets'[n] = secrets[n]
                  \/ /\ \/ OldStep /\ n \in oldRetaken \cap oldOrphans
                        \/ NewStep /\ n \in newRetaken \cap newOrphans
                     /\ secrets'[n] = NoSecret]_vars

\* A process deletes the secret of a live role only if that was created after
\* its own List, by the other process or a user, on the name of an orphan that
\* is gone.  A secret the other merely refreshed is safe from it.
BothDeleteOnlyOrphans ==
    [][\A n \in Names :
           New!Owned(n) =>
               /\ OldStep /\ n \notin oldRetaken => secrets'[n].exists
               /\ NewStep /\ n \notin newRetaken => secrets'[n].exists]_vars

\* The invariant of each process's rounds survives the steps of the other.
BothInv == Old!IInv /\ New!IInv

\* Wherever the old process stops in its round, and whatever it deletes or
\* writes before, the new one ends up with every role served.
NewServesRoles == New!RolesGetServed

\* And with every orphan removed, those included that the old one creates for
\* a role that is gone by then.
NewRemovesOrphans == New!OrphansGetRemoved

\* "clean up orphaned secrets": neither process deletes the secret of a live
\* role.
NeitherDeletesOwned ==
    [][\A n \in Names :
           (OldStep \/ NewStep) /\ New!Owned(n) => secrets'[n].exists]_vars
=============================================================================
