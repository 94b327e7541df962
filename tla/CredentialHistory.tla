------------------------- MODULE CredentialHistory -------------------------
(***************************************************************************)
(* AWSIAMRoleController with a history variable: every version the roles   *)
(* of a name have been.  No step reads it.  With it the controller can be  *)
(* shown to implement IssuedCredentials, whose secrets hold credentials of *)
(* some version, although the controller itself forgets all lists at the   *)
(* end of a round.                                                         *)
(***************************************************************************)
EXTENDS AWSIAMRoleController

VARIABLE versions    \* history: the versions of the roles of each name

historyVars == <<vars, versions>>

\* What the controller makes credentials from, and stamps them with.
NoVersion == [uid |-> 0, generation |-> 0, arn |-> Absent]

Versions == [uid : Nat, generation : Nat, arn : ARNs]

Version(role) ==
    IF role.uid = 0 THEN NoVersion
    ELSE [uid |-> role.uid, generation |-> role.generation,
          arn |-> RoleARN(role.reference)]

HistoryInit ==
    /\ Init
    /\ versions = [n \in Names |-> {}]

Remember ==
    versions' = [n \in Names |->
                    versions[n] \cup
                        {v \in {Version(roles'[n])} : v # NoVersion}]

HistoryNext == Next /\ Remember

HistorySpec == HistoryInit /\ [][HistoryNext]_historyVars
-----------------------------------------------------------------------------
(* The refinement mapping. *)

LiveVersion == [n \in Names |-> Version(roles[n])]

\* A generation that is missing or does not parse is no generation.
Held(s) ==
    IF ~s.exists
    THEN [kind |-> "none", owner |-> 0, generation |-> Absent, arn |-> Absent]
    ELSE [kind       |-> IF Selected(s.labels) THEN "ours" ELSE "foreign",
          owner      |-> s.owner,
          generation |-> IF s.generation \in Nat THEN s.generation ELSE Absent,
          arn        |-> s.arn]

HeldSecrets == [n \in Names |-> Held(secrets[n])]

Promise == INSTANCE IssuedCredentials
           WITH None <- Absent, live <- LiveVersion, secret <- HeldSecrets

\* The controller, with everyone else who changes roles and secrets, does
\* nothing to a name but what IssuedCredentials says.
ImplementsIssuedCredentials == Promise!Spec

\* The Delete of the second loop, once the listed orphan is gone and others have
\* created a secret on its name: it names the secret only, and removes theirs.
DeletesRetaken ==
    \E n \in orphans \cap retaken : Promise!Put(n, Promise!Missing)

\* What IssuedCredentials lets others do, the controller never does: each of its
\* steps provides, replaces or removes one secret, on the terms stated there, or
\* leaves all roles and secrets as they are.  The one exception is a Delete that
\* comes too late, after others have taken the orphan's name.
ControllerKeepsPromise ==
    [][ControllerStep => \/ [Promise!Controller]_Promise!vars
                        \/ DeletesRetaken]_historyVars
-----------------------------------------------------------------------------
(* Properties *)

\* A generation and a role ARN that stand in one secret come from one version
\* of a role of that name, even when the role is long gone or another one has
\* its name: no interleaving of two rounds' worth of copies mixes two versions.
SecretsHoldAVersion ==
    \A n \in Names :
        secrets[n].exists /\ secrets[n].generation \in Nat
            => \E v \in versions[n] : /\ v.generation = secrets[n].generation
                                      /\ v.arn = secrets[n].arn

\* What a round lists of a role has been a version of it.
ListedVersionsAreKept ==
    \A n \in Names :
        /\ roles[n].uid # 0 => Version(roles[n]) \in versions[n]
        /\ roleSnap[n].uid # 0 => Version(roleSnap[n]) \in versions[n]

\* Credentials are only fetched for a listed role.
VisitsListedRoles ==
    /\ pc \notin {"idle", "listed", "cleanup"} =>
           \A n \in todo : roleSnap[n].uid # 0
    /\ pc \in {"refreshUpdate", "syncUpdate", "create"} =>
           roleSnap[cur].uid # 0

\* The inductive invariant, together with the controller's own.
HistoryInv ==
    /\ versions \in [Names -> SUBSET Versions]
    /\ ListedVersionsAreKept
    /\ VisitsListedRoles
    /\ SecretsHoldAVersion
=============================================================================
