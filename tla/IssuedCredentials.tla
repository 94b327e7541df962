------------------------- MODULE IssuedCredentials -------------------------
(***************************************************************************)
(* What the AWSIAMRole controller promises about the secrets on the names  *)
(* of AWSIAMRole resources.  There are no rounds, lists or calls here: a   *)
(* version is what a role was at some time, and a secret holds credentials *)
(* of one version, stamped with the generation of that same version.       *)
(***************************************************************************)
EXTENDS Naturals

CONSTANTS
    Names,   \* namespace/name keys
    ARNs,    \* IAM roles
    None     \* no credentials, and no generation

VARIABLES
    live,       \* the version each role is now
    versions,   \* every version the roles of a name have been
    secret,     \* the secrets
    nextUID     \* UIDs are never reused

vars == <<live, versions, secret, nextUID>>

NoVersion == [uid |-> 0, generation |-> 0, arn |-> None]

\* A secret without credentials that users make: with the controller's labels
\* ("ours") or without ("foreign"), or none at all.
Bare(kind, owner) ==
    [kind |-> kind, owner |-> owner, generation |-> None, arn |-> None]

Missing == Bare("none", 0)

Holding(owner, version) ==
    [kind |-> "ours", owner |-> owner,
     generation |-> version.generation, arn |-> version.arn]

Owned(n) ==
    /\ live[n].uid # 0
    /\ secret[n].kind # "none"
    /\ secret[n].owner = live[n].uid

Init ==
    /\ live = [n \in Names |-> NoVersion]
    /\ versions = [n \in Names |-> {}]
    /\ secret \in [Names -> {Missing, Bare("ours", 0), Bare("foreign", 0)}]
    /\ nextUID = 1

-----------------------------------------------------------------------------
(* Users and the API server. *)

Becomes(n, version) ==
    /\ live' = [live EXCEPT ![n] = version]
    /\ versions' = [versions EXCEPT ![n] = @ \cup {version}]
    /\ UNCHANGED secret

CreateRole(n) ==
    /\ live[n].uid = 0
    /\ \E a \in ARNs :
         Becomes(n, [uid |-> nextUID, generation |-> 1, arn |-> a])
    /\ nextUID' = nextUID + 1

EditRole(n) ==
    /\ live[n].uid # 0
    /\ \E a \in ARNs :
         Becomes(n, [uid |-> live[n].uid, generation |-> live[n].generation + 1,
                     arn |-> a])
    /\ UNCHANGED nextUID

DeleteRole(n) ==
    /\ live[n].uid # 0
    /\ live' = [live EXCEPT ![n] = NoVersion]
    /\ UNCHANGED <<versions, secret, nextUID>>

Put(n, s) ==
    /\ secret' = [secret EXCEPT ![n] = s]
    /\ UNCHANGED <<live, versions, nextUID>>

MakeSecret(n) ==
    /\ secret[n].kind = "none"
    /\ \E kind \in {"ours", "foreign"}, owner \in {0, live[n].uid} :
         Put(n, Bare(kind, owner))

LoseGeneration(n) ==
    /\ secret[n].kind # "none"
    /\ Put(n, [secret[n] EXCEPT !.generation = None])

LoseSecret(n) ==
    /\ secret[n].kind # "none"
    /\ Put(n, Missing)

Others ==
    \E n \in Names :
        \/ CreateRole(n)
        \/ EditRole(n)
        \/ DeleteRole(n)
        \/ MakeSecret(n)
        \/ LoseGeneration(n)
        \/ LoseSecret(n)

-----------------------------------------------------------------------------
(* The controller. *)

\* A free name gets credentials of a version the role has been, and that
\* version's role as their owner.
Provide(n) ==
    /\ secret[n].kind = "none"
    /\ \E v \in versions[n] : Put(n, Holding(v.uid, v))

\* A secret of the controller keeps its owner.  If that is the live role, the
\* new credentials are of a version of that role, and of none older than those
\* they replace.
Replace(n) ==
    /\ secret[n].kind = "ours"
    /\ \E v \in versions[n] :
         /\ Owned(n) => v.uid = secret[n].owner
         /\ Owned(n) /\ secret[n].generation # None
              => v.generation >= secret[n].generation
         /\ Put(n, Holding(secret[n].owner, v))

\* Only an orphan is removed.
Remove(n) ==
    /\ secret[n].kind = "ours"
    /\ ~Owned(n)
    /\ Put(n, Missing)

Controller ==
    \E n \in Names : Provide(n) \/ Replace(n) \/ Remove(n)

Next == Others \/ Controller

Spec == Init /\ [][Next]_vars
=============================================================================
