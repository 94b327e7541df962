----------------------- MODULE AWSIAMRoleController -----------------------
(***************************************************************************)
(* AWSIAMRoleController (awsiamrole_controller.go): one goroutine that     *)
(* lists secrets and AWSIAMRole resources, refreshes expiring credentials, *)
(* deletes orphaned secrets and creates or updates the others.             *)
(*                                                                         *)
(* Every call to the API server or to STS is a step of its own, so the     *)
(* cluster may change between any two of them.  pc names the place in      *)
(* refresh(): "idle" is the select of Run; "listed" is between the two     *)
(* List calls; "refresh", "cleanup" and "sync" are the heads of the three  *)
(* loops; the others are about to make the call they name.                 *)
(*                                                                         *)
(* Optimistic concurrency: an Update carries the resourceVersion of the    *)
(* listed object and is rejected when the object was written since.        *)
(* Instead of counting versions, currentSecrets and currentRoles hold the  *)
(* names whose listed copy still has the live version.  A Delete carries   *)
(* no version: it names the secret only.                                   *)
(***************************************************************************)
EXTENDS Cluster

CONSTANTS
    RefreshLimit,       \* --refresh-limit
    DefaultSession,     \* session duration when the spec leaves it unset
    Trusted,            \* ARNs whose trust policy lets the controller in
    TooDeep,            \* ARNs of so many levels that normalizePath panics
    MaxFaults,          \* bound: failed calls, lost answers and crashes
    ManualSecretEdits   \* do users edit or delete secrets by hand?

ASSUME ControllerAssumption ==
    /\ RefreshLimit \in Nat
    /\ DefaultSession \in Nat
    /\ Trusted \subseteq ARNs
    /\ TooDeep \subseteq ARNs
    /\ MaxFaults \in Nat
    /\ ManualSecretEdits \in BOOLEAN

VARIABLES
    pc,               \* where refresh() is
    secretSnap,       \* the listed secrets (secrets.Items, secretsMap)
    roleSnap,         \* the listed roles (awsIAMRoles.Items, awsIAMRolesMap)
    retaken,          \* history: listed names on which others have created a
                      \* secret since the List; no step reads it
    currentSecrets,   \* names whose listed secret is still the live version
    currentRoles,     \* names whose listed role is still the live version
    orphans,          \* orphanSecrets
    todo,             \* what the current loop has still to visit
    cur,              \* the item the current iteration is about
    creds,            \* what the iteration is about to write
    faults            \* failures that may still happen

snapVars == <<secretSnap, roleSnap, retaken>>
localVars == <<pc, snapVars, currentSecrets, currentRoles, orphans, todo, cur,
               creds>>
vars == <<clusterVars, localVars, faults>>

Credentials == [arn : ARNs \cup {Absent}, expire : Nat]
NoCreds == [arn |-> Absent, expire |-> 0]

Locations == {"idle", "listed", "refresh", "refreshUpdate", "refreshStatus",
              "cleanup", "sync", "syncUpdate", "syncStatus", "create"}

TypeOK ==
    /\ ClusterTypeOK
    /\ pc \in Locations
    /\ secretSnap \in [Names -> Secret]
    /\ roleSnap \in [Names -> AWSIAMRole]
    /\ retaken \subseteq Names
    /\ currentSecrets \subseteq Names
    /\ currentRoles \subseteq Names
    /\ orphans \subseteq Names
    /\ todo \subseteq Names
    /\ cur \in Names
    /\ creds \in Credentials
    /\ faults \in Nat

Init ==
    /\ ClusterInit
    /\ pc = "idle"
    /\ secretSnap = [n \in Names |-> NoSecret]
    /\ roleSnap = [n \in Names |-> NoRole]
    /\ retaken = {}
    /\ currentSecrets = {}
    /\ currentRoles = {}
    /\ orphans = {}
    /\ todo = {}
    /\ cur \in Names
    /\ creds = NoCreds
    /\ faults = MaxFaults

-----------------------------------------------------------------------------
(* Helpers of the source. *)

\* STSCredentialsGetter.Get resolves a bare name against the base role ARN and
\* takes a full ARN as it is.
RoleARN(ref) == IF ref \in ARNs THEN ref ELSE BaseRoleARN[ref]

roleSessionDuration(role) ==
    IF role.duration > 0 THEN role.duration ELSE DefaultSession

\* Wrong on purpose: the role's labels win.
BaseLabelsWin(base, additional) ==
    [k \in LabelKeys |-> IF base[k] # "unset" THEN base[k] ELSE additional[k]]

mergeLabels(base, additional) ==
    [k \in LabelKeys |-> IF additional[k] # "unset" THEN additional[k]
                                                    ELSE base[k]]

\* The selector of the List call.
Selected(labels) ==
    \A k \in LabelKeys : labels[k] = awsIAMRoleOwnerLabels[k]

isOwnedReference(role, secret) ==
    /\ role.uid # 0
    /\ secret.owner = role.uid

\* A missing or unparsable expiry, or one closer than the refresh limit.
refreshCreds(secret) ==
    secret.expire \in Nat => now + RefreshLimit > secret.expire

\* Defined for a generation key that parses; a missing key counts as 0.
getGeneration(secret) ==
    IF secret.generation = Absent THEN 0 ELSE secret.generation

\* Wrong on purpose: a status is written once and never brought up to date.
OnlyMissingStatus(role) == role.status.observedGeneration = 0

needsStatus(role) ==
    \/ role.status.observedGeneration = 0
    \/ role.status.observedGeneration # role.generation

\* What getCreds returns for a listed role: credentials of the referenced role
\* that expire one session from now.
getCreds(role) == [arn    |-> RoleARN(role.reference),
                   expire |-> now + roleSessionDuration(role)]

-----------------------------------------------------------------------------
(* Calls.  A call is answered ("ok"), refused without taking effect, or    *)
(* takes effect while the answer is lost (the client times out).  The last *)
(* two look the same to the caller.                                        *)

Answers == {"ok", "refused", "lost"}

Call(answer) ==
    /\ answer # "ok" => faults > 0
    /\ faults' = IF answer = "ok" THEN faults ELSE faults - 1

Applied(answer, admissible) == answer # "refused" /\ admissible
Succeeds(answer, admissible) == answer = "ok" /\ admissible

\* Get names the session after the role's path before it calls STS, and
\* normalizePath panics on one that is too deep (SessionName).
Panics(role) == RoleARN(role.reference) \in TooDeep

AssumeRole(role, answer) ==
    Succeeds(answer, RoleARN(role.reference) \in Trusted)

PutSecret(n, secret, applied) ==
    IF applied
    THEN /\ secrets' = [secrets EXCEPT ![n] = secret]
         /\ currentSecrets' = currentSecrets \ {n}
    ELSE UNCHANGED <<secrets, currentSecrets>>

PutStatus(n, status, applied) ==
    IF applied
    THEN /\ roles' = [roles EXCEPT ![n].status = status]
         /\ currentRoles' = currentRoles \ {n}
    ELSE UNCHANGED <<roles, currentRoles>>

\* Wrong on purpose: the generation is stamped on the role the secret had.
WithOldARN(secret, role, c) ==
    [secret EXCEPT !.labels = mergeLabels(role.labels, awsIAMRoleOwnerLabels),
                   !.expire = c.expire, !.generation = role.generation]

\* The data map and labels an Update writes over a listed secret.
WithCreds(secret, role, c) ==
    [secret EXCEPT !.labels = mergeLabels(role.labels, awsIAMRoleOwnerLabels),
                   !.expire = c.expire, !.arn = c.arn,
                   !.generation = role.generation]

NewStatus(role, c) == [observedGeneration |-> role.generation,
                       roleARN            |-> c.arn,
                       expiration         |-> c.expire]

ResetLocals ==
    /\ pc' = "idle"
    /\ secretSnap' = [n \in Names |-> NoSecret]
    /\ roleSnap' = [n \in Names |-> NoRole]
    /\ retaken' = {}
    /\ currentSecrets' = {}
    /\ currentRoles' = {}
    /\ orphans' = {}
    /\ todo' = {}
    /\ creds' = NoCreds
    /\ UNCHANGED cur

-----------------------------------------------------------------------------
(* The two List calls.  An error of either ends the round. *)

\* Wrong on purpose: the List has no selector.
ListsAll(secret) == secret.exists

Lists(secret) == secret.exists /\ Selected(secret.labels)

ListSecrets ==
    /\ pc = "idle"
    /\ \E answer \in {"ok", "refused"} :
         /\ Call(answer)
         /\ IF answer = "ok"
            THEN /\ pc' = "listed"
                 /\ secretSnap' = [n \in Names |->
                       IF Lists(secrets[n]) THEN secrets[n] ELSE NoSecret]
                 /\ currentSecrets' = Names
                 /\ retaken' = {}
            ELSE UNCHANGED <<pc, secretSnap, currentSecrets, retaken>>
    /\ UNCHANGED <<clusterVars, roleSnap, currentRoles, orphans, todo, cur,
                   creds>>

Listed == {n \in Names : secretSnap[n].exists}

\* Wrong on purpose: a role of the secret's name is taken for its owner.
NobodyOfThatName(role, secret) == role.uid = 0

Orphaned(role, secret) == ~isOwnedReference(role, secret)

\* Splits the listed secrets into those the first loop visits and orphans.
ListRolesOK ==
    LET orphaned == {n \in Listed : Orphaned(roles[n], secretSnap[n])}
    IN  /\ pc' = "refresh"
        /\ roleSnap' = roles
        /\ currentRoles' = Names
        /\ orphans' = orphaned
        /\ todo' = Listed \ orphaned
        /\ UNCHANGED <<secretSnap, retaken, currentSecrets, cur, creds>>

ListRoles ==
    /\ pc = "listed"
    /\ \E answer \in {"ok", "refused"} :
         /\ Call(answer)
         /\ IF answer = "ok" THEN ListRolesOK ELSE ResetLocals
    /\ UNCHANGED clusterVars

-----------------------------------------------------------------------------
(* First loop: owned secrets close to their expiry. *)

\* The iteration makes no call.
PassOver(n) ==
    /\ todo' = todo \ {n}
    /\ UNCHANGED <<clusterVars, pc, snapVars, currentSecrets, currentRoles,
                   orphans, cur, creds, faults>>

RefreshSkip(n) ==
    /\ pc = "refresh"
    /\ n \in todo
    /\ ~refreshCreds(secretSnap[n])
    /\ PassOver(n)

\* getCreds; an error is recorded as an event and the secret is left alone.
GetCreds(n, answer, next) ==
    /\ ~Panics(roleSnap[n])
    /\ Call(answer)
    /\ todo' = todo \ {n}
    /\ IF AssumeRole(roleSnap[n], answer)
       THEN pc' = next /\ cur' = n /\ creds' = getCreds(roleSnap[n])
       ELSE UNCHANGED <<pc, cur, creds>>
    /\ UNCHANGED <<clusterVars, snapVars, currentSecrets, currentRoles,
                   orphans>>

RefreshGetCreds(n) ==
    /\ pc = "refresh"
    /\ n \in todo
    /\ refreshCreds(secretSnap[n])
    /\ \E answer \in {"ok", "refused"} : GetCreds(n, answer, "refreshUpdate")

\* Create or Update; a status is reported only if the call succeeds.
WriteSecret(secret, admissible, report, status, next) ==
    /\ \E answer \in Answers :
         /\ Call(answer)
         /\ PutSecret(cur, secret, Applied(answer, admissible))
         /\ IF Succeeds(answer, admissible) /\ report
            THEN pc' = status /\ UNCHANGED creds
            ELSE pc' = next /\ creds' = NoCreds
    /\ UNCHANGED <<roles, nextUID, now, edits, snapVars, currentRoles,
                   orphans, todo, cur>>

\* Wrong on purpose: the Update carries no resourceVersion.
UpdateByName(n) == secrets[n].exists

UpdateAdmissible(n) == n \in currentSecrets

\* Wrong on purpose: the generation, which is no part of the data map getCreds
\* returns, is not added to it.
RefreshDropsGeneration ==
    /\ pc = "refreshUpdate"
    /\ WriteSecret([WithCreds(secretSnap[cur], roleSnap[cur], creds)
                      EXCEPT !.generation = Absent],
                   UpdateAdmissible(cur), TRUE, "refreshStatus", "refresh")

RefreshUpdate ==
    /\ pc = "refreshUpdate"
    /\ WriteSecret(WithCreds(secretSnap[cur], roleSnap[cur], creds),
                   UpdateAdmissible(cur), TRUE, "refreshStatus", "refresh")

UpdateStatus(next) ==
    /\ \E answer \in Answers :
         /\ Call(answer)
         /\ PutStatus(cur, NewStatus(roleSnap[cur], creds),
                      Applied(answer, cur \in currentRoles))
    /\ pc' = next
    /\ creds' = NoCreds
    /\ UNCHANGED <<secrets, nextUID, now, edits, snapVars, currentSecrets,
                   orphans, todo, cur>>

RefreshStatus == pc = "refreshStatus" /\ UpdateStatus("refresh")

\* From one loop to the next.
NextLoop(next, items) ==
    /\ todo = {}
    /\ pc' = next
    /\ todo' = items
    /\ UNCHANGED <<clusterVars, snapVars, currentSecrets, currentRoles,
                   orphans, cur, creds, faults>>

\* Wrong on purpose: the second loop ranges over secrets.Items.
AllListed == Listed

ToDelete == orphans

RefreshDone == pc = "refresh" /\ NextLoop("cleanup", ToDelete)

-----------------------------------------------------------------------------
(* Second loop: Delete by name, without a precondition. *)

CleanupDelete(n) ==
    /\ pc = "cleanup"
    /\ n \in todo
    /\ \E answer \in Answers :
         /\ Call(answer)
         /\ PutSecret(n, NoSecret, Applied(answer, secrets[n].exists))
    /\ todo' = todo \ {n}
    /\ UNCHANGED <<roles, nextUID, now, edits, pc, snapVars, currentRoles,
                   orphans, cur, creds>>

CleanupDone ==
    /\ pc = "cleanup"
    /\ NextLoop("sync", {n \in Names : roleSnap[n].uid # 0})

-----------------------------------------------------------------------------
(* Third loop: every listed role, against the secrets as they were listed  *)
(* (secretsMap and awsIAMRoles.Items are not touched by the first loop).   *)

UpToDate(n) == roleSnap[n].generation = getGeneration(secretSnap[n])

Reportable(secret) == secret.expire \in Nat

\* An unparsable generation, or nothing to do, or nothing to report.
SyncSkip(n) ==
    /\ pc = "sync"
    /\ n \in todo
    /\ secretSnap[n].exists
    /\ \/ secretSnap[n].generation = Malformed
       \/ /\ secretSnap[n].generation # Malformed
          /\ UpToDate(n)
          /\ ~needsStatus(roleSnap[n]) \/ ~Reportable(secretSnap[n])
    /\ PassOver(n)

SyncGetCreds(n) ==
    /\ pc = "sync"
    /\ n \in todo
    /\ secretSnap[n].exists
    /\ secretSnap[n].generation # Malformed
    /\ ~UpToDate(n)
    /\ \E answer \in {"ok", "refused"} : GetCreds(n, answer, "syncUpdate")

SyncUpdate ==
    /\ pc = "syncUpdate"
    /\ WriteSecret(WithCreds(secretSnap[cur], roleSnap[cur], creds),
                   UpdateAdmissible(cur), needsStatus(roleSnap[cur]),
                   "syncStatus", "sync")

\* The secret is up to date, the status is not: report what the secret holds.
SyncReport(n) ==
    /\ pc = "sync"
    /\ n \in todo
    /\ secretSnap[n].exists
    /\ secretSnap[n].generation # Malformed
    /\ UpToDate(n)
    /\ needsStatus(roleSnap[n])
    /\ Reportable(secretSnap[n])
    /\ pc' = "syncStatus"
    /\ cur' = n
    /\ creds' = [arn |-> secretSnap[n].arn, expire |-> secretSnap[n].expire]
    /\ todo' = todo \ {n}
    /\ UNCHANGED <<clusterVars, snapVars, currentSecrets, currentRoles,
                   orphans, faults>>

SyncStatus == pc = "syncStatus" /\ UpdateStatus("sync")

CreateGetCreds(n) ==
    /\ pc = "sync"
    /\ n \in todo
    /\ ~secretSnap[n].exists
    /\ \E answer \in {"ok", "refused"} : GetCreds(n, answer, "create")

\* What Create sends before the credentials are filled in.
BlankSecret(role) == [NoSecret EXCEPT !.exists = TRUE, !.owner = role.uid]

CreateSecret ==
    /\ pc = "create"
    /\ WriteSecret(WithCreds(BlankSecret(roleSnap[cur]), roleSnap[cur], creds),
                   ~secrets[cur].exists, TRUE, "syncStatus", "sync")

SyncDone ==
    /\ pc = "sync"
    /\ todo = {}
    /\ ResetLocals
    /\ UNCHANGED <<clusterVars, faults>>

-----------------------------------------------------------------------------
(* The process is killed and its container restarted: Run starts over. *)

Crash ==
    /\ pc # "idle"
    /\ faults > 0
    /\ faults' = faults - 1
    /\ ResetLocals
    /\ UNCHANGED clusterVars

\* Nothing recovers from a panic of getCreds: the container is restarted, and
\* comes to the same role again in its next round.
Panic(n) ==
    /\ n \in todo
    /\ \/ pc = "refresh" /\ refreshCreds(secretSnap[n])
       \/ /\ pc = "sync"
          /\ secretSnap[n].exists
               => secretSnap[n].generation # Malformed /\ ~UpToDate(n)
    /\ Panics(roleSnap[n])
    /\ ResetLocals
    /\ UNCHANGED <<clusterVars, faults>>

ControllerStep ==
    \/ ListSecrets
    \/ ListRoles
    \/ \E n \in Names : RefreshSkip(n)
    \/ \E n \in Names : RefreshGetCreds(n)
    \/ RefreshUpdate
    \/ RefreshStatus
    \/ RefreshDone
    \/ \E n \in Names : CleanupDelete(n)
    \/ CleanupDone
    \/ \E n \in Names : SyncSkip(n)
    \/ \E n \in Names : SyncGetCreds(n)
    \/ SyncUpdate
    \/ \E n \in Names : SyncReport(n)
    \/ SyncStatus
    \/ \E n \in Names : CreateGetCreds(n)
    \/ CreateSecret
    \/ SyncDone
    \/ \E n \in Names : Panic(n)

\* Whatever others write makes the listed copy of it out of date.
Observe ==
    /\ retaken' = retaken \cup
                     {n \in Listed : ~secrets[n].exists /\ secrets'[n].exists}
    /\ currentSecrets' = {n \in currentSecrets : secrets'[n] = secrets[n]}
    /\ currentRoles' = {n \in currentRoles : roles'[n] = roles[n]}
    /\ UNCHANGED <<pc, secretSnap, roleSnap, orphans, todo, cur, creds, faults>>

UserStep(n) ==
    \/ CreateRole(n)
    \/ EditSpec(n)
    \/ EditLabels(n)
    \/ DeleteRole(n)
    \/ SeedSecret(n)
    \/ CreateForeignSecret(n)
    \/ ManualSecretEdits /\ TamperSecret(n)
    \/ ManualSecretEdits /\ DeleteSecret(n)

ClusterStep ==
    /\ \/ \E n \in Names : UserStep(n)
       \/ \E n \in Names : CollectGarbage(n)
       \/ Tick
    /\ Observe

Next == ControllerStep \/ Crash \/ ClusterStep

Spec == Init /\ [][Next]_vars

\* The goroutine keeps running and the clock keeps moving; users, garbage
\* collection and failures owe nobody anything.
FairSpec == Spec /\ WF_vars(ControllerStep) /\ WF_vars(Tick /\ Observe)
-----------------------------------------------------------------------------
(* Properties *)

Live(n) == roles[n].uid # 0
Owned(n) == secrets[n].exists /\ isOwnedReference(roles[n], secrets[n])
Foreign(n) == secrets[n].exists /\ ~Selected(secrets[n].labels)

\* A secret whose recorded generation is the role's current one holds
\* credentials of the IAM role that generation refers to: refresh() never
\* stamps a new generation on credentials it fetched for an older spec, or for
\* an earlier resource of the same name.
UpToDateSecretHoldsReferencedRole ==
    \A n \in Names :
        Owned(n) /\ secrets[n].generation = roles[n].generation
            => secrets[n].arn = RoleARN(roles[n].reference)

\* Whatever labels users put on an AWSIAMRole, the secret written for it still
\* matches the selector of the next round's List (mergeLabels): the controller
\* never loses sight of credentials it issued.
WrittenSecretsStaySelected ==
    \A n \in Names :
        secrets[n].exists /\ secrets[n].arn # Absent
            => Selected(secrets[n].labels)

\* "clean up orphaned secrets": the Delete of the second loop, decided on
\* listed copies and made by name, removes the secret of a live role in one
\* case only: the listed orphan went away during the round and somebody else
\* has created the role's secret on its name since.
DeletesOnlyOrphans ==
    [][\A n \in Names :
           ControllerStep /\ Owned(n) /\ n \notin retaken
               => secrets'[n].exists]_vars

\* A secret without the controller's labels is never overwritten by it, even
\* when it has the name of an AWSIAMRole or comes to be during the round.  It
\* is deleted in one case only: created after the List on the name of a listed
\* orphan, which the Delete of the second loop then means no longer.
ForeignSecretsUntouched ==
    [][\A n \in Names :
           ControllerStep /\ Foreign(n)
               => \/ secrets'[n] = secrets[n]
                  \/ n \in retaken \cap orphans /\ secrets'[n] = NoSecret]_vars

\* A controller step never replaces the credentials of a live role by those of
\* an older generation of its spec, although every write is computed from
\* copies listed earlier and others may replace the secret meanwhile.
NoGenerationRollback ==
    [][\A n \in Names :
           ControllerStep /\ Owned(n) /\ secrets'[n].exists
           /\ secrets[n].generation \in Nat
               => /\ secrets'[n].generation \in Nat
                  /\ secrets'[n].generation >= secrets[n].generation]_vars

\* A status the controller writes describes the credentials the role has: the
\* secret is there, owned by the role, and expires when the status says (the
\* Expiration column of the custom resource definition).
StatusDescribesSecret ==
    [][\A n \in Names :
           ControllerStep /\ roles'[n].status # roles[n].status
               => /\ Owned(n)
                  /\ secrets[n].expire = roles'[n].status.expiration]_vars

-----------------------------------------------------------------------------
(* The inductive invariant behind the safety properties.                   *)

\* UIDs are handed out once, so a role created from now on owns nothing that
\* is already there or already listed.
UIDsAreOld ==
    \A n \in Names :
        /\ roles[n].uid < nextUID
        /\ roleSnap[n].uid < nextUID
        /\ secrets[n].owner < nextUID
        /\ secretSnap[n].owner < nextUID

\* A listed role is an earlier version of the live one, as long as that is
\* the same resource.
ListedRoleIsOlder ==
    \A n \in Names :
        roleSnap[n].uid # 0 /\ roleSnap[n].uid = roles[n].uid
            => /\ roleSnap[n].generation <= roles[n].generation
               /\ roleSnap[n].generation = roles[n].generation
                    => roleSnap[n].reference = roles[n].reference

\* No secret is ahead of its role, and one that has caught up holds
\* credentials of the role it refers to.
SecretBehindRole ==
    \A n \in Names :
        Owned(n) /\ secrets[n].generation \in Nat
            => /\ secrets[n].generation <= roles[n].generation
               /\ secrets[n].generation = roles[n].generation
                    => secrets[n].arn = RoleARN(roles[n].reference)

\* Secrets are listed before roles: when the owner of a listed secret is still
\* alive, the role list has it.
ListedOwnerIsListed ==
    pc \notin {"idle", "listed"} =>
        \A n \in Names :
            roles[n].uid # 0 /\ secretSnap[n].owner = roles[n].uid
                => roleSnap[n].uid = roles[n].uid

\* A listed secret is not ahead of the role list (of the live role, before
\* the roles are listed).
ListedSecretBehindRole ==
    \A n \in Names :
        LET role == IF pc = "listed" THEN roles[n] ELSE roleSnap[n] IN
        isOwnedReference(role, secretSnap[n]) /\ secretSnap[n].generation \in Nat
            => secretSnap[n].generation <= role.generation

\* The credentials about to be written are those of the listed role.
CredsOfListedRole ==
    pc \in {"refreshUpdate", "syncUpdate", "create"}
        => creds.arn = RoleARN(roleSnap[cur].reference)

\* Each loop visits what was listed, and a round leaves no list behind.
LoopsVisitListed ==
    /\ pc = "idle" => Listed = {}
    /\ pc \in {"refresh", "refreshUpdate", "refreshStatus"}
           => todo \cup orphans \subseteq Listed
    /\ pc = "cleanup" => todo \subseteq Listed
    /\ pc \in {"refreshUpdate", "syncUpdate"} => cur \in Listed

\* A listed secret whose version is live is the live one.
CurrentSecretIsLive ==
    \A n \in currentSecrets \cap Listed : secrets[n] = secretSnap[n]

\* What was listed matched the selector, and so does what now has its name,
\* unless others have created it since.
ListedSelected ==
    \A n \in Listed :
        /\ Selected(secretSnap[n].labels)
        /\ secrets[n].exists /\ n \notin retaken
               => Selected(secrets[n].labels)

\* An orphan found by the two List calls stays one until it is deleted, unless
\* others have created a secret on its name since.
OrphansStayOrphans ==
    /\ pc = "listed" =>
          \A n \in Listed \ retaken :
              secrets[n].exists => secrets[n].owner = secretSnap[n].owner
    /\ pc \in {"refresh", "refreshUpdate", "refreshStatus"} =>
          \A n \in orphans \ retaken : ~Owned(n)
    /\ pc = "cleanup" =>
          todo \subseteq orphans /\ \A n \in todo \ retaken : ~Owned(n)

\* What holds of the objects and of the lists of a round.
RoundInv ==
    /\ TypeOK
    /\ UIDsAreOld
    /\ ListedRoleIsOlder
    /\ SecretBehindRole
    /\ ListedOwnerIsListed
    /\ ListedSecretBehindRole
    /\ CredsOfListedRole
    /\ LoopsVisitListed
    /\ CurrentSecretIsLive
    /\ ListedSelected
    /\ WrittenSecretsStaySelected

IInv == RoundInv /\ OrphansStayOrphans

-----------------------------------------------------------------------------
Served(n) ==
    /\ Owned(n)
    /\ secrets[n].generation = roles[n].generation
    /\ roles[n].status.observedGeneration = roles[n].generation

\* The third loop skips a secret whose generation does not parse; only a
\* refresh of its credentials repairs it.
AwaitsRefresh(n) ==
    Owned(n) /\ secrets[n].generation = Malformed /\ ~refreshCreds(secrets[n])

\* One live role that makes getCreds panic keeps the process from finishing a
\* round.
NobodyPanics == \A n \in Names : Live(n) => ~Panics(roles[n])

\* Once users and failures stop, every role the controller may assume gets a
\* secret of its current generation and a status that says so, unless a
\* foreign secret takes its name or some role makes every round panic.
RolesGetServed ==
    \A n \in Names :
        <>[](NobodyPanics
             /\ Live(n) /\ RoleARN(roles[n].reference) \in Trusted /\ ~Foreign(n)
                => Served(n) \/ AwaitsRefresh(n))

\* Once users and failures stop, no secret with the controller's labels
\* outlives its role, even if the API server never collects garbage, unless
\* some role makes every round panic.
OrphansGetRemoved ==
    \A n \in Names :
        <>[](NobodyPanics /\ secrets[n].exists /\ ~Foreign(n) => Owned(n))
=============================================================================
