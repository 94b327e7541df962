# kube-aws-iam-controller in TLA+

kube-aws-iam-controller keeps Kubernetes secrets filled with short-lived AWS
credentials. A user describes a role in an `AWSIAMRole` resource; the
controller assumes that role through STS and writes the credentials into a
secret of the same name, again and again before they expire.

This directory holds a model of the program, the TLC configurations that check
it on small instances, and TLAPS proofs of its main safety properties for every
instance.

## Inventory

| Part | Source | State | Operations |
| --- | --- | --- | --- |
| AWSIAMRole controller | `awsiamrole_controller.go` | none between rounds; during a round the two lists, `secretsMap`, `orphanSecrets` | `Run` repeats `refresh`: list secrets, list roles, refresh expiring secrets, delete orphans, create or update the rest |
| Cluster | the API server; `scripts/set_secret.sh`; `pkg/apis` | `AWSIAMRole` resources (UID, generation, spec, labels, status) and secrets (labels, owner, data) | users edit both, `set_secret.sh` seeds a secret, garbage collection removes dependents of deleted roles |
| RoleStore | `role_store.go` | maps role -> namespace -> pods under an RWMutex | `Add`, `Remove`, `Exists` |
| Secrets controller | `secrets_controller.go` | a `RoleStore`; per round a credentials cache and a temporary store | `Run`: health endpoint, then `refresh`: delete unused, refresh expiring, create missing secrets |
| Credentials getter | `credentials_getter.go` | the base role ARN | `GetBaseRoleARN`, `GetPrefixFromARN` at start-up; `Get`: resolve the ARN, derive the session name, call STS |
| Process | `main.go` | the context, its goroutines | start-up, SIGTERM |
| Client set | `pkg/clientset/unified.go` | transport; a goroutine that closes idle connections | `ConfigureKubeConfig` |
| Event recorder, generated client | `pkg/` | event queue | forwarding of calls |

How they meet: `main` starts the AWSIAMRole controller in a goroutine and runs
the secrets controller itself. They share nothing in memory except the
credentials getter; both read and write secrets through the API server, where
users, the garbage collector and, during a rolling update, a second instance of
the program do the same. Labels divide the secrets: the secrets controller
selects `heritage=kube-aws-iam-controller` and skips what has an owner, the
AWSIAMRole controller selects that label and `type=awsiamrole`.

What is hard here:

* A round reads two lists and then makes up to three calls for every object.
  Everything it writes is computed from copies that may be out of date: the
  role may have been edited, deleted, or deleted and created again.
* Updates are protected by the resourceVersion of the listed copy; the Deletes
  of both controllers are not. Each removes whatever has the name by then.
* The third loop looks at the secrets as they were listed, before the first
  loop refreshed and the second deleted some of them.
* Any call can fail, or take effect and lose its answer; the process can be
  killed between two calls. All memory is then gone, and the next round has
  to recover from what is in the cluster.
* A secret is looked at once per round, so how long its credentials last after
  that depends on the interval, the refresh limit, the session and on how long
  rounds take when calls time out.
* Nothing reports success of a whole round, so convergence is the only thing
  users can rely on: every role served, every orphan removed, eventually.

Properties that make the parts correct: an up-to-date secret holds credentials
of the role its generation refers to; generations never go backwards; only
orphans, and what took the name of one during the round, are deleted; secrets of
others are not overwritten; issued secrets remain
visible to the controller; roles are eventually served and orphans removed; the
store of the secrets controller is exactly the set of triples put into it;
credentials never get under the name of another role; credentials are replaced
before they expire; a cancelled context ends the loops; session names fit.

## Modules

| Module | Models |
| --- | --- |
| `Cluster` | Objects of the API server and everyone but the controller who changes them. External: modelled from how the controller uses it. |
| `AWSIAMRoleController` | `refresh()` and its helpers; extends `Cluster`. Properties and the inductive invariant `IInv`. |
| `MCAWSIAMRole` | Instances of it for TLC. |
| `AWSIAMRoleControllerProofs` | Its theorems. |
| `IssuedCredentials` | What that controller promises: secrets hold credentials of versions of their roles. No rounds, lists or calls. |
| `CredentialHistory` | The controller with a history variable, and the refinement `ImplementsIssuedCredentials`. |
| `MCHistory` | The instance of it that `safety` checks. |
| `CredentialHistoryProofs` | Its theorems. |
| `RollingUpdate` | Two instances of `AWSIAMRoleController`, the old and the new process, on one `Cluster`. |
| `MCRollingUpdate` | Instances of it for TLC. |
| `RollingUpdateProofs` | Its theorems. |
| `RefreshTiming` | The clockwork of `Run`, `time.After` and the refresh limit around one secret. |
| `RefreshTimingProofs` | Its theorems. |
| `RoleSet` | What the store promises: a set of (role, namespace, pod) triples. |
| `RoleStore` | The nested maps of `role_store.go`, and the refinement `ImplementsRoleSet`. |
| `RoleStoreProofs` | Its theorems. |
| `SecretsController` | `refresh()` of the secrets controller, on top of `RoleSet`, with pods coming and going. |
| `MCSecrets` | An instance of it for TLC. |
| `SecretsControllerProofs` | Its theorems. |
| `Process` | `main`, the SIGTERM handler, both `Run` loops, the goroutine of the transport, the health endpoint, the kubelet's probes and restarts. |
| `ProcessProofs` | Its theorems. |
| `SessionName` | The credentials getter up to the call of STS. |
| `SessionNameProofs` | Its theorems. |

### State and steps of AWSIAMRoleController

`roles` and `secrets` map a namespace/name key to an object; a role with `uid`
0 and a secret with `exists = FALSE` are not there. UIDs are numbers that are
never reused. A secret's data map is abstracted to the keys the controller
reads: `expire`, `role-arn` and the generation key, each of which may be missing
or unparsable; the credential files are written together with the first two.
Labels are the two keys the selectors look at.

`pc` is the place in `refresh()`. Every call to the API server or STS is a step
of its own: `ListSecrets`, `ListRoles`, then for each loop the choice of an item
(`RefreshGetCreds`, `SyncGetCreds`, `SyncReport`, `CreateGetCreds`, or a skip)
and the calls that follow for it (`RefreshUpdate`, `RefreshStatus`, `SyncUpdate`,
`SyncStatus`, `CreateSecret`, `CleanupDelete`). Code between two calls only
touches local variables and belongs to the step of the call before it. The
order in which a loop visits its items is left open.

An Update or UpdateStatus carries the resourceVersion of the listed object.
The model keeps no version numbers: `currentSecrets` and `currentRoles` are the
names whose listed copy is still the live version, and every write by anyone
takes the name out.

A call is answered, refused, or takes effect while its answer is lost; the last
two look alike to the caller. `Crash` ends a round anywhere and starts over
with empty memory. So does `Panic`: a role of `TooDeep` has so many levels that
`getCreds` panics (see **session_panic**), nothing recovers, and the next round
comes to the same role. Logging and events are left out: nothing reads them.

Users create secrets at any time, also while a round is under way, by
`set_secret.sh` or by hand. The history variable `retaken` collects the listed
names on which somebody else has created a secret since the List; no step reads
it. It is what the properties need to name the one case in which a Delete that
names the secret only hits something other than what was listed.
`ManualSecretEdits` says whether users damage or delete secrets by hand.
`set_secret.sh` is modelled on a free name, the bootstrap it is written for.

### IssuedCredentials and CredentialHistory

A version of a role is its UID, its generation and the ARN its spec refers to.
`IssuedCredentials` has, for each name, the live version, the set of all
versions so far, and one secret, of which it says whose it is, who owns it, and
which generation and ARN it holds. The controller has three actions there:
`Provide` puts credentials of some version on a free name, `Replace` writes
those of a version not older than what a live role's secret holds and keeps the
owner, `Remove` takes an orphan away. Users and the API server have six.

The controller forgets its lists after every round, and the roles of the past
are nowhere in the cluster. `CredentialHistory` therefore extends it with the
history variable `versions`, which no step reads, and maps roles and secrets
to what `IssuedCredentials` sees of them: labels become "ours" or "foreign", a
generation that is missing or does not parse becomes none, the expiry and the
status are dropped. There are two claims. `ImplementsIssuedCredentials` is the
refinement. In it a Delete too many would pass for `LoseSecret`, which users
may do; so `ControllerKeepsPromise` says that a step of the controller maps to
one of the three actions of the controller, or to none, or is the Delete of a
secret that took the name of a listed orphan (`DeletesRetaken`).

### RollingUpdate

The Deployment replaces its pod without a leader election, so for a while two
processes run rounds on the same objects. `Old` and `New` are two instances of
`AWSIAMRoleController` (through its proof module, so that its lemmas hold of
both) with rounds, lists and faults of their own and the
cluster in common. A step of one is a step of a user to the other: what it
writes makes the other's listed copies out of date, and what it creates is
`retaken` in the other's eyes (`Observe`). `OthersStep` is a step of users,
garbage collection or time, which both see.

### RefreshTiming

One role's secret, seen from `Run`: a round begins, visits the secret, fetches
credentials if `Due`, writes them, ends; the timer runs; the next round begins.
A visit happens anywhere in a round, and a write any time after the visit,
because the other roles and calls that time out take the rest. Time is relative:
`left` is what remains until the expiry of the credentials in the secret, so
the model needs no bound on the clock. `Fail` is everything that keeps a round
from replacing the credentials, a lost answer included.

### State and steps of SecretsController

A secret is identified by its namespace and name; a name is a prefix and the
role that `TrimPrefix` leaves. Without the prefix that is the whole name:
`Unprefixed` says where such a secret may be. Its `kind` says what the
controller sees of it: the label and no owner, the label and an owner, or no
label. Its data is the expiry and the role the credentials were fetched for. A
process may start with secrets that an earlier one left. `used` is the role
store, in the form `RoleStore` is proved to implement; `found` is
`tmpSecretStore` and `cache` is `credsCache`. `Exists` and the Delete that
follows it are two steps, as the code takes the lock only inside `Exists`. The
second loop holds the read lock, so `PodAdded` and `PodRemoved` wait in its
places (`StoreLocked`). A restart leaves the store empty.

Nothing in the program calls `Add` or `Remove` (only tests do), although
`src/README.md:312` has it that pods are read and `secrets_controller.go:44` that
the controller listens for them. The model lets somebody call both at any time,
so that the code written for it is judged. No property says that roles in use
get secrets: in the program there are none.

Others create secrets on a free name at any time, during a round too: users, and
the AWSIAMRole controller, which runs in the same process (`main.go:119`). As
above, `retaken` collects the listed names on which they did. The Delete of this
controller then removes the secret that took the name, owned or not
(`OthersUntouched` names the case).

`Run` begins with `ListenAndServe`. While that blocks, the goroutine is at
"serving" and takes no step; the liveness check then fails and the container is
restarted (`ProbeFails`, which stands for what `Process` has in detail). If the
port is taken, it returns and the loop is reached.

### State and steps of Process

One variable per goroutine: `main` (which runs `SecretsController.Run`),
`roleLoop` (`AWSIAMRoleController.Run`), `idleLoop` (the goroutine
`ConfigureKubeConfig` starts) and `handler` (`handleSigterm`). Start-up takes
two steps, as the transport's goroutine runs before the rest is there, and
either may end the process. A round is a step that begins and one that ends;
what happens in it is the subject of the other modules. Time is relative:
`since` is `time.Since(nextRefresh)`, capped just beyond the point where the
liveness check fails, so that behaviours are infinite and the clock needs no
bound. `ListenAndServe` returns only if another process has the port, which
happens because the deployment uses the host's network; failures of a listener
that is already accepting are left out. A probe of a process that serves takes
two steps, one that fails to reach it takes one. SIGTERM before `signal.Notify`
ends the process. `probing` tells behaviours with a kubelet that probes and
kills from those without; the latter show what the process does by itself.

### State and steps of SessionName

A string is the sequence of the lengths of its parts, split at "/"; the first
part of an ARN counts for its account ID. `GetBaseRoleARN` keeps the first part
of the instance profile's ARN and the "/" behind it. `Get` uses a reference as
it is or puts the base in front of it, where the last part of the one and the
first of the other become one part. `normalizeRoleARN` splits the result, and
the recursion of `normalizePath` is one step per call. A slice bound below zero
is a panic.

### Wrong variants

Definitions marked "Wrong on purpose" are variants of the definition that
follows them with a plausible mistake in it. No specification uses them; putting
one in place of its original must violate a property.

## Runs

| Run | Checks | Result |
| --- | --- | --- |
| `safety` | `IInv`, `UpToDateSecretHoldsReferencedRole`, `WrittenSecretsStaySelected`, `SecretsHoldAVersion`, `DeletesOnlyOrphans`, `ForeignSecretsUntouched`, `NoGenerationRollback`, `ImplementsIssuedCredentials`, `ControllerKeepsPromise` | holds, 1,092 thousand states |
| `liveness` | `RolesGetServed`, `OrphansGetRemoved` under fairness | holds, 243 thousand states |
| `status` | `StatusDescribesSecret` | violated, see below |
| `rolling_update` | `BothInv`, `SharedSecretHoldsReferencedRole`, `NoRollbackByTheOther`, `ForeignSecretsUntouchedByBoth`, `BothDeleteOnlyOrphans`; `NewServesRoles`, `NewRemovesOrphans` under fairness of the new process only | holds, 231 thousand states |
| `rolling_delete` | `NeitherDeletesOwned` | violated, see below |
| `timing` | `TimingInv`, `NeverExpired`, `NoRefreshEveryRound` | holds, 500 states |
| `role_store` | `TypeOK`, `NoEmptyMaps`, `ImplementsRoleSet` | holds |
| `secrets` | `OwnCredentials`, `SecretsInv`, `CreatesOnlyUsed`, `OthersUntouched`; `UnusedSecretsGetRemoved` under fairness | holds, 498 thousand states |
| `process` | `ProcessInv`, `NextRefreshNotRaced`, `YoungProcessPasses`, `StuckRunGetsRestarted`, `CancelEndsLoops` | holds, 163 thousand states |
| `process_loop` | `RunRefreshesSecrets` | violated, see below |
| `session_name` | `NamesInv`, `DiscoveredBaseTakesNames`, `SessionNameFits`, `LastLevelGetsTheRest`, `OtherLevelsKeepAChar`, `PanicsOnlyWhenTooDeep` | holds |
| `session_panic` | `NeverPanics` | violated, see below |

`TypeOK` is part of each inductive invariant (`IInv`, `BothInv`, `TimingInv`,
`SecretsInv`, `ProcessInv`, `NamesInv`); that of `AWSIAMRoleController` covers
`Cluster`. `safety` runs the controller with its history, which adds states but
no behaviour.

**status.** The custom resource definition calls `status.expiration` the
"Expiration time of the current credentials provisioned for the role". A role
with a secret is deleted and created again between the two List calls. The
secret, owned by the predecessor, is an orphan and the second loop deletes it;
the third loop still finds it in `secretsMap`. If its generation equals that of
the new role (both are 1 when neither was edited), the loop takes it for up to
date and writes a status from it. The role then reports credentials that do not
exist; the secret appears one round later. No failure is needed.

**rolling_delete.** The cleanup loop deletes by name, without a UID or
resourceVersion precondition. The new process lists an orphan; before it gets to
the Delete, the old process, in a round of its own, deletes the orphan, the role
is created again and the old process creates its secret. The Delete of the new
process then removes that secret, which a live role owns. Users do nothing
unusual here, and no call fails; the next round creates the secret again
(`NewServesRoles`). The same happens with one process if the orphan goes away
after the List (garbage collection does that) and `set_secret.sh` creates a
secret for the new role. `DeletesOnlyOrphans` and `BothDeleteOnlyOrphans` say
that there is no other way: the secret of a live role is deleted only if it was
created after the List, by somebody else, on the name of a listed secret.

**process_loop.** `Run` calls `http.ListenAndServe` in its own goroutine. If the
port is free the call does not return, and the refresh loop below it is never
reached; the age of `nextRefresh` then fails the liveness probe, and the kubelet
restarts the container over and over (`StuckRunGetsRestarted` in `process`). The
loop runs only if another process has the port. Moving the call to a goroutine
of its own is not enough: `nextRefresh` would then be read and written at the
same time (`NextRefreshNotRaced` fails with `ListenInBackground`). For the same reason
SIGTERM ends the other loops but not the process, which stays until it is killed.

**session_panic.** Each level needs a dot and a character. Behind a 12-digit
account ID, 26 levels fit into 64 characters; with 27 the bound of the slice is
negative. `PanicsOnlyWhenTooDeep` says that this is the only way to get there.
One such role keeps the AWSIAMRole controller from finishing a round, and so from
serving the roles that come after it: `RolesGetServed` and `OrphansGetRemoved`
hold as long as none is live (`NobodyPanics`).

### Bounds

One name is enough for most behaviours: the controller treats names
independently, and all its races are between one name's role, its secret and
its listed copies. Two UIDs allow one role to be deleted and created again, two
generations allow one edit, and four user steps allow both, plus a damaged
secret. Two references, one of them short, resolve to two ARNs. In `safety` the
labels of a role are none, or such that they collide with the controller's. Its
clock runs to 1 with a session and a refresh limit of 1: credentials are not due
and then due; in `liveness` and `status` it runs to 2 with a session of 2, so
that they also expire before they are looked at. One fault is enough for each of: a refused call,
a lost answer, a restart. `liveness` has three ARNs: one that may be assumed, one
that STS refuses, and one that is too deep, so that roles the controller cannot
serve are there too, and rounds that panic.

`rolling_update` has one name, two ARNs given in full and three user steps:
enough for a role to be deleted and created again, and for one more edit or a
seeded secret. Its clock stands still: what is due for refresh there is a seeded
secret, which has no expiry, and credentials that grow old are the subject of
`safety`. There are no refused calls in it, as `safety` has them; but the old
process may stop for good before any step.

`timing` has an interval of 2, rounds of up to 2 and one round that may fail
between two that do not. The window of `NeverExpired` is then 10, the refresh
limit 11 and the sessions 11 and 17: the smallest for which the two properties
say anything. A smaller limit or session violates them.

`secrets` has two roles, one of which STS refuses, in two namespaces: enough for
a cache entry to be used in another namespace or, wrongly, for another role. One
role may have a secret with its bare name in one of the namespaces. A process
starts with no secrets or with secrets left everywhere. Two events let a pod come
and go, or a listed secret go and another take its name, while a round is under
way; a session of 1 on a clock that runs to 1 lets credentials expire. In `process` the
interval is 2, so that ticks fall between a wake-up and the next, and two probes
have to fail; two events allow the port to be taken and the pod to be stopped.
`session_name` replaces the limit of 64 by 8 and has strings of up to three
parts of up to three characters, as base and as reference: paths that fit, paths
that are cut at one or several levels, and paths too deep.

Deadlock checking is on except for `SessionName`, whose computation ends: in
the others a round, a tick or a restart is always possible.

### Fairness

`FairSpec` assumes that the controller's goroutine keeps taking steps
(`WF_vars(ControllerStep)`: `Run` loops for ever, its select fires after an
interval, and each call returns because the client has timeouts) and that time
passes. Users, garbage collection and failures get no fairness; `OrphansGetRemoved`
therefore does not lean on the garbage collector. Bounds on user steps and
faults say that they eventually stop, which is the hypothesis of both
properties. `RolesGetServed` leaves out what the code does not serve: a role STS
refuses, a name taken by a foreign secret (Create fails every round), and a
secret with an unparsable generation whose credentials are not due. Neither
property is claimed while a role is live that makes every round panic.

`FairSpec` of `RollingUpdate` is fair to the new process and to time. The old one
gets none: it is the one that is being stopped.

`FairSpec` of `SecretsController` says that the goroutine of `Run` takes its next
step if it has one. It does not say that the loop runs: whether `ListenAndServe`
blocks or returns is open, and where it blocks there is no next step.
`UnusedSecretsGetRemoved` is therefore claimed of behaviours in which `Run` comes
to its loop for good (`<>[]LoopRuns`), and only of those; with the port free the
code does not get there, see **process_loop**.

`Process` is weakly fair to each goroutine, to the kubelet's steps and to time.
The three `ctx.Done()` cases get strong fairness: select chooses at random among
the cases that are ready, so one that is ready time and again is taken. The
ends of rounds lean on the time-outs of the clients.

## Proofs

`AWSIAMRoleControllerProofs` proves for all constants that satisfy
`ClusterAssumption` and `ControllerAssumption`:

* `TypeCorrect`: `Spec => []TypeOK`;
* `UpToDateSecrets`, `WrittenSecretsSelected`: the two invariants;
* `OnlyOrphansDeleted`, `GenerationsNeverRollBack`, `ForeignSecretsLeftAlone`:
  the three action properties, whatever users create during a round.

None of the properties is inductive. The argument, which `IInv` spells out:
UIDs are new when given, so a role created later owns nothing that exists or is
listed (`UIDsAreOld`). A listed role is an older version of the live one if the
UID is the same (`ListedRoleIsOlder`). Because secrets are listed before roles,
the live owner of a listed secret is in the role list (`ListedOwnerIsListed`);
with the two Lists exchanged this would fail. So a write computed from the lists
is a write for an older version of the same role, or for a role that is gone
(`SecretBehindRole`). An accepted Update overwrites the very secret that was
listed (`CurrentSecretIsLive`), so it keeps the owner and does not go back
(`ListedSecretBehindRole`). An orphan stays one unless its name is retaken, since
only a new secret could be owned by the live role (`OrphansStayOrphans`), and so
does a listed secret keep its labels (`ListedSelected`). The proof groups steps by
their effect: `ClusterStepEffect` says what others can do to a name,
`WorkClusterEffect` and `WorkLocalEffect` what a loop step does; each conjunct of
`IInv` is then preserved by each group.

`RollingUpdateProofs` uses that for two processes. What a controller's step does
to the objects is summed up in `Guarantee`: UIDs, generations and references
stay, a secret is left alone, deleted or left with the selector's labels, and
no secret gets ahead of its role. `ControllerGuarantees` proves it from
`RoundInv`, the part of `IInv` without `OrphansStayOrphans`, and
`GuaranteeKeepsIInv` proves that it is all the other process needs; what the one
creates is retaken for the other. So `BothInv == Old!IInv /\ New!IInv` is
inductive, and `SharedSecrets`, `NoRollback`, `ForeignSecretsLeftAlone` and
`OnlyOrphansDeletedByBoth` follow without assumptions about users.

`CredentialHistoryProofs` proves the refinement. `HistoryInv` says that what is
live or listed is among the versions, that credentials are only fetched for
listed roles, and that every secret with a generation holds one version; with
`IInv` it is inductive (`HistoryInvariant`); `safety` checks its last part,
`SecretsHoldAVersion`, by itself. `OthersImplement` maps every step of
users and of the API server, `ControllerWrites` every step of a round: it writes
at most one secret (`OneSecretWritten`), and what it writes is what the listed
version holds (`WrittenHoldsListed`). `ControllerImplementsIssuedCredentials` and
`ControllerKeepsItsPromise` hold for all constants.
`SecretsHoldVersions` goes further than `UpToDateSecrets`: it also speaks of
secrets behind their role and of those whose role is gone.

`SecretsControllerProofs` proves the invariant `SecretsInv` and from it
`CredentialsUnderOwnName`, `OnlyUsedCreated` and `OthersLeftAlone`. Credentials in the cache and in the hands of a loop belong to
the role they are kept for (`HeldCredentials`), which carries `OwnCredentials`
through a write. An accepted Update overwrites what was listed
(`CurrentIsListed`), and what was listed as the controller's own is still its
own or gone, unless its name is retaken (`ListedStayOurs`). What the second loop found missing is in use
until the loop is done with the role, because the read lock keeps the store
still (`MissingAreUsed`).

`ProcessProofs` proves `HandlersNotRaced` and `YoungProcessesPass`. The
invariant says where `main` can be while a handler runs (only inside
`ListenAndServe`) and how old `nextRefresh` is there (one interval more than the
process).

`RefreshTimingProofs` proves `CredentialsNeverExpire` and
`NotRefreshedEveryRound` for all intervals, refresh limits, sessions, lengths of
rounds and numbers of failures. Between two writes lie at most the rest of the
round of a visit that found the credentials not due, the rounds that fail, and
the round that writes: `Window`. `LeftLastsForTheRest` says, for each phase, that
what is left outlasts the part of the window still to come; `WrittenLastRound`
says how old credentials written one round ago can be.

`SessionNameProofs` proves the five properties of names for every limit, every
base and every reference. The invariant says that after the first call of
`normalizePath` the characters left are at least two for each level to come, a
dot and a character, so only the first call can find too few. It also says that
the size of what is already built and what remains add up to the limit, which
gives `NamesFit`. The size is a sum over a sequence of any length: the recursive
function `Total` is shown to exist and to count correctly (`TotalIsSum`,
`TotalPushed`) by induction over the lengths, stated for a set of numbers
(`SetInduction`), which needs no operator as a parameter.

`RoleStoreProofs` proves `StoreHasNoEmptyMaps` and `StoreImplementsRoleSet`. The
invariant is needed because `Exists` looks only at keys: it answers for the
triples exactly when no key is left without a pod.

Type correctness of each component comes with its inductive invariant
(`TypeCorrect`, `TimingTypes`, `StoreTypes`, `SecretsTypes`, `ProcessTypes`,
`NamesTypes`).

The proofs assume of the constants only what the named assumptions of the
modules state.

Only model-checked: liveness, because fairness and ENABLED are out of the
prover's reach, and the violations. Every safety property of a passing run has a
theorem.

## Plan

The order was: the AWSIAMRole controller and its proofs, the role store, the
secrets controller on top of it, the process, the session name; then two
processes at once, the timing of refreshes, the rest of the credentials getter,
and the proofs of their safety properties; then the proofs for two processes,
and the abstract specification of the AWSIAMRole controller. Left:

1. Both controllers on one set of secrets, divided by labels and owners only.
   So far each sees the secrets of the other as those of somebody else.
2. An abstract specification for the secrets controller, in the manner of
   `IssuedCredentials`.

## Not modelled

The configuration that `ConfigureKubeConfig` fills in (timeouts, rates, TLS), the
event recorder and the generated client hold no logic of the program; their
failures appear as refused and lost calls. The ARN of `--assume-role` is handed
to the AWS SDK once and read by nothing else. Manifests and flags are data.
Re-running `set_secret.sh` over an existing secret, which replaces the
credentials and leaves `expire` and the generation as they are, is not modelled.
Several owner references on one secret are not: the program writes one.
