------------------------- MODULE SecretsController -------------------------
(***************************************************************************)
(* SecretsController.refresh (secrets_controller.go): keeps a secret       *)
(* "aws-iam-<role>" in every namespace where a pod uses the role, as its   *)
(* RoleStore says.                                                         *)
(*                                                                         *)
(* Every call to the API server or STS is a step of its own.  "scan" and   *)
(* "create" are the heads of the two loops, "delete" and "update" are      *)
(* about to make that call, "fill" creates the missing secrets of a role.  *)
(* Before its first round Run calls ListenAndServe ("listen"), which       *)
(* blocks ("serving") unless the port is taken.                            *)
(*                                                                         *)
(* The store is used through RoleSet, which RoleStore implements.  Nothing *)
(* in the program calls Add or Remove; here they come from whoever would   *)
(* watch the pods, concurrently with refresh.                              *)
(***************************************************************************)
EXTENDS Naturals

CONSTANTS
    Roles, Namespaces, Pods,
    Unprefixed,          \* <<role, namespace>>: users may use the bare name here
    Absent, Malformed,   \* a missing data key, and one that does not parse
    RefreshLimit,        \* --refresh-limit
    Session,             \* the session duration, 3600 s
    Grantable,           \* roles STS lets the controller assume
    MaxTime,             \* bound: the clock
    MaxEvents,           \* bound: pod events and edits by users
    MaxFaults            \* bound: failed calls, lost answers and crashes

ASSUME SecretsAssumption ==
    /\ {RefreshLimit, Session, MaxTime, MaxEvents, MaxFaults} \subseteq Nat
    /\ Unprefixed \subseteq Roles \X Namespaces
    /\ Absent \notin Nat \cup Roles
    /\ Malformed \notin Nat
    /\ Absent # Malformed
    /\ Grantable \subseteq Roles

VARIABLES
    used,       \* the role store, as a set of triples
    secrets,    \* the secrets of the cluster
    now,        \* the wall clock
    events,     \* steps others may still take
    pc,         \* where refresh() is
    listed,     \* the listed secrets without an owner, by key
    retaken,    \* history: listed names on which others have created a secret
                \* since the List; no step reads it
    current,    \* keys whose listed secret is still the live version
    found,      \* tmpSecretStore
    cache,      \* credsCache
    todo,       \* secrets the first loop has still to visit
    todoRoles,  \* roles the second loop has still to visit
    missing,    \* secrets the role being visited still lacks
    cur,        \* the secret about to be deleted or updated
    data,       \* the data it is about to write
    faults      \* failures that may still happen

worldVars == <<used, secrets, now, events>>
listVars == <<listed, retaken>>
scanVars == <<listVars, found, cache, todo>>
createVars == <<todoRoles, missing>>
vars == <<worldVars, pc, scanVars, current, createVars, cur, data, faults>>

Store == INSTANCE RoleSet WITH answer <- FALSE

\* A secret is named by its namespace, a prefix and the role that is left when
\* secretPrefix is trimmed; a name without the prefix is left alone.
secretPrefix == "aws-iam-"
KeyOf(role, namespace) ==
    [role |-> role, namespace |-> namespace, prefix |-> secretPrefix]
Keys ==
    {KeyOf(role, namespace) : role \in Roles, namespace \in Namespaces}
        \cup {[role |-> u[1], namespace |-> u[2], prefix |-> ""] :
                 u \in Unprefixed}

\* "ours" has the heritage label and no owner, "owned" the label and an owner
\* (a secret of the AWSIAMRole controller), "foreign" has no label.  creds is
\* the role the controller fetched the credentials for, if it did.
Stamps == Nat \cup {Absent, Malformed}
Data == [expire : Stamps, creds : Roles \cup {Absent}]
NoData == [expire |-> Absent, creds |-> Absent]
Secret == [kind : {"none", "ours", "owned", "foreign"}, data : Data]
NoSecret == [kind |-> "none", data |-> NoData]

Locations == {"listen", "serving", "idle", "scan", "delete", "update",
              "create", "fill"}

TypeOK ==
    /\ used \subseteq Roles \X Namespaces \X Pods
    /\ secrets \in [Keys -> Secret]
    /\ now \in Nat
    /\ events \in Nat
    /\ pc \in Locations
    /\ listed \in [Keys -> Secret]
    /\ retaken \subseteq Keys
    /\ current \subseteq Keys
    /\ found \subseteq Roles \X Namespaces
    /\ cache \in [Roles -> Data]
    /\ todo \subseteq Keys
    /\ todoRoles \subseteq Roles
    /\ missing \subseteq Keys
    /\ cur \in Keys \cup {Absent}
    /\ data \in Data
    /\ faults \in Nat

\* An earlier process may have left secrets everywhere.
Init ==
    /\ used = {}
    /\ \E kind \in {"none", "ours"} :
         secrets = [k \in Keys |-> [NoSecret EXCEPT !.kind = kind]]
    /\ now = 0
    /\ events = MaxEvents
    /\ pc = "listen"
    /\ listed = [k \in Keys |-> NoSecret]
    /\ retaken = {}
    /\ current = {}
    /\ found = {}
    /\ cache = [r \in Roles |-> NoData]
    /\ todo = {}
    /\ todoRoles = {}
    /\ missing = {}
    /\ cur = Absent
    /\ data = NoData
    /\ faults = MaxFaults

\* refresh() returned, or the process was restarted: its locals are gone.
Reset ==
    /\ listed' = [k \in Keys |-> NoSecret]
    /\ retaken' = {}
    /\ current' = {}
    /\ found' = {}
    /\ cache' = [r \in Roles |-> NoData]
    /\ todo' = {}
    /\ todoRoles' = {}
    /\ missing' = {}
    /\ cur' = Absent
    /\ data' = NoData

-----------------------------------------------------------------------------
(* A missing or unparsable expiry, or one closer than the refresh limit. *)
refreshCreds(secret) ==
    secret.data.expire \in Nat => now + RefreshLimit > secret.data.expire

getCreds(role) == [expire |-> now + Session, creds |-> role]

\* Wrong on purpose: a mutex that excludes nobody.
NoLock == FALSE

\* The read lock of the store is held over the whole second loop.
StoreLocked == pc \in {"create", "fill"}

\* Calls are answered, refused, or take effect while the answer is lost.
Answers == {"ok", "refused", "lost"}

Call(answer) ==
    /\ answer # "ok" => faults > 0
    /\ faults' = IF answer = "ok" THEN faults ELSE faults - 1

Succeeds(answer, admissible) == answer = "ok" /\ admissible

PutSecret(k, secret, applied) ==
    IF applied
    THEN /\ secrets' = [secrets EXCEPT ![k] = secret]
         /\ current' = current \ {k}
    ELSE UNCHANGED <<secrets, current>>

-----------------------------------------------------------------------------
\* Run serves /healthz for as long as it can, and comes to its loop only when
\* ListenAndServe returns with an error.
ListenAndServe ==
    /\ pc = "listen"
    /\ pc' \in {"serving", "idle"}
    /\ UNCHANGED <<worldVars, scanVars, current, createVars, cur, data, faults>>

-----------------------------------------------------------------------------
(* First loop. *)

\* Wrong on purpose: secrets of the AWSIAMRole controller are not skipped.
Labelled(secret) == secret.kind \in {"ours", "owned"}

\* Wrong on purpose: the check of the owner is inverted.
OwnedOnly(secret) == secret.kind = "owned"

\* The heritage label and no owner.
Ours(secret) == secret.kind = "ours"

\* The selector takes the heritage label; secrets with an owner are skipped.
\* An error ends the round.
List ==
    /\ pc = "idle"
    /\ \E answer \in {"ok", "refused"} :
         /\ Call(answer)
         /\ IF answer = "ok"
            THEN /\ pc' = "scan"
                 /\ listed' = [k \in Keys |-> IF Ours(secrets[k])
                                              THEN secrets[k] ELSE NoSecret]
                 /\ todo' = {k \in Keys : Ours(secrets[k])}
                 /\ current' = todo'
                 /\ retaken' = {}
            ELSE UNCHANGED <<pc, listVars, todo, current>>
    /\ UNCHANGED <<worldVars, found, cache, createVars, cur, data>>

Entry(k) == <<k.role, k.namespace>>

\* What every iteration begins with.
Visit(k) ==
    /\ pc = "scan"
    /\ k \in todo
    /\ todo' = todo \ {k}
    /\ found' = found \cup {Entry(k)}

Used(k) == Store!InUse(k.role, k.namespace)

\* Exists is asked before the Delete call is made.
ScanUnused(k) ==
    /\ Visit(k)
    /\ ~Used(k)
    /\ pc' = "delete"
    /\ cur' = k
    /\ UNCHANGED <<worldVars, listVars, current, cache, createVars, data, faults>>

DeleteUnused ==
    /\ pc = "delete"
    /\ \E answer \in Answers :
         /\ Call(answer)
         /\ PutSecret(cur, NoSecret,
                      answer # "refused" /\ secrets[cur].kind # "none")
    /\ pc' = "scan"
    /\ cur' = Absent
    /\ UNCHANGED <<used, now, events, scanVars, createVars, data>>

\* Wrong on purpose: the cache forgets whose credentials they are.
CachedForAll(role, d) == [r \in Roles |-> d]

Cached(role, d) == [cache EXCEPT ![role] = d]

\* Credentials that last are kept and reused for other namespaces.
ScanKeep(k) ==
    /\ Visit(k)
    /\ Used(k)
    /\ ~refreshCreds(listed[k])
    /\ cache' = Cached(k.role, listed[k].data)
    /\ UNCHANGED <<worldVars, pc, listVars, current, createVars, cur, data,
                   faults>>

ScanGetCreds(k) ==
    /\ Visit(k)
    /\ Used(k)
    /\ refreshCreds(listed[k])
    /\ \E answer \in {"ok", "refused"} :
         /\ Call(answer)
         /\ IF Succeeds(answer, k.role \in Grantable)
            THEN pc' = "update" /\ cur' = k /\ data' = getCreds(k.role)
            ELSE UNCHANGED <<pc, cur, data>>
    /\ UNCHANGED <<worldVars, listVars, current, cache, createVars>>

Update ==
    /\ pc = "update"
    /\ \E answer \in Answers :
         LET admissible == cur \in current IN
         /\ Call(answer)
         /\ PutSecret(cur, [listed[cur] EXCEPT !.data = data],
                      answer # "refused" /\ admissible)
         /\ cache' = IF Succeeds(answer, admissible)
                     THEN Cached(cur.role, data) ELSE cache
    /\ pc' = "scan"
    /\ cur' = Absent
    /\ data' = NoData
    /\ UNCHANGED <<used, now, events, listVars, found, todo, createVars>>

ScanDone ==
    /\ pc = "scan"
    /\ todo = {}
    /\ pc' = "create"
    /\ todoRoles' =
         {r \in Roles : \E ns \in Namespaces : Store!InUse(r, ns)}
    /\ UNCHANGED <<worldVars, scanVars, current, missing, cur, data, faults>>

-----------------------------------------------------------------------------
(* Second loop, under the read lock. *)

LacksSecret(role, ns) == Store!InUse(role, ns) /\ <<role, ns>> \notin found

\* The inner loop: namespaces that use the role and had no secret for it.
Fill(role, d) ==
    /\ pc' = "fill"
    /\ data' = d
    /\ missing' =
         {KeyOf(role, ns) : ns \in {ns \in Namespaces : LacksSecret(role, ns)}}

RoleCached(r) ==
    /\ pc = "create"
    /\ r \in todoRoles
    /\ cache[r] # NoData
    /\ todoRoles' = todoRoles \ {r}
    /\ Fill(r, cache[r])
    /\ UNCHANGED <<worldVars, scanVars, current, cur, faults>>

RoleGetCreds(r) ==
    /\ pc = "create"
    /\ r \in todoRoles
    /\ cache[r] = NoData
    /\ todoRoles' = todoRoles \ {r}
    /\ \E answer \in {"ok", "refused"} :
         /\ Call(answer)
         /\ IF Succeeds(answer, r \in Grantable)
            THEN Fill(r, getCreds(r))
            ELSE UNCHANGED <<pc, data, missing>>
    /\ UNCHANGED <<worldVars, scanVars, current, cur>>

CreateSecret(k) ==
    /\ pc = "fill"
    /\ k \in missing
    /\ missing' = missing \ {k}
    /\ \E answer \in Answers :
         /\ Call(answer)
         /\ PutSecret(k, [kind |-> "ours", data |-> data],
                      answer # "refused" /\ secrets[k].kind = "none")
    /\ UNCHANGED <<used, now, events, pc, scanVars, todoRoles, cur, data>>

FillDone ==
    /\ pc = "fill"
    /\ missing = {}
    /\ pc' = "create"
    /\ data' = NoData
    /\ UNCHANGED <<worldVars, scanVars, current, createVars, cur, faults>>

CreateDone ==
    /\ pc = "create"
    /\ todoRoles = {}
    /\ pc' = "idle"
    /\ Reset
    /\ UNCHANGED <<worldVars, faults>>

-----------------------------------------------------------------------------
(* The process is killed and restarted.  The store is refilled by whoever  *)
(* watches the pods; it comes back empty.                                  *)
Restart ==
    /\ pc' = "listen"
    /\ used' = {}
    /\ Reset
    /\ UNCHANGED <<secrets, now, events>>

Crash ==
    /\ pc # "listen"
    /\ faults > 0
    /\ faults' = faults - 1
    /\ Restart

\* While Run serves, nextRefresh grows old, the liveness check fails, and the
\* kubelet restarts the container (Process).
ProbeFails ==
    /\ pc = "serving"
    /\ Restart
    /\ UNCHANGED faults

ControllerStep ==
    \/ ListenAndServe
    \/ List
    \/ \E k \in Keys : ScanUnused(k)
    \/ DeleteUnused
    \/ \E k \in Keys : ScanKeep(k)
    \/ \E k \in Keys : ScanGetCreds(k)
    \/ Update
    \/ ScanDone
    \/ \E r \in Roles : RoleCached(r)
    \/ \E r \in Roles : RoleGetCreds(r)
    \/ \E k \in Keys : CreateSecret(k)
    \/ FillDone
    \/ CreateDone

ListedKeys == {k \in Keys : listed[k].kind = "ours"}

\* A step of somebody else; it moves the resourceVersion of what it changes.
Event ==
    /\ events > 0
    /\ events' = events - 1
    /\ current' = {k \in current : secrets'[k] = secrets[k]}
    /\ retaken' = retaken \cup {k \in ListedKeys : /\ secrets[k].kind = "none"
                                                  /\ secrets'[k].kind # "none"}
    /\ UNCHANGED <<now, pc, listed, found, cache, todo, createVars, cur, data,
                   faults>>

\* The steps Add and Remove of RoleSet; both take the write lock.
PodAdded(role, namespace, name) ==
    /\ ~StoreLocked
    /\ used' = used \cup {<<role, namespace, name>>}
    /\ UNCHANGED secrets
    /\ Event

PodRemoved(role, namespace, name) ==
    /\ ~StoreLocked
    /\ <<role, namespace, name>> \in used
    /\ used' = used \ {<<role, namespace, name>>}
    /\ UNCHANGED secrets
    /\ Event

\* Others delete secrets, or damage an expiry that is whole.
EditSecret(k) ==
    /\ secrets[k].kind # "none"
    /\ \/ secrets' = [secrets EXCEPT ![k] = NoSecret]
       \/ /\ secrets[k].data.expire \in Nat
          /\ \E s \in {Absent, Malformed} :
               secrets' = [secrets EXCEPT ![k].data.expire = s]
    /\ UNCHANGED used
    /\ Event

\* Others create a secret on a free name, whatever this controller is doing:
\* users, or the AWSIAMRole controller, which runs in the same process.
OthersCreate(k) ==
    /\ secrets[k].kind = "none"
    /\ \E kind \in {"owned", "foreign"} :
         secrets' = [secrets EXCEPT ![k].kind = kind]
    /\ UNCHANGED used
    /\ Event

Tick ==
    /\ now < MaxTime
    /\ now' = now + 1
    /\ UNCHANGED <<used, secrets, events, pc, scanVars, current, createVars,
                   cur, data, faults>>

Next ==
    \/ ControllerStep
    \/ Crash
    \/ ProbeFails
    \/ \E r \in Roles, ns \in Namespaces, p \in Pods :
          PodAdded(r, ns, p) \/ PodRemoved(r, ns, p)
    \/ \E k \in Keys : EditSecret(k) \/ OthersCreate(k)
    \/ Tick

Spec == Init /\ [][Next]_vars

\* The goroutine of Run takes its next step and the clock keeps moving.  Which
\* step that is after "listen" is not Run's choice: where ListenAndServe blocks,
\* nothing below it runs.
FairSpec == Spec /\ WF_vars(ControllerStep) /\ WF_vars(Tick)
-----------------------------------------------------------------------------
(* Properties *)

\* Credentials never end up under the name of another role, although one fetch
\* serves every namespace of a role through credsCache.
OwnCredentials ==
    \A k \in Keys : secrets[k].data.creds \in {Absent, k.role}

\* A secret is only created while a pod of the namespace uses the role: the
\* read lock keeps the store still between the decision and the call.
CreatesOnlyUsed ==
    [][\A k \in Keys :
          ControllerStep /\ secrets[k].kind = "none" /\ secrets'[k].kind # "none"
              => Store!InUse(k.role, k.namespace)]_vars

\* Secrets of the AWSIAMRole controller ("skip secrets owned by someone") and
\* secrets without the label are never overwritten, whenever they come to be.
\* One is deleted in one case only: it was created after the List on the name
\* of a listed secret that is gone, and Delete names the secret only.
OthersUntouched ==
    [][\A k \in Keys :
          ControllerStep /\ secrets[k].kind \in {"owned", "foreign"}
              => \/ secrets'[k] = secrets[k]
                 \/ k \in retaken /\ secrets'[k] = NoSecret]_vars

-----------------------------------------------------------------------------
(* The inductive invariant behind the safety properties. *)

\* The loops visit what was listed, and a round leaves no list behind.
LoopsVisitListed ==
    /\ \A k \in Keys : k \notin ListedKeys => listed[k] = NoSecret
    /\ pc \in {"listen", "serving", "idle"} => ListedKeys = {}
    /\ todo \subseteq ListedKeys
    /\ pc \in {"delete", "update"} => cur \in ListedKeys

\* Credentials on their way into a secret are of the role in its name.
HeldCredentials ==
    /\ \A k \in Keys : listed[k].data.creds \in {Absent, k.role}
    /\ \A r \in Roles : cache[r].creds \in {Absent, r}
    /\ pc = "update" => data.creds = cur.role
    /\ pc = "fill" => \A k \in missing : data.creds \in {Absent, k.role}

\* A listed secret whose version is live is the live one.
CurrentIsListed == \A k \in current \cap ListedKeys : secrets[k] = listed[k]

\* What now has the name of a listed secret is ours too, unless others have
\* created it since.
ListedStayOurs ==
    \A k \in ListedKeys \ retaken : secrets[k].kind \in {"none", "ours"}

\* The store stands still while secrets are created.
MissingAreUsed ==
    pc = "fill" => \A k \in missing : Store!InUse(k.role, k.namespace)

SecretsInv ==
    /\ TypeOK
    /\ OwnCredentials
    /\ LoopsVisitListed
    /\ HeldCredentials
    /\ CurrentIsListed
    /\ ListedStayOurs
    /\ MissingAreUsed

-----------------------------------------------------------------------------
\* Run got past ListenAndServe and is at its loop.
LoopRuns == pc \notin {"listen", "serving"}

\* Once pod events, edits and failures stop, no secret without an owner is left
\* for a role nobody uses, provided that Run has come to its loop at all: where
\* ListenAndServe keeps the goroutine, no round ever looks at them.
UnusedSecretsGetRemoved ==
    \A k \in Keys :
        <>[]LoopRuns =>
            <>[](secrets[k].kind = "ours" => Store!InUse(k.role, k.namespace))
=============================================================================
