---------------------- MODULE SecretsControllerProofs ----------------------
(***************************************************************************)
(* Theorems about SecretsController, for every set of roles, namespaces,   *)
(* pods and bounds.                                                        *)
(***************************************************************************)
EXTENDS SecretsController, TLAPS

-----------------------------------------------------------------------------
(* Typing of the operators. *)

\* A key names a role and a namespace, and KeyOf names a key.
LEMMA KeyFacts ==
  /\ \A k \in Keys : k.role \in Roles /\ k.namespace \in Namespaces
  /\ \A r \in Roles, ns \in Namespaces :
        /\ KeyOf(r, ns) \in Keys
        /\ KeyOf(r, ns).role = r
        /\ KeyOf(r, ns).namespace = ns
<1> DEFINE Prefixed == {KeyOf(r, ns) : r \in Roles, ns \in Namespaces}
<1> DEFINE Bare == {[role |-> u[1], namespace |-> u[2], prefix |-> ""] :
                      u \in Unprefixed}
<1>1. Keys = Prefixed \cup Bare
  BY DEF Keys
<1>2. \A r \in Roles, ns \in Namespaces : KeyOf(r, ns) \in Prefixed
  OBVIOUS
<1>3. \A r, ns : KeyOf(r, ns).role = r /\ KeyOf(r, ns).namespace = ns
  BY DEF KeyOf
<1>4. ASSUME NEW k \in Prefixed
      PROVE  k.role \in Roles /\ k.namespace \in Namespaces
  BY <1>3
<1>5. ASSUME NEW k \in Bare
      PROVE  k.role \in Roles /\ k.namespace \in Namespaces
  <2>1. PICK u \in Unprefixed :
          k = [role |-> u[1], namespace |-> u[2], prefix |-> ""]
    OBVIOUS
  <2> HIDE DEF Bare
  <2>2. u[1] \in Roles /\ u[2] \in Namespaces
    BY SecretsAssumption
  <2>3. k.role = u[1] /\ k.namespace = u[2]
    BY <2>1
  <2> QED
    BY <2>2, <2>3
<1> HIDE DEF Prefixed, Bare
<1> QED
  BY <1>1, <1>2, <1>3, <1>4, <1>5

\* The records that stand for missing data and secrets are well typed.
LEMMA EmptyObjects ==
  /\ NoData \in Data
  /\ NoSecret \in Secret
  /\ NoSecret.kind = "none"
  /\ NoSecret.data.creds = Absent
  /\ \A kind \in {"none", "ours"} :
        /\ [NoSecret EXCEPT !.kind = kind] \in Secret
        /\ [NoSecret EXCEPT !.kind = kind].data.creds = Absent
  /\ NoData.creds = Absent
  /\ Absent \notin Roles
BY SecretsAssumption DEF NoData, NoSecret, Data, Secret, Stamps

\* What getCreds returns carries the role it was asked for.
LEMMA CredsType ==
  ASSUME NEW r \in Roles, now \in Nat
  PROVE  getCreds(r) \in Data /\ getCreds(r).creds = r
BY SecretsAssumption DEF getCreds, Data, Stamps

\* What an Update sends is the listed secret with other data.
LEMMA WithDataType ==
  ASSUME NEW s \in Secret, NEW d \in Data
  PROVE  /\ [s EXCEPT !.data = d] \in Secret
         /\ [s EXCEPT !.data = d].kind = s.kind
         /\ [s EXCEPT !.data = d].data = d
BY DEF Secret

\* And its fields have their types.
LEMMA SecretFields ==
  ASSUME NEW s \in Secret
  PROVE  s.data \in Data /\ s.kind \in {"none", "ours", "owned", "foreign"}
BY DEF Secret

-----------------------------------------------------------------------------
(* Steps by what they do to the secrets. *)

\* A step that keeps the list, takes the keys it writes out of current, and
\* writes nothing of another kind over a listed secret, unless others did.
LEMMA ListsStayTrue ==
  ASSUME SecretsInv, UNCHANGED listed, current' \subseteq current,
         retaken \subseteq retaken',
         \A k \in current' : secrets'[k] = secrets[k],
         \A k \in ListedKeys \ retaken' :
            \/ secrets'[k].kind = secrets[k].kind
            \/ secrets'[k].kind \in {"none", "ours"}
  PROVE  CurrentIsListed' /\ ListedStayOurs'
BY DEF SecretsInv, CurrentIsListed, ListedStayOurs, ListedKeys

\* A call writes one secret or none.
LEMMA PutSecretEffect ==
  ASSUME TypeOK, OwnCredentials, NEW k \in Keys, NEW s \in Secret,
         s.data.creds \in {Absent, k.role}, NEW applied \in BOOLEAN,
         PutSecret(k, s, applied)
  PROVE  /\ secrets' \in [Keys -> Secret]
         /\ OwnCredentials'
         /\ current' \subseteq current
         /\ \A j \in current' : secrets'[j] = secrets[j]
         /\ \A j \in Keys : \/ secrets'[j] = secrets[j]
                            \/ j = k /\ applied /\ secrets'[j] = s
<1>1. secrets \in [Keys -> Secret] /\ current \subseteq Keys
  BY DEF TypeOK
<1>2. CASE applied
  <2>1. secrets' = [secrets EXCEPT ![k] = s] /\ current' = current \ {k}
    BY <1>2 DEF PutSecret
  <2> QED
    BY <1>1, <1>2, <2>1 DEF OwnCredentials
<1>3. CASE ~applied
  BY <1>1, <1>3 DEF PutSecret, OwnCredentials
<1> QED
  BY <1>2, <1>3

\* With its locals gone, a round has nothing left to go wrong.
LEMMA ResetKeepsInv ==
  ASSUME SecretsInv, Reset, pc' \in {"idle", "listen"},
         UNCHANGED <<secrets, now>>,
         used' \subseteq Roles \X Namespaces \X Pods,
         events' \in Nat, faults' \in Nat
  PROVE  SecretsInv'
<1>1. TypeOK'
  BY EmptyObjects DEF SecretsInv, TypeOK, Reset, Locations
<1>2. OwnCredentials'
  BY DEF SecretsInv, OwnCredentials
<1>3. LoopsVisitListed' /\ CurrentIsListed' /\ ListedStayOurs'
  BY EmptyObjects
  DEF Reset, LoopsVisitListed, CurrentIsListed, ListedStayOurs, ListedKeys
<1>4. HeldCredentials' /\ MissingAreUsed'
  BY EmptyObjects DEF Reset, HeldCredentials, MissingAreUsed
<1> QED
  BY <1>1, <1>2, <1>3, <1>4 DEF SecretsInv

\* The initial state.
LEMMA InitInv == Init => SecretsInv
<1> SUFFICES ASSUME Init PROVE SecretsInv
  OBVIOUS
<1>1. PICK kind \in {"none", "ours"} :
        secrets = [k \in Keys |-> [NoSecret EXCEPT !.kind = kind]]
  BY DEF Init
<1>2. secrets \in [Keys -> Secret] /\ OwnCredentials
  BY <1>1, EmptyObjects DEF OwnCredentials
<1>3. TypeOK
  BY <1>2, EmptyObjects, SecretsAssumption DEF Init, TypeOK, Locations
<1>4. LoopsVisitListed /\ CurrentIsListed /\ ListedStayOurs
  BY EmptyObjects
  DEF Init, LoopsVisitListed, CurrentIsListed, ListedStayOurs, ListedKeys
<1>5. HeldCredentials /\ MissingAreUsed
  BY EmptyObjects DEF Init, HeldCredentials, MissingAreUsed
<1> QED
  BY <1>2, <1>3, <1>4, <1>5 DEF SecretsInv

-----------------------------------------------------------------------------
(* The first loop. *)

\* The list is what the cluster has at that moment.
LEMMA ListKeepsInv ==
  ASSUME SecretsInv, List
  PROVE  SecretsInv'
<1> DEFINE snap == [k \in Keys |-> IF Ours(secrets[k])
                                   THEN secrets[k] ELSE NoSecret]
<1>1. TypeOK /\ OwnCredentials /\ pc = "idle" /\ UNCHANGED worldVars
      /\ UNCHANGED <<found, cache, createVars, cur, data>>
  BY DEF SecretsInv, List
<1>2. PICK answer \in {"ok", "refused"} :
        /\ Call(answer)
        /\ IF answer = "ok"
           THEN /\ pc' = "scan"
                /\ listed' = snap
                /\ todo' = {k \in Keys : Ours(secrets[k])}
                /\ current' = todo'
                /\ retaken' = {}
           ELSE UNCHANGED <<pc, listVars, todo, current>>
  BY DEF List
<1>3. faults' \in Nat
  BY <1>1, <1>2 DEF Call, TypeOK
<1>4. CASE answer = "ok"
  <2>1. /\ pc' = "scan" /\ listed' = snap /\ current' = todo' /\ retaken' = {}
        /\ todo' = {k \in Keys : Ours(secrets[k])}
    BY <1>2, <1>4
  <2>2. /\ snap \in [Keys -> Secret]
        /\ \A k \in Keys : IF secrets[k].kind = "ours"
                           THEN snap[k] = secrets[k] ELSE snap[k] = NoSecret
    BY <1>1, EmptyObjects DEF TypeOK, Ours
  <2>3. ListedKeys' = {k \in Keys : secrets[k].kind = "ours"}
    BY <2>1, <2>2, EmptyObjects DEF ListedKeys
  <2>4. TypeOK'
    BY <1>1, <1>3, <2>1, <2>2 DEF TypeOK, worldVars, createVars, Locations
  <2>5. OwnCredentials'
    BY <1>1 DEF OwnCredentials, worldVars
  <2>6. LoopsVisitListed' /\ CurrentIsListed' /\ ListedStayOurs'
    BY <1>1, <2>1, <2>2, <2>3
    DEF LoopsVisitListed, CurrentIsListed, ListedStayOurs, worldVars, Ours
  <2>7. HeldCredentials'
    BY <1>1, <2>1, <2>2, EmptyObjects
    DEF SecretsInv, HeldCredentials, OwnCredentials, createVars
  <2>8. MissingAreUsed'
    BY <2>1 DEF MissingAreUsed
  <2> QED
    BY <2>4, <2>5, <2>6, <2>7, <2>8 DEF SecretsInv
<1>5. CASE answer = "refused"
  <2>1. UNCHANGED <<worldVars, pc, scanVars, current, createVars, cur, data>>
    BY <1>1, <1>2, <1>5 DEF scanVars, listVars
  <2>2. TypeOK'
    BY <1>1, <1>3, <2>1 DEF TypeOK, worldVars, scanVars, listVars, createVars
  <2> QED
    BY <2>1, <2>2
    DEF SecretsInv, OwnCredentials, LoopsVisitListed, HeldCredentials,
        CurrentIsListed, ListedStayOurs, MissingAreUsed, ListedKeys, Store!InUse,
        worldVars, scanVars, listVars, createVars
<1> QED
  BY <1>2, <1>4, <1>5

\* An iteration that makes no write leaves the next call with a listed key and
\* credentials of its role.
LEMMA LocalStepKeepsInv ==
  ASSUME SecretsInv, UNCHANGED <<worldVars, listVars, current>>, TypeOK',
         todo' \subseteq todo,
         pc' \notin {"listen", "serving", "idle"},
         pc' \in {"delete", "update"} => cur' \in ListedKeys,
         \A r \in Roles : cache'[r].creds \in {Absent, r},
         pc' = "update" => data'.creds = cur'.role,
         pc' = "fill" =>
            \A k \in missing' : /\ data'.creds \in {Absent, k.role}
                                /\ Store!InUse(k.role, k.namespace)
  PROVE  SecretsInv'
<1>1. OwnCredentials' /\ CurrentIsListed' /\ ListedStayOurs'
  BY DEF SecretsInv, OwnCredentials, CurrentIsListed, ListedStayOurs, ListedKeys,
         worldVars, listVars
<1>2. LoopsVisitListed'
  BY DEF SecretsInv, LoopsVisitListed, ListedKeys, listVars
<1>3. HeldCredentials'
  BY DEF SecretsInv, HeldCredentials, listVars
<1>4. MissingAreUsed'
  BY DEF MissingAreUsed, Store!InUse, worldVars
<1> QED
  BY <1>1, <1>2, <1>3, <1>4 DEF SecretsInv

\* Visiting a secret takes it from the list of what is left.
LEMMA VisitEffect ==
  ASSUME SecretsInv, NEW k \in Keys, Visit(k)
  PROVE  /\ k \in ListedKeys
         /\ k.role \in Roles /\ k.namespace \in Namespaces
         /\ listed[k] \in Secret /\ listed[k].data \in Data
         /\ listed[k].data.creds \in {Absent, k.role}
         /\ pc = "scan"
         /\ todo' \subseteq todo
         /\ todo' \subseteq Keys
         /\ found' \subseteq Roles \X Namespaces
<1>1. k.role \in Roles /\ k.namespace \in Namespaces
  BY KeyFacts
<1>2. listed[k] \in Secret
  BY DEF SecretsInv, TypeOK
<1>3. found' \subseteq Roles \X Namespaces
  BY <1>1 DEF SecretsInv, TypeOK, Visit, Entry
<1> QED
  BY <1>1, <1>2, <1>3, SecretFields
  DEF SecretsInv, TypeOK, LoopsVisitListed, HeldCredentials, Visit

\* The cache holds credentials under the role they are of.
LEMMA CachedEffect ==
  ASSUME SecretsInv, NEW r \in Roles, NEW d \in Data, d.creds \in {Absent, r},
         cache' = Cached(r, d)
  PROVE  /\ cache' \in [Roles -> Data]
         /\ \A q \in Roles : cache'[q].creds \in {Absent, q}
BY DEF SecretsInv, TypeOK, HeldCredentials, Cached

LEMMA ScanUnusedKeepsInv ==
  ASSUME SecretsInv, NEW k \in Keys, ScanUnused(k)
  PROVE  SecretsInv'
<1>1. Visit(k) /\ pc' = "delete" /\ cur' = k
      /\ UNCHANGED <<worldVars, listVars, current, cache, createVars, data,
                     faults>>
  BY DEF ScanUnused
<1>2. TypeOK'
  BY <1>1, VisitEffect
  DEF SecretsInv, TypeOK, Locations, worldVars, createVars, listVars
<1> QED
  BY <1>1, <1>2, VisitEffect, LocalStepKeepsInv DEF SecretsInv, HeldCredentials

LEMMA ScanKeepKeepsInv ==
  ASSUME SecretsInv, NEW k \in Keys, ScanKeep(k)
  PROVE  SecretsInv'
<1>1. Visit(k) /\ cache' = Cached(k.role, listed[k].data)
      /\ UNCHANGED <<worldVars, pc, listVars, current, createVars, cur, data,
                     faults>>
  BY DEF ScanKeep
<1>2. /\ cache' \in [Roles -> Data]
      /\ \A r \in Roles : cache'[r].creds \in {Absent, r}
  BY <1>1, VisitEffect, CachedEffect
<1>3. TypeOK'
  BY <1>1, <1>2, VisitEffect
  DEF SecretsInv, TypeOK, worldVars, createVars, listVars
<1> QED
  BY <1>1, <1>2, <1>3, VisitEffect, LocalStepKeepsInv

LEMMA ScanGetCredsKeepsInv ==
  ASSUME SecretsInv, NEW k \in Keys, ScanGetCreds(k)
  PROVE  SecretsInv'
<1>1. Visit(k) /\ UNCHANGED <<worldVars, listVars, current, cache, createVars>>
  BY DEF ScanGetCreds
<1>2. PICK answer \in {"ok", "refused"} :
        /\ Call(answer)
        /\ IF Succeeds(answer, k.role \in Grantable)
           THEN pc' = "update" /\ cur' = k /\ data' = getCreds(k.role)
           ELSE UNCHANGED <<pc, cur, data>>
  BY DEF ScanGetCreds
<1>3. faults' \in Nat
  BY <1>2 DEF SecretsInv, TypeOK, Call
<1>4. getCreds(k.role) \in Data /\ getCreds(k.role).creds = k.role
  BY <1>1, VisitEffect, CredsType DEF SecretsInv, TypeOK
<1>5. /\ pc' \in {"update", pc} /\ cur' \in {k, cur}
      /\ data' \in {getCreds(k.role), data}
  BY <1>2
<1>6. TypeOK'
  BY <1>1, <1>3, <1>4, <1>5, VisitEffect
  DEF SecretsInv, TypeOK, Locations, worldVars, createVars, listVars
<1>7. pc' \in {"update", "scan"}
  BY <1>1, <1>5, VisitEffect
<1>8. pc' = "update" => cur' = k /\ data' = getCreds(k.role)
  BY <1>1, <1>2, VisitEffect
<1> QED
  BY <1>1, <1>4, <1>6, <1>7, <1>8, VisitEffect, LocalStepKeepsInv
  DEF SecretsInv, HeldCredentials

LEMMA ScanDoneKeepsInv ==
  ASSUME SecretsInv, ScanDone
  PROVE  SecretsInv'
<1>1. TypeOK'
  BY DEF SecretsInv, TypeOK, Locations, ScanDone, worldVars, scanVars, listVars
<1> QED
  BY <1>1, LocalStepKeepsInv
  DEF SecretsInv, HeldCredentials, ScanDone, worldVars, scanVars, listVars

\* The second loop: the missing secrets of a role are names of that role in
\* namespaces that use it.
LEMMA FillEffect ==
  ASSUME SecretsInv, NEW r \in Roles, NEW d \in Data, d.creds \in {Absent, r},
         Fill(r, d)
  PROVE  /\ pc' = "fill"
         /\ data' = d
         /\ missing' \subseteq Keys
         /\ \A k \in missing' : /\ d.creds \in {Absent, k.role}
                                /\ Store!InUse(k.role, k.namespace)
<1>1. missing' =
        {KeyOf(r, ns) : ns \in {ns \in Namespaces : LacksSecret(r, ns)}}
  BY DEF Fill
<1>2. \A ns \in Namespaces :
         LacksSecret(r, ns) => Store!InUse(r, ns)
  BY DEF LacksSecret
<1>3. ASSUME NEW k \in missing'
      PROVE  /\ k \in Keys
             /\ k.role = r
             /\ Store!InUse(k.role, k.namespace)
  <2>1. PICK ns \in Namespaces : LacksSecret(r, ns) /\ k = KeyOf(r, ns)
    BY <1>1
  <2> QED
    BY <1>2, <2>1, KeyFacts
<1> QED
  BY <1>3 DEF Fill

LEMMA RoleCachedKeepsInv ==
  ASSUME SecretsInv, NEW r \in Roles, RoleCached(r)
  PROVE  SecretsInv'
<1>1. Fill(r, cache[r]) /\ todoRoles' = todoRoles \ {r}
      /\ UNCHANGED <<worldVars, scanVars, current, cur, faults>>
  BY DEF RoleCached
<1>2. cache[r] \in Data /\ cache[r].creds \in {Absent, r}
  BY DEF SecretsInv, TypeOK, HeldCredentials
<1>3. /\ pc' = "fill"
      /\ data' = cache[r]
      /\ missing' \subseteq Keys
      /\ \A k \in missing' : /\ data'.creds \in {Absent, k.role}
                             /\ Store!InUse(k.role, k.namespace)
  BY <1>1, <1>2, FillEffect
<1>4. TypeOK'
  BY <1>1, <1>2, <1>3
  DEF SecretsInv, TypeOK, Locations, worldVars, scanVars, listVars
<1> QED
  BY <1>1, <1>3, <1>4, LocalStepKeepsInv
  DEF SecretsInv, HeldCredentials, scanVars, listVars

LEMMA RoleGetCredsKeepsInv ==
  ASSUME SecretsInv, NEW r \in Roles, RoleGetCreds(r)
  PROVE  SecretsInv'
<1>1. pc = "create" /\ todoRoles' = todoRoles \ {r}
      /\ UNCHANGED <<worldVars, scanVars, current, cur>>
  BY DEF RoleGetCreds
<1>2. PICK answer \in {"ok", "refused"} :
        /\ Call(answer)
        /\ IF Succeeds(answer, r \in Grantable)
           THEN Fill(r, getCreds(r))
           ELSE UNCHANGED <<pc, data, missing>>
  BY DEF RoleGetCreds
<1>3. faults' \in Nat
  BY <1>2 DEF SecretsInv, TypeOK, Call
<1>4. CASE Succeeds(answer, r \in Grantable)
  <2>1. getCreds(r) \in Data /\ getCreds(r).creds = r
    BY CredsType DEF SecretsInv, TypeOK
  <2>2. /\ pc' = "fill"
        /\ data' = getCreds(r)
        /\ missing' \subseteq Keys
        /\ \A k \in missing' : /\ data'.creds \in {Absent, k.role}
                               /\ Store!InUse(k.role, k.namespace)
    BY <1>2, <1>4, <2>1, FillEffect
  <2>3. TypeOK'
    BY <1>1, <1>3, <2>1, <2>2
    DEF SecretsInv, TypeOK, Locations, worldVars, scanVars, listVars
  <2> QED
    BY <1>1, <2>2, <2>3, LocalStepKeepsInv
    DEF SecretsInv, HeldCredentials, scanVars, listVars
<1>5. CASE ~Succeeds(answer, r \in Grantable)
  <2>1. UNCHANGED <<pc, data, missing>>
    BY <1>2, <1>5
  <2>2. TypeOK'
    BY <1>1, <1>3, <2>1 DEF SecretsInv, TypeOK, worldVars, scanVars, listVars
  <2> QED
    BY <1>1, <2>1, <2>2, LocalStepKeepsInv
    DEF SecretsInv, HeldCredentials, scanVars, listVars
<1> QED
  BY <1>4, <1>5

LEMMA FillDoneKeepsInv ==
  ASSUME SecretsInv, FillDone
  PROVE  SecretsInv'
<1>1. TypeOK'
  BY EmptyObjects
  DEF SecretsInv, TypeOK, Locations, FillDone, worldVars, scanVars, listVars,
      createVars
<1> QED
  BY <1>1, LocalStepKeepsInv
  DEF SecretsInv, HeldCredentials, FillDone, worldVars, scanVars, listVars

-----------------------------------------------------------------------------
(* The calls that write. *)

\* The Delete takes away whatever has the name of the listed secret.
LEMMA DeleteUnusedKeepsInv ==
  ASSUME SecretsInv, DeleteUnused
  PROVE  SecretsInv'
<1>1. /\ pc = "delete" /\ pc' = "scan" /\ cur' = Absent
      /\ UNCHANGED <<used, now, events, scanVars, createVars, data>>
  BY DEF DeleteUnused
<1>2. PICK answer \in Answers :
        /\ Call(answer)
        /\ PutSecret(cur, NoSecret,
                     answer # "refused" /\ secrets[cur].kind # "none")
  BY DEF DeleteUnused
<1>3. cur \in ListedKeys /\ cur \in Keys
  BY <1>1 DEF SecretsInv, LoopsVisitListed, ListedKeys
<1>4. /\ secrets' \in [Keys -> Secret]
      /\ OwnCredentials'
      /\ current' \subseteq current
      /\ \A j \in current' : secrets'[j] = secrets[j]
      /\ \A j \in Keys : secrets'[j] \in {secrets[j], NoSecret}
  BY <1>2, <1>3, EmptyObjects, PutSecretEffect DEF SecretsInv
<1>5. faults' \in Nat
  BY <1>2 DEF SecretsInv, TypeOK, Call
<1>6. TypeOK'
  BY <1>1, <1>4, <1>5
  DEF SecretsInv, TypeOK, Locations, scanVars, listVars, createVars
<1>7. CurrentIsListed' /\ ListedStayOurs'
  BY <1>1, <1>4, EmptyObjects, ListsStayTrue DEF scanVars, listVars, ListedKeys
<1>8. LoopsVisitListed'
  BY <1>1 DEF SecretsInv, LoopsVisitListed, ListedKeys, scanVars, listVars
<1>9. HeldCredentials' /\ MissingAreUsed'
  BY <1>1 DEF SecretsInv, HeldCredentials, MissingAreUsed, scanVars, listVars
<1> QED
  BY <1>4, <1>6, <1>7, <1>8, <1>9 DEF SecretsInv

\* An accepted Update overwrites the very secret that was listed.
LEMMA UpdateEffect ==
  ASSUME SecretsInv, Update
  PROVE  /\ cur \in ListedKeys /\ cur.role \in Roles
         /\ data \in Data /\ data.creds = cur.role
         /\ secrets' \in [Keys -> Secret]
         /\ OwnCredentials'
         /\ current' \subseteq current
         /\ \A j \in current' : secrets'[j] = secrets[j]
         /\ \A j \in Keys : \/ secrets'[j] = secrets[j]
                            \/ secrets[j].kind = "ours" /\ secrets'[j].kind = "ours"
         /\ cache' \in {cache, Cached(cur.role, data)}
         /\ faults' \in Nat
<1>1. PICK answer \in Answers :
        /\ Call(answer)
        /\ PutSecret(cur, [listed[cur] EXCEPT !.data = data],
                     answer # "refused" /\ cur \in current)
        /\ cache' = IF Succeeds(answer, cur \in current)
                    THEN Cached(cur.role, data) ELSE cache
  BY DEF Update
<1>2. cur \in ListedKeys /\ cur \in Keys /\ cur.role \in Roles
  BY KeyFacts DEF SecretsInv, LoopsVisitListed, ListedKeys, Update
<1>3. data \in Data /\ data.creds = cur.role
  BY DEF SecretsInv, TypeOK, HeldCredentials, Update
<1> DEFINE s == [listed[cur] EXCEPT !.data = data]
<1>4. listed[cur] \in Secret /\ listed[cur].kind = "ours"
  BY <1>2 DEF SecretsInv, TypeOK, ListedKeys
<1>5. s \in Secret /\ s.kind = "ours" /\ s.data.creds \in {Absent, cur.role}
  BY <1>3, <1>4, WithDataType
<1> HIDE DEF s
<1>6. PutSecret(cur, s, answer # "refused" /\ cur \in current)
  BY <1>1 DEF s
<1>7. /\ secrets' \in [Keys -> Secret]
      /\ OwnCredentials'
      /\ current' \subseteq current
      /\ \A j \in current' : secrets'[j] = secrets[j]
      /\ \A j \in Keys : \/ secrets'[j] = secrets[j]
                         \/ j = cur /\ cur \in current /\ secrets'[j] = s
  BY <1>2, <1>5, <1>6, PutSecretEffect DEF SecretsInv
<1>8. cur \in current => secrets[cur].kind = "ours"
  BY <1>2, <1>4 DEF SecretsInv, CurrentIsListed
<1>9. faults' \in Nat
  BY <1>1 DEF SecretsInv, TypeOK, Call
<1> QED
  BY <1>1, <1>2, <1>3, <1>5, <1>7, <1>8, <1>9

LEMMA UpdateKeepsInv ==
  ASSUME SecretsInv, Update
  PROVE  SecretsInv'
<1>1. /\ pc = "update" /\ pc' = "scan" /\ cur' = Absent /\ data' = NoData
      /\ UNCHANGED <<used, now, events, listVars, found, todo, createVars>>
  BY DEF Update
<1>2. /\ cache' \in [Roles -> Data]
      /\ \A r \in Roles : cache'[r].creds \in {Absent, r}
  <2>1. CASE cache' = cache
    BY <2>1 DEF SecretsInv, TypeOK, HeldCredentials
  <2>2. CASE cache' = Cached(cur.role, data)
    BY <2>2, UpdateEffect, CachedEffect
  <2> QED
    BY <2>1, <2>2, UpdateEffect
<1>3. TypeOK'
  BY <1>1, <1>2, UpdateEffect, EmptyObjects
  DEF SecretsInv, TypeOK, Locations, createVars, listVars
<1>4. CurrentIsListed' /\ ListedStayOurs'
  BY <1>1, UpdateEffect, ListsStayTrue DEF ListedKeys, listVars
<1>5. LoopsVisitListed'
  BY <1>1 DEF SecretsInv, LoopsVisitListed, ListedKeys, listVars
<1>6. HeldCredentials' /\ MissingAreUsed'
  BY <1>1, <1>2 DEF SecretsInv, HeldCredentials, MissingAreUsed, listVars
<1> QED
  BY <1>3, <1>4, <1>5, <1>6, UpdateEffect DEF SecretsInv

\* A Create takes a free name, for a role in use.
LEMMA CreateSecretEffect ==
  ASSUME SecretsInv, NEW k \in Keys, CreateSecret(k)
  PROVE  /\ secrets' \in [Keys -> Secret]
         /\ OwnCredentials'
         /\ current' \subseteq current
         /\ \A j \in current' : secrets'[j] = secrets[j]
         /\ \A j \in Keys :
               \/ secrets'[j] = secrets[j]
               \/ /\ j = k
                  /\ Store!InUse(k.role, k.namespace)
                  /\ secrets[j].kind = "none"
                  /\ secrets'[j].kind = "ours"
         /\ faults' \in Nat
<1>1. PICK answer \in Answers :
        /\ Call(answer)
        /\ PutSecret(k, [kind |-> "ours", data |-> data],
                     answer # "refused" /\ secrets[k].kind = "none")
  BY DEF CreateSecret
<1> DEFINE s == [kind |-> "ours", data |-> data]
<1>2. data \in Data /\ data.creds \in {Absent, k.role}
  BY DEF SecretsInv, TypeOK, HeldCredentials, CreateSecret
<1>3. s \in Secret /\ s.kind = "ours" /\ s.data.creds \in {Absent, k.role}
  BY <1>2 DEF Secret
<1>4. Store!InUse(k.role, k.namespace)
  BY DEF SecretsInv, MissingAreUsed, CreateSecret
<1> HIDE DEF s
<1>5. PutSecret(k, s, answer # "refused" /\ secrets[k].kind = "none")
  BY <1>1 DEF s
<1>6. /\ secrets' \in [Keys -> Secret]
      /\ OwnCredentials'
      /\ current' \subseteq current
      /\ \A j \in current' : secrets'[j] = secrets[j]
      /\ \A j \in Keys : \/ secrets'[j] = secrets[j]
                         \/ j = k /\ secrets[k].kind = "none" /\ secrets'[j] = s
  BY <1>3, <1>5, PutSecretEffect DEF SecretsInv
<1>7. faults' \in Nat
  BY <1>1 DEF SecretsInv, TypeOK, Call
<1> QED
  BY <1>3, <1>4, <1>6, <1>7

LEMMA CreateSecretKeepsInv ==
  ASSUME SecretsInv, NEW k \in Keys, CreateSecret(k)
  PROVE  SecretsInv'
<1>1. /\ pc = "fill" /\ missing' = missing \ {k}
      /\ UNCHANGED <<used, now, events, pc, scanVars, todoRoles, cur, data>>
  BY DEF CreateSecret
<1>2. TypeOK'
  BY <1>1, CreateSecretEffect DEF SecretsInv, TypeOK, scanVars, listVars
<1>3. CurrentIsListed' /\ ListedStayOurs'
  BY <1>1, CreateSecretEffect, ListsStayTrue DEF scanVars, listVars, ListedKeys
<1>4. LoopsVisitListed'
  BY <1>1 DEF SecretsInv, LoopsVisitListed, ListedKeys, scanVars, listVars
<1>5. HeldCredentials'
  BY <1>1 DEF SecretsInv, HeldCredentials, scanVars, listVars
<1>6. MissingAreUsed'
  BY <1>1 DEF SecretsInv, MissingAreUsed, Store!InUse
<1> QED
  BY <1>2, <1>3, <1>4, <1>5, <1>6, CreateSecretEffect DEF SecretsInv

-----------------------------------------------------------------------------
(* Steps of everyone else. *)

\* A step of somebody else keeps the controller's locals; the names it writes
\* leave current.
LEMMA EventKeepsInv ==
  ASSUME SecretsInv, Event, secrets' \in [Keys -> Secret], OwnCredentials',
         used' \subseteq Roles \X Namespaces \X Pods,
         pc = "fill" => UNCHANGED used,
         \A k \in Keys : \/ secrets'[k].kind = secrets[k].kind
                         \/ secrets'[k].kind = "none"
                         \/ secrets[k].kind = "none"
  PROVE  SecretsInv'
<1>1. /\ events' = events - 1 /\ events > 0
      /\ current' = {k \in current : secrets'[k] = secrets[k]}
      /\ retaken' = retaken \cup
            {k \in ListedKeys : /\ secrets[k].kind = "none"
                               /\ secrets'[k].kind # "none"}
      /\ UNCHANGED <<now, pc, listed, found, cache, todo, createVars, cur, data,
                     faults>>
  BY DEF Event
<1>2. TypeOK'
  BY <1>1 DEF SecretsInv, TypeOK, ListedKeys, createVars
<1>3. CurrentIsListed' /\ ListedStayOurs'
  <2>1. retaken \subseteq retaken' /\ current' \subseteq current
    BY <1>1
  <2>2. \A k \in ListedKeys \ retaken' :
           \/ secrets'[k].kind = secrets[k].kind
           \/ secrets'[k].kind \in {"none", "ours"}
    BY <1>1 DEF ListedKeys
  <2> QED
    BY <1>1, <2>1, <2>2, ListsStayTrue
<1>4. LoopsVisitListed' /\ HeldCredentials'
  BY <1>1 DEF SecretsInv, LoopsVisitListed, HeldCredentials, ListedKeys, createVars
<1>5. MissingAreUsed'
  BY <1>1 DEF SecretsInv, MissingAreUsed, Store!InUse, createVars
<1> QED
  BY <1>2, <1>3, <1>4, <1>5 DEF SecretsInv

\* Pods come and go only while the second loop does not run.
LEMMA PodStepKeepsInv ==
  ASSUME SecretsInv, NEW r \in Roles, NEW ns \in Namespaces, NEW p \in Pods,
         PodAdded(r, ns, p) \/ PodRemoved(r, ns, p)
  PROVE  SecretsInv'
<1>1. /\ Event /\ UNCHANGED secrets /\ ~StoreLocked
      /\ \/ used' = used \cup {<<r, ns, p>>}
         \/ used' = used \ {<<r, ns, p>>}
  BY DEF PodAdded, PodRemoved
<1>2. used' \subseteq Roles \X Namespaces \X Pods
  <2>1. used \subseteq Roles \X Namespaces \X Pods
    BY DEF SecretsInv, TypeOK
  <2>2. <<r, ns, p>> \in Roles \X Namespaces \X Pods
    OBVIOUS
  <2> QED
    BY <1>1, <2>1, <2>2
<1>3. pc # "fill"
  BY <1>1 DEF StoreLocked
<1>4. secrets' \in [Keys -> Secret] /\ OwnCredentials'
  BY <1>1 DEF SecretsInv, TypeOK, OwnCredentials
<1> QED
  BY <1>1, <1>2, <1>3, <1>4, EventKeepsInv

LEMMA EditSecretKeepsInv ==
  ASSUME SecretsInv, NEW k \in Keys, EditSecret(k)
  PROVE  SecretsInv'
<1>1. Event /\ UNCHANGED used /\ secrets[k].kind # "none"
  BY DEF EditSecret
<1>2. secrets \in [Keys -> Secret] /\ OwnCredentials
  BY DEF SecretsInv, TypeOK
<1>3. /\ secrets' \in [Keys -> Secret]
      /\ OwnCredentials'
      /\ \A j \in Keys : \/ secrets'[j].kind = secrets[j].kind
                         \/ secrets'[j].kind = "none"
  <2>1. CASE secrets' = [secrets EXCEPT ![k] = NoSecret]
    BY <1>2, <2>1, EmptyObjects DEF OwnCredentials
  <2>2. CASE \E s \in {Absent, Malformed} :
               secrets' = [secrets EXCEPT ![k].data.expire = s]
    <3>1. PICK s \in {Absent, Malformed} :
            secrets' = [secrets EXCEPT ![k].data.expire = s]
      BY <2>2
    <3> DEFINE t == [secrets[k] EXCEPT !.data.expire = s]
    <3>2. secrets[k] \in Secret /\ secrets[k].data \in Data
      BY <1>2, SecretFields
    <3>3. [secrets[k].data EXCEPT !.expire = s] \in Data
      BY <3>2 DEF Data, Stamps
    <3>4. t = [secrets[k] EXCEPT !.data = [secrets[k].data EXCEPT !.expire = s]]
      BY <3>2 DEF Secret, Data
    <3>5. /\ t \in Secret /\ t.kind = secrets[k].kind
          /\ t.data.creds = secrets[k].data.creds
      BY <3>2, <3>3, <3>4 DEF Secret, Data
    <3>6. secrets' = [secrets EXCEPT ![k] = t]
      BY <1>2, <3>1
    <3> HIDE DEF t
    <3> QED
      BY <1>2, <3>5, <3>6 DEF OwnCredentials
  <2> QED
    BY <2>1, <2>2 DEF EditSecret
<1>4. used' \subseteq Roles \X Namespaces \X Pods
  BY <1>1 DEF SecretsInv, TypeOK
<1> QED
  BY <1>1, <1>3, <1>4, EventKeepsInv

\* Others may take the name of a listed secret that is gone; retaken says so.
LEMMA OthersCreateKeepsInv ==
  ASSUME SecretsInv, NEW k \in Keys, OthersCreate(k)
  PROVE  SecretsInv'
<1>1. Event /\ UNCHANGED used /\ secrets[k].kind = "none"
  BY DEF OthersCreate
<1>2. PICK kind \in {"owned", "foreign"} :
        secrets' = [secrets EXCEPT ![k].kind = kind]
  BY DEF OthersCreate
<1>3. secrets \in [Keys -> Secret] /\ OwnCredentials
  BY DEF SecretsInv, TypeOK
<1> DEFINE t == [secrets[k] EXCEPT !.kind = kind]
<1>4. t \in Secret /\ t.data = secrets[k].data
  BY <1>3 DEF Secret
<1>5. secrets' = [secrets EXCEPT ![k] = t]
  BY <1>2, <1>3
<1> HIDE DEF t
<1>6. secrets' \in [Keys -> Secret] /\ OwnCredentials'
  BY <1>3, <1>4, <1>5 DEF OwnCredentials
<1>7. \A j \in Keys : secrets'[j] = secrets[j] \/ secrets[j].kind = "none"
  BY <1>1, <1>3, <1>5
<1>8. used' \subseteq Roles \X Namespaces \X Pods
  BY <1>1 DEF SecretsInv, TypeOK
<1> QED
  BY <1>1, <1>6, <1>7, <1>8, EventKeepsInv

\* Neither the clock nor a stuttering step changes what SecretsInv is about.
LEMMA QuietStepKeepsInv ==
  ASSUME SecretsInv, Tick \/ UNCHANGED vars
  PROVE  SecretsInv'
<1>1. /\ now' \in {now, now + 1}
      /\ UNCHANGED <<used, secrets, events, pc, scanVars, current, createVars,
                     cur, data, faults>>
  BY DEF Tick, vars, worldVars
<1>2. TypeOK'
  BY <1>1 DEF SecretsInv, TypeOK, scanVars, listVars, createVars
<1> QED
  BY <1>1, <1>2
  DEF SecretsInv, OwnCredentials, LoopsVisitListed, HeldCredentials,
      CurrentIsListed, ListedStayOurs, MissingAreUsed, ListedKeys, Store!InUse, scanVars, listVars,
      createVars

\* A process that ends its round, or is killed and restarted.
LEMMA EndsOfRound ==
  ASSUME SecretsInv, CreateDone \/ Crash \/ ProbeFails
  PROVE  SecretsInv'
<1>1. CASE CreateDone
  BY <1>1, ResetKeepsInv DEF SecretsInv, TypeOK, CreateDone, worldVars
<1>2. CASE Crash
  BY <1>2, ResetKeepsInv DEF SecretsInv, TypeOK, Crash, Restart
<1>3. CASE ProbeFails
  BY <1>3, ResetKeepsInv DEF SecretsInv, TypeOK, ProbeFails, Restart
<1> QED
  BY <1>1, <1>2, <1>3

\* Whether ListenAndServe blocks or not, there is no round yet.
LEMMA ListenAndServeKeepsInv ==
  ASSUME SecretsInv, ListenAndServe
  PROVE  SecretsInv'
<1>1. /\ pc = "listen" /\ pc' \in {"serving", "idle"}
      /\ UNCHANGED <<used, secrets, now, events, listed, retaken, found, cache,
                     todo, current, todoRoles, missing, cur, data, faults>>
  BY DEF ListenAndServe, worldVars, scanVars, listVars, listVars, createVars
<1>2. TypeOK'
  BY <1>1 DEF SecretsInv, TypeOK, Locations
<1> QED
  BY <1>1, <1>2
  DEF SecretsInv, OwnCredentials, LoopsVisitListed, HeldCredentials,
      CurrentIsListed, ListedStayOurs, MissingAreUsed, ListedKeys

LEMMA InvInductive == SecretsInv /\ [Next]_vars => SecretsInv'
<1> SUFFICES ASSUME SecretsInv, [Next]_vars
             PROVE  SecretsInv'
  OBVIOUS
<1>1. CASE ControllerStep
  BY <1>1, ListenAndServeKeepsInv, ListKeepsInv, ScanUnusedKeepsInv,
     DeleteUnusedKeepsInv,
     ScanKeepKeepsInv, ScanGetCredsKeepsInv, UpdateKeepsInv,
     ScanDoneKeepsInv, RoleCachedKeepsInv, RoleGetCredsKeepsInv,
     CreateSecretKeepsInv, FillDoneKeepsInv, EndsOfRound DEF ControllerStep
<1>2. CASE Crash \/ ProbeFails
  BY <1>2, EndsOfRound
<1>3. CASE \E r \in Roles, ns \in Namespaces, p \in Pods :
             PodAdded(r, ns, p) \/ PodRemoved(r, ns, p)
  BY <1>3, PodStepKeepsInv
<1>4. CASE \E k \in Keys : EditSecret(k) \/ OthersCreate(k)
  BY <1>4, EditSecretKeepsInv, OthersCreateKeepsInv
<1>5. CASE Tick \/ UNCHANGED vars
  BY <1>5, QuietStepKeepsInv
<1> QED
  BY <1>1, <1>2, <1>3, <1>4, <1>5 DEF Next

-----------------------------------------------------------------------------
(* The theorems. *)

\* No round goes wrong in any of the ways SecretsInv names, whatever comes between
\* its calls.
THEOREM SecretsInvariant == Spec => []SecretsInv
<1>1. Init => SecretsInv
  BY InitInv
<1>2. SecretsInv /\ [Next]_vars => SecretsInv'
  BY InvInductive
<1> QED
  BY <1>1, <1>2, PTL DEF Spec

\* What a round remembers over its calls, the list, the cache, the names still
\* to visit, stays made of possible secrets, roles and keys, whatever changes
\* under it.
THEOREM SecretsTypes == Spec => []TypeOK
<1>1. SecretsInv => TypeOK
  BY DEF SecretsInv
<1> QED
  BY <1>1, SecretsInvariant, PTL

\* Credentials fetched once and passed on through credsCache never get into a
\* secret named for another role.
THEOREM CredentialsUnderOwnName == Spec => []OwnCredentials
<1>1. SecretsInv => OwnCredentials
  BY DEF SecretsInv
<1> QED
  BY <1>1, SecretsInvariant, PTL

\* What a controller step does to a secret.
LEMMA ControllerStepOnSecret ==
  ASSUME SecretsInv, ControllerStep, NEW k \in Keys
  PROVE  \/ secrets'[k] = secrets[k]
         \/ secrets'[k] = NoSecret /\ k \in ListedKeys
         \/ secrets[k].kind = "ours" /\ secrets'[k].kind = "ours"
         \/ /\ Store!InUse(k.role, k.namespace)
            /\ secrets[k].kind = "none"
            /\ secrets'[k].kind = "ours"
<1>1. CASE UNCHANGED secrets
  BY <1>1
<1>2. CASE DeleteUnused
  <2>1. cur \in ListedKeys
    BY <1>2 DEF SecretsInv, LoopsVisitListed, DeleteUnused
  <2>2. secrets' = [secrets EXCEPT ![cur] = NoSecret] \/ UNCHANGED secrets
    BY <1>2 DEF DeleteUnused, PutSecret
  <2> QED
    BY <2>1, <2>2 DEF SecretsInv, TypeOK
<1>3. CASE Update
  BY <1>3, UpdateEffect
<1>4. CASE \E j \in Keys : CreateSecret(j)
  BY <1>4, CreateSecretEffect
<1> QED
  BY <1>1, <1>2, <1>3, <1>4
  DEF ControllerStep, ListenAndServe, List, ScanUnused, ScanKeep, ScanGetCreds,
      ScanDone, RoleCached, RoleGetCreds, FillDone, CreateDone, worldVars

\* The read lock keeps refresh() from creating a secret for a role that went
\* out of use while it was busy with another.
THEOREM OnlyUsedCreated == Spec => CreatesOnlyUsed
<1>1. SecretsInv /\ [Next]_vars =>
        [\A k \in Keys :
            ControllerStep /\ secrets[k].kind = "none"
            /\ secrets'[k].kind # "none"
                => Store!InUse(k.role, k.namespace)]_vars
  BY ControllerStepOnSecret, EmptyObjects
<1> QED
  BY <1>1, SecretsInvariant, PTL DEF Spec, CreatesOnlyUsed

\* A secret of the AWSIAMRole controller, or one without the label, is never
\* overwritten, and the Delete by name reaches it in one case only: others
\* created it after the List, on the name of a listed secret that was gone.
THEOREM OthersLeftAlone == Spec => OthersUntouched
<1>1. SecretsInv /\ [Next]_vars =>
        [\A k \in Keys :
            ControllerStep /\ secrets[k].kind \in {"owned", "foreign"}
                => \/ secrets'[k] = secrets[k]
                   \/ k \in retaken /\ secrets'[k] = NoSecret]_vars
  BY ControllerStepOnSecret DEF SecretsInv, ListedStayOurs
<1> QED
  BY <1>1, SecretsInvariant, PTL DEF Spec, OthersUntouched

=============================================================================
