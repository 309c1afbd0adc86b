-------------------------- MODULE KeyAccessProofs --------------------------
(***************************************************************************)
(* What holds of KeyAccess for any sets of keys, paths and requests, any   *)
(* number of them in flight, any lifetimes and any length of time.         *)
(***************************************************************************)
EXTENDS KeyAccess, TLAPS

(***************************************************************************)
(* The inductive invariant.                                                *)
(***************************************************************************)

\* A running request has a job that fits the statement it is at.
JobFits ==
    \A r \in Req :
        /\ pc[r] # "idle" => job[r] \in Jobs
        /\ pc[r] \in {"auth", "access", "audit_denied"} => job[r].op \in AgentOps
        /\ pc[r] = "audit_error" => job[r].op \in {"get", "list"}
        /\ pc[r] = "insert" => job[r].op = "create"
        /\ pc[r] = "lookup" => job[r].op \in {"update", "save", "revoke"}
        /\ pc[r] = "revoke" => job[r].op = "revoke"
        /\ pc[r] \in {"update", "sync"} => job[r].op \in {"create", "update", "save"}

\* Past its look-up it holds a key, and the row it has read is still there.
HoldsKey ==
    \A r \in Req :
        /\ pc[r] \in {"update", "sync"} => held[r] \in Key
        /\ pc[r] \in {"update", "sync", "revoke"} => keys[job[r].key] # Nil

\* A revocation that is about to be logged, or was answered, has been made.
RevokedByThen ==
    \A q \in Req :
        pc[q] = "audit" \/ Answered(q, "ok") =>
            (job[q].op = "revoke" =>
                keys[job[q].key] # Nil /\ keys[job[q].key].revoked)

\* Before it is authenticated a request has no principal, and those that were
\* answered before it came stay answered.
NotYetAdmitted ==
    \A r \in Req :
        /\ pc[r] \in {"idle", "auth"} => held[r] = Nil
        /\ \A q \in after[r] : pc[q] = "done"

\* An agent's request at the secrets or at the log has been admitted, and is
\* in its scope unless it is there to have that logged; one with an entry has
\* been answered.
Cleared(r) == held[r] \in Principal /\ MayWrite(held[r], job[r])

Logging == {"access", "audit", "audit_denied", "audit_error", "done"}

LoggedLast == \A e \in log : pc[e.req] \in Logging

AuditReady ==
    \A r \in Req : job[r] # Nil /\ job[r].op \in AgentOps =>
        /\ pc[r] \in {"access", "audit", "audit_error"} =>
              Cleared(r) /\ InScope(held[r], job[r])
        /\ pc[r] = "audit_denied" => Cleared(r) /\ ~ InScope(held[r], job[r])

IInv ==
    /\ TypeOK /\ JobFits /\ HoldsKey
    /\ RevokedByThen /\ NotYetAdmitted /\ RevocationIsInstant
    /\ LoggedLast /\ AuditReady /\ AccessIsLogged

-----------------------------------------------------------------------------
(* Lemmas about jobs and rows. *)

\* What the columns of a job are.
LEMMA JobTypes ==
    ASSUME NEW j \in Jobs
    PROVE  /\ j.key \in Name
           /\ j.op \in AgentOps \cup {"create", "save", "update", "revoke"}
           /\ j.op \in {"create", "save"} =>
                 /\ j.scope \in SUBSET Path /\ j.perm \in Perms
                 /\ j.ttl \in Ttl \cup {Nil} /\ j.meta \in SUBSET Meta
           /\ j.op = "update" =>
                 /\ j.scope \in SUBSET Path /\ j.perm \in Perms
                 /\ j.ttl \in Ttl /\ j.set \in SUBSET Meta
BY ConstantsAssumption
   DEF AllJobs, AgentJobs, FormJobs, UpdateJobs, RevokeJobs, AgentOps, Writes

LEMMA LifetimeType ==
    ASSUME TypeOK, NEW t \in Ttl \cup {Nil}
    PROVE  Lifetime(t) \in Nat \cup {Nil}
BY ConstantsAssumption DEF TypeOK, Lifetime

LEMMA NewKeyType ==
    ASSUME TypeOK, NEW j \in Jobs, j.op \in {"create", "save"}
    PROVE  NewKey(j) \in Key
BY JobTypes, LifetimeType DEF NewKey, Key

LEMMA UpdatedType ==
    ASSUME TypeOK, NEW k \in Key, NEW j \in Jobs, j.op = "update"
    PROVE  Updated(k, j) \in Key
<1>1. /\ j.scope \in SUBSET Path /\ j.perm \in Perms /\ j.ttl \in Ttl \cup {Nil}
      /\ j.set \in SUBSET Meta
  BY JobTypes
<1>2. Lifetime(j.ttl) \in Nat \cup {Nil}
  BY <1>1, LifetimeType
<1> QED
  BY <1>1, <1>2 DEF Updated, Key

LEMMA SavedType ==
    ASSUME TypeOK, NEW k \in Key, NEW j \in Jobs, j.op = "save"
    PROVE  Saved(k, j) \in Key
BY NewKeyType DEF Saved, Key

LEMMA WrittenBackType ==
    ASSUME NEW k \in Key, NEW x \in Key
    PROVE  WrittenBack(k, x) \in Key /\ WrittenBack(k, x).revoked = k.revoked
BY DEF WrittenBack, Key

\* The first statement of a request fits its job.
LEMMA FirstLabelFits ==
    ASSUME NEW j \in Jobs
    PROVE  /\ FirstLabel(j) \in {"auth", "insert", "lookup"}
           /\ FirstLabel(j) = "auth" => j.op \in AgentOps
           /\ FirstLabel(j) = "insert" => j.op = "create"
           /\ FirstLabel(j) = "lookup" => j.op \in {"update", "save", "revoke"}
BY JobTypes DEF FirstLabel, AgentOps, Writes

LEMMA PrincipalOfType ==
    ASSUME NEW k \in Key
    PROVE  PrincipalOf(k) \in Principal
BY DEF PrincipalOf, Key, Principal

-----------------------------------------------------------------------------
\* No request has come yet, and the old keys are well typed.
LEMMA InitInv == Init => IInv
<1> SUFFICES ASSUME Init PROVE IInv
  OBVIOUS
<1>1. TypeOK
  <2>1. keys \in [Name -> Key \cup {Nil}]
    BY ConstantsAssumption DEF Init
  <2>2. fts \subseteq [name : Name, meta : SUBSET Meta]
    <3> SUFFICES ASSUME NEW n \in Name, keys[n] # Nil
                 PROVE  [name |-> n, meta |-> keys[n].meta] \in [name : Name, meta : SUBSET Meta]
      BY DEF Init
    <3>1. keys[n] \in Key
      BY <2>1
    <3> QED
      BY <3>1 DEF Key
  <2> QED
    BY <2>1, <2>2, ConstantsAssumption DEF Init, TypeOK, Replies
<1>2. JobFits /\ HoldsKey /\ RevokedByThen /\ NotYetAdmitted /\ RevocationIsInstant
  BY
     DEF Init, JobFits, HoldsKey, RevokedByThen, NotYetAdmitted,
         RevocationIsInstant, Answered
<1>3. LoggedLast /\ AuditReady /\ AccessIsLogged
  BY DEF Init, LoggedLast, AuditReady, AccessIsLogged, Agent
<1> QED
  BY <1>1, <1>2, <1>3 DEF IInv

\* Every step keeps the types.
LEMMA TypeStep ==
    ASSUME TypeOK, JobFits, HoldsKey, [Next]_vars
    PROVE  TypeOK'
<1> USE ConstantsAssumption
    DEF TypeOK, JobFits, HoldsKey, Running, Replies, Goto, Answer, Hold, table, past
<1>1. CASE Tick
  BY <1>1 DEF Tick
<1>2. CASE Crash
  BY <1>2 DEF Crash, Active
<1>3. ASSUME NEW r \in Req, Arrive(r) PROVE TypeOK'
  <2>1. PICK j \in Jobs : job' = [job EXCEPT ![r] = j] /\ Goto(r, FirstLabel(j))
    BY <1>3 DEF Arrive
  <2> QED
    BY <1>3, <2>1, FirstLabelFits DEF Arrive
<1>4. ASSUME NEW r \in Req, Abort(r) PROVE TypeOK'
  BY <1>4 DEF Abort
<1>5. ASSUME NEW r \in Req, Authenticate(r) PROVE TypeOK'
  <2> DEFINE k == keys[job[r].key]
  <2>1. job[r] \in Jobs /\ k \in Key \cup {Nil}
    BY <1>5, JobTypes DEF Authenticate
  <2>2. Admitted(k) => PrincipalOf(k) \in Principal
    BY <2>1, PrincipalOfType DEF Admitted
  <2> HIDE DEF k
  <2>3. held' \in [Req -> Key \cup Principal \cup {Nil}]
    BY <1>5, <2>2 DEF Authenticate, k
  <2>4. pc' \in [Req -> Running \cup {"idle", "done"}] /\ reply' \in [Req -> Replies]
    BY <1>5 DEF Authenticate, Authorize
  <2> QED
    BY <1>5, <2>3, <2>4 DEF Authenticate
<1>6. ASSUME NEW r \in Req, Access(r) PROVE TypeOK'
  BY <1>6 DEF Access
<1>7. ASSUME NEW r \in Req, Audit(r) PROVE TypeOK'
  BY <1>7 DEF Audit, Logged, EntryOf, AfterAudit, Result
<1>8. ASSUME NEW r \in Req, AuditFails(r) PROVE TypeOK'
  BY <1>8 DEF AuditFails, AfterAudit, Result
<1>9. ASSUME NEW r \in Req, CreateKey(r) PROVE TypeOK'
  <2>1. job[r] \in Jobs /\ job[r].op = "create"
    BY <1>9 DEF CreateKey
  <2>2. NewKey(job[r]) \in Key /\ job[r].key \in Name
    BY <2>1, JobTypes, NewKeyType
  <2> QED
    BY <1>9, <2>2 DEF CreateKey
<1>10. ASSUME NEW r \in Req, GetKeyByName(r) PROVE TypeOK'
  <2> DEFINE j == job[r]
             k == keys[j.key]
  <2>1. j \in Jobs /\ k \in Key \cup {Nil}
    BY <1>10, JobTypes DEF GetKeyByName
  <2>2. ASSUME k # Nil, j.op = "update" PROVE Updated(k, j) \in Key
    BY <2>1, <2>2, UpdatedType
  <2>3. ASSUME k # Nil, j.op = "save" PROVE Saved(k, j) \in Key
    BY <2>1, <2>3, SavedType
  <2>4. /\ pc' \in [Req -> Running \cup {"idle", "done"}]
        /\ reply' \in [Req -> Replies]
        /\ held' \in [Req -> Key \cup Principal \cup {Nil}]
    <3> HIDE DEF k, j
    <3>1. CASE k = Nil /\ Answer(r, "not_found") /\ UNCHANGED held
      BY <3>1
    <3>2. CASE k # Nil /\ j.op = "update" /\ Hold(r, Updated(k, j)) /\ Goto(r, "update")
      BY <3>2, <2>2
    <3>3. CASE k # Nil /\ j.op = "save" /\ Hold(r, Saved(k, j)) /\ Goto(r, "update")
      BY <3>3, <2>3
    <3>4. CASE k # Nil /\ j.op = "revoke" /\ Hold(r, k) /\ Goto(r, "revoke")
      BY <3>4, <2>1
    <3> QED
      BY <1>10, <3>1, <3>2, <3>3, <3>4 DEF GetKeyByName, k, j
  <2>5. UNCHANGED <<table, log, now, job, past, dropped>>
    BY <1>10 DEF GetKeyByName
  <2> QED
    BY <2>4, <2>5
<1>11. ASSUME NEW r \in Req, UpdateKey(r) PROVE TypeOK'
  <2> DEFINE n == job[r].key
  <2>1. n \in Name /\ keys[n] \in Key /\ held[r] \in Key
    BY <1>11, JobTypes DEF UpdateKey
  <2>2. WrittenBack(keys[n], held[r]) \in Key
    BY <2>1, WrittenBackType
  <2> QED
    BY <1>11, <2>1, <2>2 DEF UpdateKey
<1>12. ASSUME NEW r \in Req, SyncKeyFTS(r) PROVE TypeOK'
  <2> DEFINE e == [name |-> job[r].key, meta |-> held[r].meta]
  <2>1. job[r].key \in Name /\ held[r].meta \in SUBSET Meta
    BY <1>12, JobTypes DEF SyncKeyFTS, Key
  <2>2. e \in [name : Name, meta : SUBSET Meta]
    BY <2>1
  <2>3. fts' \subseteq fts \cup {e}
    BY <1>12 DEF SyncKeyFTS
  <2> HIDE DEF e
  <2> QED
    BY <1>12, <2>2, <2>3 DEF SyncKeyFTS
<1>13. ASSUME NEW r \in Req, RevokeKey(r) PROVE TypeOK'
  <2> DEFINE n == job[r].key
  <2>1. n \in Name /\ keys[n] \in Key
    BY <1>13, JobTypes DEF RevokeKey
  <2>2. [keys[n] EXCEPT !.revoked = TRUE] \in Key
    BY <2>1 DEF Key
  <2> HIDE DEF n
  <2>3. keys' \in [Name -> Key \cup {Nil}]
    BY <1>13, <2>2 DEF RevokeKey, n
  <2> QED
    BY <1>13, <2>3 DEF RevokeKey
<1>14. CASE UNCHANGED vars
  BY <1>14 DEF vars
<1> QED
  BY <1>1, <1>2, <1>3, <1>4, <1>5, <1>6, <1>7, <1>8, <1>9, <1>10, <1>11, <1>12, <1>13,
     <1>14
     DEF Next, Handle

\* Every step leaves a job where it fits.
LEMMA JobStep ==
    ASSUME TypeOK, JobFits, [Next]_vars
    PROVE  JobFits'
<1> USE ConstantsAssumption DEF TypeOK, JobFits, Running, Goto, Answer, Hold, table, past
<1>1. CASE Tick
  BY <1>1 DEF Tick
<1>2. CASE Crash
  BY <1>2 DEF Crash, Active
<1>3. ASSUME NEW r \in Req, Arrive(r) PROVE JobFits'
  <2>1. PICK j \in Jobs : job' = [job EXCEPT ![r] = j] /\ Goto(r, FirstLabel(j))
    BY <1>3 DEF Arrive
  <2> QED
    BY <1>3, <2>1, FirstLabelFits DEF Arrive
<1>4. ASSUME NEW r \in Req, Abort(r) PROVE JobFits'
  BY <1>4 DEF Abort
<1>5. ASSUME NEW r \in Req, Authenticate(r) PROVE JobFits'
  BY <1>5 DEF Authenticate, Admitted, Authorize
<1>6. ASSUME NEW r \in Req, Access(r) PROVE JobFits'
  BY <1>6 DEF Access
<1>7. ASSUME NEW r \in Req, Audit(r) PROVE JobFits'
  BY <1>7 DEF Audit, Logged, EntryOf, AfterAudit, Result, AgentOps
<1>8. ASSUME NEW r \in Req, AuditFails(r) PROVE JobFits'
  BY <1>8 DEF AuditFails, AfterAudit, Result, AgentOps
<1>9. ASSUME NEW r \in Req, CreateKey(r) PROVE JobFits'
  BY <1>9 DEF CreateKey
<1>10. ASSUME NEW r \in Req, GetKeyByName(r) PROVE JobFits'
  BY <1>10 DEF GetKeyByName
<1>11. ASSUME NEW r \in Req, UpdateKey(r) PROVE JobFits'
  BY <1>11 DEF UpdateKey
<1>12. ASSUME NEW r \in Req, SyncKeyFTS(r) PROVE JobFits'
  BY <1>12 DEF SyncKeyFTS
<1>13. ASSUME NEW r \in Req, RevokeKey(r) PROVE JobFits'
  BY <1>13 DEF RevokeKey
<1>14. CASE UNCHANGED vars
  BY <1>14 DEF vars
<1> QED
  BY <1>1, <1>2, <1>3, <1>4, <1>5, <1>6, <1>7, <1>8, <1>9, <1>10, <1>11, <1>12, <1>13,
     <1>14
     DEF Next, Handle

\* No step removes a key or makes a revoked one valid.
KeysStay ==
    \A n \in Name :
        keys[n] # Nil => keys'[n] # Nil /\ (keys[n].revoked => keys'[n].revoked)

\* A key is inserted under a new name, updated without its revocation, or revoked.
LEMMA KeysStayStep ==
    ASSUME TypeOK, JobFits, HoldsKey, [Next]_vars
    PROVE  KeysStay
<1> USE ConstantsAssumption
    DEF TypeOK, JobFits, HoldsKey, KeysStay, Goto, Answer, Hold, table, past
<1>1. CASE Tick
  BY <1>1 DEF Tick
<1>2. CASE Crash
  BY <1>2 DEF Crash, Active
<1>3. ASSUME NEW r \in Req, Arrive(r) PROVE KeysStay
  BY <1>3 DEF Arrive, FirstLabel, Active
<1>4. ASSUME NEW r \in Req, Abort(r) PROVE KeysStay
  BY <1>4 DEF Abort
<1>5. ASSUME NEW r \in Req, Authenticate(r) PROVE KeysStay
  BY <1>5 DEF Authenticate, Admitted, Authorize
<1>6. ASSUME NEW r \in Req, Access(r) PROVE KeysStay
  BY <1>6 DEF Access
<1>7. ASSUME NEW r \in Req, Audit(r) PROVE KeysStay
  BY <1>7 DEF Audit, Logged, EntryOf, AfterAudit, Result
<1>8. ASSUME NEW r \in Req, AuditFails(r) PROVE KeysStay
  BY <1>8 DEF AuditFails, AfterAudit, Result
<1>9. ASSUME NEW r \in Req, CreateKey(r) PROVE KeysStay
  BY <1>9 DEF CreateKey
<1>10. ASSUME NEW r \in Req, GetKeyByName(r) PROVE KeysStay
  BY <1>10 DEF GetKeyByName
<1>11. ASSUME NEW r \in Req, UpdateKey(r) PROVE KeysStay
  <2> DEFINE n == job[r].key
  <2>1. n \in Name /\ keys[n] \in Key /\ held[r] \in Key
    BY <1>11, JobTypes DEF UpdateKey
  <2>2. /\ WrittenBack(keys[n], held[r]) \in Key
        /\ WrittenBack(keys[n], held[r]).revoked = keys[n].revoked
    BY <2>1, WrittenBackType
  <2> HIDE DEF n
  <2>3. keys' = [keys EXCEPT ![n] = WrittenBack(keys[n], held[r])]
    BY <1>11 DEF UpdateKey, n
  <2> QED
    BY <2>1, <2>2, <2>3
<1>12. ASSUME NEW r \in Req, SyncKeyFTS(r) PROVE KeysStay
  BY <1>12 DEF SyncKeyFTS
<1>13. ASSUME NEW r \in Req, RevokeKey(r) PROVE KeysStay
  <2> DEFINE n == job[r].key
             k == [keys[n] EXCEPT !.revoked = TRUE]
  <2>1. n \in Name /\ keys[n] \in Key
    BY <1>13, JobTypes DEF RevokeKey
  <2>2. k \in Key /\ k.revoked
    BY <2>1 DEF Key
  <2>3. keys' = [keys EXCEPT ![n] = k]
    BY <1>13 DEF RevokeKey
  <2> HIDE DEF n, k
  <2> QED
    BY <2>1, <2>2, <2>3
<1>14. CASE UNCHANGED vars
  BY <1>14 DEF vars
<1> QED
  BY <1>1, <1>2, <1>3, <1>4, <1>5, <1>6, <1>7, <1>8, <1>9, <1>10, <1>11, <1>12, <1>13,
     <1>14
     DEF Next, Handle

\* What a request holds when it is about to write a key.
LEMMA HoldsKeyStep ==
    ASSUME TypeOK, JobFits, HoldsKey, KeysStay, [Next]_vars
    PROVE  HoldsKey'
<1> USE ConstantsAssumption
    DEF TypeOK, JobFits, HoldsKey, KeysStay, Running, Goto, Answer, Hold, table, past
<1>1. CASE Tick
  BY <1>1 DEF Tick
<1>2. CASE Crash
  BY <1>2 DEF Crash, Active
<1>3. ASSUME NEW r \in Req, Arrive(r) PROVE HoldsKey'
  <2>1. PICK j \in Jobs : job' = [job EXCEPT ![r] = j] /\ Goto(r, FirstLabel(j))
    BY <1>3 DEF Arrive
  <2> QED
    BY <1>3, <2>1, FirstLabelFits DEF Arrive
<1>4. ASSUME NEW r \in Req, Abort(r) PROVE HoldsKey'
  BY <1>4 DEF Abort
<1>5. ASSUME NEW r \in Req, Authenticate(r) PROVE HoldsKey'
  BY <1>5 DEF Authenticate, Admitted, Authorize
<1>6. ASSUME NEW r \in Req, Access(r) PROVE HoldsKey'
  BY <1>6 DEF Access
<1>7. ASSUME NEW r \in Req, Audit(r) PROVE HoldsKey'
  BY <1>7 DEF Audit, Logged, EntryOf, AfterAudit, Result
<1>8. ASSUME NEW r \in Req, AuditFails(r) PROVE HoldsKey'
  BY <1>8 DEF AuditFails, AfterAudit, Result
<1>9. ASSUME NEW r \in Req, CreateKey(r) PROVE HoldsKey'
  <2>1. NewKey(job[r]) \in Key /\ job[r].key \in Name
    BY <1>9, JobTypes, NewKeyType DEF CreateKey
  <2>2. \A q \in Req : pc[q] # "idle" => job[q].key \in Name
    BY JobTypes
  <2>3. CASE keys[job[r].key] # Nil /\ Answer(r, "conflict") /\ UNCHANGED <<keys, held>>
    BY <1>9, <2>2, <2>3 DEF CreateKey
  <2>4. CASE keys[job[r].key] = Nil /\ Hold(r, NewKey(job[r])) /\ Goto(r, "sync")
             /\ keys' = [keys EXCEPT ![job[r].key] = NewKey(job[r])]
    <3>1. held'[r] \in Key /\ keys'[job[r].key] # Nil /\ job' = job
      BY <1>9, <2>1, <2>4 DEF CreateKey
    <3> SUFFICES ASSUME NEW q \in Req \ {r}
                 PROVE  /\ pc[q] \in {"update", "sync"} => held[q] \in Key
                        /\ pc[q] \in {"update", "sync", "revoke"} => keys'[job[q].key] # Nil
      BY <2>4, <3>1
    <3> QED
      BY <2>2
  <2> QED
    BY <1>9, <2>3, <2>4 DEF CreateKey
<1>10. ASSUME NEW r \in Req, GetKeyByName(r) PROVE HoldsKey'
  <2> DEFINE j == job[r]
             k == keys[j.key]
  <2>1. j \in Jobs /\ k \in Key \cup {Nil}
    BY <1>10, JobTypes DEF GetKeyByName
  <2>2. ASSUME k # Nil, j.op = "update" PROVE Updated(k, j) \in Key
    BY <2>1, <2>2, UpdatedType
  <2>3. ASSUME k # Nil, j.op = "save" PROVE Saved(k, j) \in Key
    BY <2>1, <2>3, SavedType
  <2>4. CASE Answer(r, "not_found") /\ UNCHANGED held
    BY <1>10, <2>4 DEF GetKeyByName
  <2>5. ASSUME NEW x \in Key, NEW l \in {"update", "revoke"}, k # Nil, Hold(r, x), Goto(r, l)
        PROVE  HoldsKey'
    BY <1>10, <2>5 DEF GetKeyByName
  <2> QED
    BY <1>10, <2>1, <2>2, <2>3, <2>4, <2>5 DEF GetKeyByName
<1>11. ASSUME NEW r \in Req, UpdateKey(r) PROVE HoldsKey'
  BY <1>11 DEF UpdateKey
<1>12. ASSUME NEW r \in Req, SyncKeyFTS(r) PROVE HoldsKey'
  BY <1>12 DEF SyncKeyFTS
<1>13. ASSUME NEW r \in Req, RevokeKey(r) PROVE HoldsKey'
  BY <1>13 DEF RevokeKey
<1>14. CASE UNCHANGED vars
  BY <1>14 DEF vars
<1> QED
  BY <1>1, <1>2, <1>3, <1>4, <1>5, <1>6, <1>7, <1>8, <1>9, <1>10, <1>11, <1>12, <1>13,
     <1>14
     DEF Next, Handle

\* A revocation is made before it is logged and answered.
LEMMA RevokedByThenStep ==
    ASSUME TypeOK, JobFits, HoldsKey, KeysStay, RevokedByThen, [Next]_vars
    PROVE  RevokedByThen'
<1> USE ConstantsAssumption
    DEF TypeOK, JobFits, HoldsKey, KeysStay, RevokedByThen, Running, Answered, Goto,
        Answer, Hold, table, past
<1>1. CASE Tick
  BY <1>1 DEF Tick
<1>2. CASE Crash
  BY <1>2 DEF Crash, Active
<1>3. ASSUME NEW r \in Req, Arrive(r) PROVE RevokedByThen'
  BY <1>3 DEF Arrive, FirstLabel, Active
<1>4. ASSUME NEW r \in Req, Abort(r) PROVE RevokedByThen'
  BY <1>4 DEF Abort
<1>5. ASSUME NEW r \in Req, Authenticate(r) PROVE RevokedByThen'
  BY <1>5 DEF Authenticate, Admitted, Authorize
<1>6. ASSUME NEW r \in Req, Access(r) PROVE RevokedByThen'
  BY <1>6 DEF Access, AgentOps, Writes
<1>7. ASSUME NEW r \in Req, Audit(r) PROVE RevokedByThen'
  BY <1>7 DEF Audit, Logged, EntryOf, AfterAudit, Result
<1>8. ASSUME NEW r \in Req, AuditFails(r) PROVE RevokedByThen'
  BY <1>8 DEF AuditFails, AfterAudit, Result
<1>9. ASSUME NEW r \in Req, CreateKey(r) PROVE RevokedByThen'
  <2> SUFFICES ASSUME NEW q \in Req, (pc[q] = "audit" \/ Answered(q, "ok"))',
                      job'[q].op = "revoke"
               PROVE  keys'[job[q].key] # Nil /\ keys'[job[q].key].revoked
    BY <1>9 DEF CreateKey
  <2>1. q # r /\ (pc[q] = "audit" \/ Answered(q, "ok")) /\ job[q].op = "revoke"
    BY <1>9 DEF CreateKey
  <2>2. job[q].key \in Name
    BY <2>1, JobTypes
  <2> QED
    BY <2>1, <2>2
<1>10. ASSUME NEW r \in Req, GetKeyByName(r) PROVE RevokedByThen'
  BY <1>10 DEF GetKeyByName
<1>11. ASSUME NEW r \in Req, UpdateKey(r) PROVE RevokedByThen'
  BY <1>11 DEF UpdateKey
<1>12. ASSUME NEW r \in Req, SyncKeyFTS(r) PROVE RevokedByThen'
  BY <1>12 DEF SyncKeyFTS
<1>13. ASSUME NEW r \in Req, RevokeKey(r) PROVE RevokedByThen'
  <2> DEFINE n == job[r].key
             k == [keys[n] EXCEPT !.revoked = TRUE]
  <2>1. n \in Name /\ keys[n] \in Key
    BY <1>13, JobTypes DEF RevokeKey
  <2>2. k \in Key /\ k.revoked
    BY <2>1 DEF Key
  <2>3. keys' = [keys EXCEPT ![n] = k]
    BY <1>13 DEF RevokeKey
  <2>4. keys'[n] # Nil /\ keys'[n].revoked
    <3> HIDE DEF n, k
    <3> QED
      BY <2>1, <2>2, <2>3
  <2> SUFFICES ASSUME NEW q \in Req \ {r}, pc[q] = "audit" \/ Answered(q, "ok"),
                      job[q].op = "revoke"
               PROVE  keys'[job[q].key] # Nil /\ keys'[job[q].key].revoked
    BY <1>13, <2>4 DEF RevokeKey
  <2>5. job[q].key \in Name
    BY JobTypes
  <2> QED
    BY <2>5
<1>14. CASE UNCHANGED vars
  BY <1>14 DEF vars
<1> QED
  BY <1>1, <1>2, <1>3, <1>4, <1>5, <1>6, <1>7, <1>8, <1>9, <1>10, <1>11, <1>12, <1>13,
     <1>14
     DEF Next, Handle

\* No principal before the request is authenticated.
LEMMA NotYetAdmittedStep ==
    ASSUME TypeOK, JobFits, NotYetAdmitted, [Next]_vars
    PROVE  NotYetAdmitted'
<1> USE ConstantsAssumption
    DEF TypeOK, JobFits, NotYetAdmitted, Running, Goto, Answer, Hold, table, past
<1>1. CASE Tick
  BY <1>1 DEF Tick
<1>2. CASE Crash
  BY <1>2 DEF Crash, Active
<1>3. ASSUME NEW r \in Req, Arrive(r) PROVE NotYetAdmitted'
  BY <1>3 DEF Arrive, FirstLabel, Active
<1>4. ASSUME NEW r \in Req, Abort(r) PROVE NotYetAdmitted'
  BY <1>4 DEF Abort
<1>5. ASSUME NEW r \in Req, Authenticate(r) PROVE NotYetAdmitted'
  BY <1>5 DEF Authenticate, Admitted, Authorize
<1>6. ASSUME NEW r \in Req, Access(r) PROVE NotYetAdmitted'
  BY <1>6 DEF Access
<1>7. ASSUME NEW r \in Req, Audit(r) PROVE NotYetAdmitted'
  BY <1>7 DEF Audit, Logged, EntryOf, AfterAudit, Result
<1>8. ASSUME NEW r \in Req, AuditFails(r) PROVE NotYetAdmitted'
  BY <1>8 DEF AuditFails, AfterAudit, Result
<1>9. ASSUME NEW r \in Req, CreateKey(r) PROVE NotYetAdmitted'
  BY <1>9 DEF CreateKey
<1>10. ASSUME NEW r \in Req, GetKeyByName(r) PROVE NotYetAdmitted'
  BY <1>10 DEF GetKeyByName
<1>11. ASSUME NEW r \in Req, UpdateKey(r) PROVE NotYetAdmitted'
  BY <1>11 DEF UpdateKey
<1>12. ASSUME NEW r \in Req, SyncKeyFTS(r) PROVE NotYetAdmitted'
  BY <1>12 DEF SyncKeyFTS
<1>13. ASSUME NEW r \in Req, RevokeKey(r) PROVE NotYetAdmitted'
  BY <1>13 DEF RevokeKey
<1>14. CASE UNCHANGED vars
  BY <1>14 DEF vars
<1> QED
  BY <1>1, <1>2, <1>3, <1>4, <1>5, <1>6, <1>7, <1>8, <1>9, <1>10, <1>11, <1>12, <1>13,
     <1>14
     DEF Next, Handle

\* A request that comes after the revocation is not admitted.
LEMMA RevocationStep ==
    ASSUME TypeOK, JobFits, RevokedByThen, NotYetAdmitted, RevocationIsInstant, [Next]_vars
    PROVE  RevocationIsInstant'
<1> USE ConstantsAssumption
    DEF TypeOK, JobFits, RevokedByThen, NotYetAdmitted, RevocationIsInstant,
        Running, Answered, Agent, Goto, Answer, Hold, table, past
<1>1. CASE Tick
  BY <1>1 DEF Tick
<1>2. CASE Crash
  BY <1>2 DEF Crash, Active
<1>3. ASSUME NEW r \in Req, Arrive(r) PROVE RevocationIsInstant'
  BY <1>3 DEF Arrive, FirstLabel, Active
<1>4. ASSUME NEW r \in Req, Abort(r) PROVE RevocationIsInstant'
  BY <1>4 DEF Abort
<1>5. ASSUME NEW r \in Req, Authenticate(r) PROVE RevocationIsInstant'
  BY <1>5 DEF Authenticate, Admitted, Authorize
<1>6. ASSUME NEW r \in Req, Access(r) PROVE RevocationIsInstant'
  BY <1>6 DEF Access
<1>7. ASSUME NEW r \in Req, Audit(r) PROVE RevocationIsInstant'
  BY <1>7 DEF Audit, Logged, EntryOf, AfterAudit, Result
<1>8. ASSUME NEW r \in Req, AuditFails(r) PROVE RevocationIsInstant'
  BY <1>8 DEF AuditFails, AfterAudit, Result
<1>9. ASSUME NEW r \in Req, CreateKey(r) PROVE RevocationIsInstant'
  BY <1>9 DEF CreateKey
<1>10. ASSUME NEW r \in Req, GetKeyByName(r) PROVE RevocationIsInstant'
  BY <1>10 DEF GetKeyByName, AgentOps, Writes
<1>11. ASSUME NEW r \in Req, UpdateKey(r) PROVE RevocationIsInstant'
  BY <1>11 DEF UpdateKey
<1>12. ASSUME NEW r \in Req, SyncKeyFTS(r) PROVE RevocationIsInstant'
  BY <1>12 DEF SyncKeyFTS
<1>13. ASSUME NEW r \in Req, RevokeKey(r) PROVE RevocationIsInstant'
  BY <1>13 DEF RevokeKey
<1>14. CASE UNCHANGED vars
  BY <1>14 DEF vars
<1> QED
  BY <1>1, <1>2, <1>3, <1>4, <1>5, <1>6, <1>7, <1>8, <1>9, <1>10, <1>11, <1>12, <1>13,
     <1>14
     DEF Next, Handle

\* A request is answered when it is logged.
LEMMA LoggedLastStep ==
    ASSUME TypeOK, LoggedLast, [Next]_vars
    PROVE  LoggedLast'
<1> USE ConstantsAssumption DEF TypeOK, LoggedLast, Logging, Running, Goto, Answer, Hold, table, past
<1>1. CASE Tick
  BY <1>1 DEF Tick
<1>2. CASE Crash
  BY <1>2 DEF Crash, Active
<1>3. ASSUME NEW r \in Req, Arrive(r) PROVE LoggedLast'
  BY <1>3 DEF Arrive, FirstLabel, Active
<1>4. ASSUME NEW r \in Req, Abort(r) PROVE LoggedLast'
  BY <1>4 DEF Abort
<1>5. ASSUME NEW r \in Req, Authenticate(r) PROVE LoggedLast'
  BY <1>5 DEF Authenticate, Admitted, Authorize
<1>6. ASSUME NEW r \in Req, Access(r) PROVE LoggedLast'
  BY <1>6 DEF Access
<1>7. ASSUME NEW r \in Req, Audit(r) PROVE LoggedLast'
  BY <1>7 DEF Audit, Logged, EntryOf, AfterAudit, Result
<1>8. ASSUME NEW r \in Req, AuditFails(r) PROVE LoggedLast'
  BY <1>8 DEF AuditFails, AfterAudit, Result
<1>9. ASSUME NEW r \in Req, CreateKey(r) PROVE LoggedLast'
  BY <1>9 DEF CreateKey
<1>10. ASSUME NEW r \in Req, GetKeyByName(r) PROVE LoggedLast'
  BY <1>10 DEF GetKeyByName
<1>11. ASSUME NEW r \in Req, UpdateKey(r) PROVE LoggedLast'
  BY <1>11 DEF UpdateKey
<1>12. ASSUME NEW r \in Req, SyncKeyFTS(r) PROVE LoggedLast'
  BY <1>12 DEF SyncKeyFTS
<1>13. ASSUME NEW r \in Req, RevokeKey(r) PROVE LoggedLast'
  BY <1>13 DEF RevokeKey
<1>14. CASE UNCHANGED vars
  BY <1>14 DEF vars
<1> QED
  BY <1>1, <1>2, <1>3, <1>4, <1>5, <1>6, <1>7, <1>8, <1>9, <1>10, <1>11, <1>12, <1>13,
     <1>14
     DEF Next, Handle

\* Who gets to the log has been admitted and checked.
LEMMA AuditReadyStep ==
    ASSUME TypeOK, JobFits, AuditReady, [Next]_vars
    PROVE  AuditReady'
<1> USE ConstantsAssumption
    DEF TypeOK, JobFits, AuditReady, Cleared, Running, Goto, Answer, Hold, table, past
<1>1. CASE Tick
  BY <1>1 DEF Tick
<1>2. CASE Crash
  BY <1>2 DEF Crash, Active
<1>3. ASSUME NEW r \in Req, Arrive(r) PROVE AuditReady'
  <2>1. PICK j \in Jobs : job' = [job EXCEPT ![r] = j] /\ Goto(r, FirstLabel(j))
    BY <1>3 DEF Arrive
  <2> QED
    BY <1>3, <2>1, FirstLabelFits DEF Arrive
<1>4. ASSUME NEW r \in Req, Abort(r) PROVE AuditReady'
  BY <1>4 DEF Abort
<1>5. ASSUME NEW r \in Req, Authenticate(r) PROVE AuditReady'
  <2> DEFINE k == keys[job[r].key]
  <2>1. Admitted(k) => PrincipalOf(k) \in Principal
    BY <1>5, JobTypes, PrincipalOfType DEF Authenticate, Admitted
  <2> QED
    BY <1>5, <2>1 DEF Authenticate, Authorize, MayWrite, Writes
<1>6. ASSUME NEW r \in Req, Access(r) PROVE AuditReady'
  BY <1>6 DEF Access
<1>7. ASSUME NEW r \in Req, Audit(r) PROVE AuditReady'
  BY <1>7 DEF Audit, Logged, EntryOf, AfterAudit, Result
<1>8. ASSUME NEW r \in Req, AuditFails(r) PROVE AuditReady'
  BY <1>8 DEF AuditFails, AfterAudit, Result
<1>9. ASSUME NEW r \in Req, CreateKey(r) PROVE AuditReady'
  BY <1>9 DEF CreateKey
<1>10. ASSUME NEW r \in Req, GetKeyByName(r) PROVE AuditReady'
  BY <1>10 DEF GetKeyByName
<1>11. ASSUME NEW r \in Req, UpdateKey(r) PROVE AuditReady'
  BY <1>11 DEF UpdateKey
<1>12. ASSUME NEW r \in Req, SyncKeyFTS(r) PROVE AuditReady'
  BY <1>12 DEF SyncKeyFTS, AgentOps, Writes
<1>13. ASSUME NEW r \in Req, RevokeKey(r) PROVE AuditReady'
  BY <1>13 DEF RevokeKey, AgentOps, Writes
<1>14. CASE UNCHANGED vars
  BY <1>14 DEF vars
<1> QED
  BY <1>1, <1>2, <1>3, <1>4, <1>5, <1>6, <1>7, <1>8, <1>9, <1>10, <1>11, <1>12, <1>13,
     <1>14
     DEF Next, Handle

\* What is answered and what is logged agree.
LEMMA AccessIsLoggedStep ==
    ASSUME TypeOK, JobFits, LoggedLast, AuditReady, AccessIsLogged, [Next]_vars
    PROVE  AccessIsLogged'
<1> USE ConstantsAssumption
    DEF TypeOK, JobFits, LoggedLast, Logging, AuditReady, AccessIsLogged,
        AnswersAreLogged, EntriesAreEarned, Cleared,
        Running, Answered, Agent, Goto, Answer, Hold, table, past
<1>1. CASE Tick
  BY <1>1 DEF Tick
<1>2. CASE Crash
  BY <1>2 DEF Crash, Active
<1>3. ASSUME NEW r \in Req, Arrive(r) PROVE AccessIsLogged'
  <2>1. PICK j \in Jobs : job' = [job EXCEPT ![r] = j] /\ Goto(r, FirstLabel(j))
    BY <1>3 DEF Arrive
  <2> QED
    BY <1>3, <2>1, FirstLabelFits DEF Arrive
<1>4. ASSUME NEW r \in Req, Abort(r) PROVE AccessIsLogged'
  <2>1. /\ pc'[r] = "done" /\ reply'[r] \notin {"ok", "forbidden"}
        /\ pc[r] \in Running \ DOMAIN Result
    BY <1>4 DEF Abort
  <2>2. reply'[r] = "error" => job[r].op # "get"
    BY <1>4, <2>1 DEF Abort, Result
  <2>3. UNCHANGED <<log, job, held, dropped>>
    BY <1>4 DEF Abort
  <2>4. \A q \in Req \ {r} : pc'[q] = pc[q] /\ reply'[q] = reply[q]
    BY <1>4 DEF Abort
  <2> QED
    BY <2>1, <2>2, <2>3, <2>4 DEF Logged
<1>5. ASSUME NEW r \in Req, Authenticate(r) PROVE AccessIsLogged'
  <2> DEFINE k == keys[job[r].key]
  <2>1. Admitted(k) => PrincipalOf(k) \in Principal
    BY <1>5, JobTypes, PrincipalOfType DEF Authenticate, Admitted
  <2> QED
    BY <1>5, <2>1 DEF Authenticate, Authorize, MayWrite, Writes
<1>6. ASSUME NEW r \in Req, Access(r) PROVE AccessIsLogged'
  BY <1>6 DEF Access
<1>7. ASSUME NEW r \in Req, Audit(r) PROVE AccessIsLogged'
  <2> DEFINE e == EntryOf(r)
  <2>1. /\ log' = log \cup {e} /\ e.req = r /\ e.result = Result[pc[r]]
        /\ pc[r] \in DOMAIN Result
        /\ UNCHANGED <<job, held, dropped>>
    BY <1>7 DEF Audit, Logged, EntryOf
  <2>2. /\ pc'[r] = "done" =>
              /\ reply'[r] = "ok" => pc[r] = "audit"
              /\ reply'[r] = "error" => pc[r] = "audit_error"
              /\ reply'[r] = "forbidden" => pc[r] = "audit_denied"
        /\ \A q \in Req \ {r} : pc'[q] = pc[q] /\ reply'[q] = reply[q]
    BY <1>7 DEF Audit, AfterAudit, Result
  <2>3. e = [req |-> r, result |-> Result[pc[r]]]
    BY DEF EntryOf
  <2>4. /\ Result["audit"] = "ok" /\ Result["audit_denied"] = "denied"
        /\ Result["audit_error"] = "error"
        /\ pc[r] \in {"audit", "audit_denied", "audit_error"}
    BY <2>1 DEF Result
  <2>5. ASSUME NEW q \in Req \ {r}, Agent(q)
        PROVE  AnswersAreLogged(q)' /\ EntriesAreEarned(q)'
    BY <2>1, <2>2, <2>5
  <2>6. ASSUME Agent(r), pc'[r] = "done" PROVE AnswersAreLogged(r)'
    <3>1. /\ reply'[r] = "ok" => Result[pc[r]] = "ok"
          /\ reply'[r] = "error" => Result[pc[r]] = "error"
          /\ reply'[r] = "forbidden" => Result[pc[r]] = "denied"
      BY <2>2, <2>4, <2>6
    <3>2. [req |-> r, result |-> Result[pc[r]]] \in log'
      BY <2>1, <2>3
    <3> QED
      BY <2>6, <3>1, <3>2
  <2>7. ASSUME Agent(r), pc'[r] # "done" PROVE AnswersAreLogged(r)'
    BY <2>7
  <2>8. ASSUME Agent(r) PROVE EntriesAreEarned(r)'
    <3>1. e.result = "denied" <=> ~ InScope(held[r], job[r])
      BY <2>1, <2>4, <2>8
    <3>2. e.result = "error" => job[r].op \notin Writes
      BY <2>1, <2>4, <2>8 DEF Writes
    <3>3. held[r] # Nil /\ MayWrite(held[r], job[r])
      BY <2>1, <2>4, <2>8
    <3> HIDE DEF e
    <3> QED
      BY <2>1, <2>8, <3>1, <3>2, <3>3
  <2> QED
    BY <2>1, <2>5, <2>6, <2>7, <2>8
<1>8. ASSUME NEW r \in Req, AuditFails(r) PROVE AccessIsLogged'
  BY <1>8 DEF AuditFails, AfterAudit, Result
<1>9. ASSUME NEW r \in Req, CreateKey(r) PROVE AccessIsLogged'
  BY <1>9 DEF CreateKey
<1>10. ASSUME NEW r \in Req, GetKeyByName(r) PROVE AccessIsLogged'
  BY <1>10 DEF GetKeyByName
<1>11. ASSUME NEW r \in Req, UpdateKey(r) PROVE AccessIsLogged'
  BY <1>11 DEF UpdateKey
<1>12. ASSUME NEW r \in Req, SyncKeyFTS(r) PROVE AccessIsLogged'
  BY <1>12 DEF SyncKeyFTS
<1>13. ASSUME NEW r \in Req, RevokeKey(r) PROVE AccessIsLogged'
  BY <1>13 DEF RevokeKey
<1>14. CASE UNCHANGED vars
  BY <1>14 DEF vars
<1> QED
  BY <1>1, <1>2, <1>3, <1>4, <1>5, <1>6, <1>7, <1>8, <1>9, <1>10, <1>11, <1>12, <1>13,
     <1>14
     DEF Next, Handle

-----------------------------------------------------------------------------
(* A write that no other writer of the key overlapped.  Alone says so of a *)
(* request at any time, and once false stays false; while it is true what  *)
(* the request holds and what is stored agree with what it asks.           *)

Alone(r) ==
    Writer(r) /\ \A q \in Req \ {r} : Writer(q) /\ job[q].key = job[r].key => q \in after[r]

MetaFound(n) == {e.meta : e \in {x \in fts : x.name = n}}

Stands(r) ==
    LET k == keys[job[r].key] IN
    /\ pc[r] = "update" => Asks(job[r], came[r], now, held[r])
    /\ pc[r] = "sync" => Asks(job[r], came[r], now, k) /\ held[r].meta = k.meta
    /\ pc[r] = "audit" \/ Answered(r, "ok") =>
          Asks(job[r], came[r], now, k) /\ MetaFound(job[r].key) = {k.meta}

NoJobYet == \A r \in Req : pc[r] = "idle" => job[r] = Nil

CameBefore == \A r \in Req : came[r] <= now

LoneInv == NoJobYet /\ CameBefore /\ \A r \in Req : Alone(r) => Stands(r)

\* What a handler makes of a job is what the job asks for, and WrittenBack
\* keeps it.
LEMMA AskedFor ==
    ASSUME TypeOK, NEW k \in Key, NEW j \in Jobs, NEW from \in Nat, from <= now
    PROVE  /\ j.op \in {"create", "save"} => Asks(j, from, now, NewKey(j))
           /\ j.op = "save" => Asks(j, from, now, Saved(k, j))
           /\ j.op = "update" => Asks(j, from, now, Updated(k, j))
<1>1. now \in Nat
  BY ConstantsAssumption DEF TypeOK
<1>2. ASSUME j.op \in {"create", "save", "update"}
      PROVE  Lifetime(j.ttl) \in IF j.ttl = Nil THEN {Nil} ELSE from + j.ttl .. now + j.ttl
  <2>1. j.ttl = Nil \/ j.ttl \in Nat
    BY <1>2, JobTypes, ConstantsAssumption
  <2> QED
    BY <1>1, <2>1 DEF Lifetime
<1> QED
  BY <1>2 DEF Asks, NewKey, Saved, Updated, Key

LEMMA AskedOfColumns ==
    ASSUME NEW j, NEW from, NEW to, NEW k, NEW x, Asks(j, from, to, k), x.scope = k.scope,
           x.perm = k.perm, x.meta = k.meta, x.expires = k.expires
    PROVE  Asks(j, from, to, x)
BY DEF Asks

\* What a request has been given it has been given still when the clock moves on.
LEMMA AsksLater ==
    ASSUME NEW j \in Jobs, j.op \in {"create", "save", "update"}, NEW k, NEW from \in Nat,
           NEW to \in Nat, NEW later \in Nat, to <= later, Asks(j, from, to, k)
    PROVE  Asks(j, from, later, k)
<1>1. j.ttl = Nil \/ j.ttl \in Nat
  BY JobTypes, ConstantsAssumption
<1>2. ASSUME j.ttl \in Nat PROVE from + j.ttl .. to + j.ttl \subseteq from + j.ttl .. later + j.ttl
  BY <1>2
<1> QED
  BY <1>1, <1>2 DEF Asks

LEMMA WrittenBackColumns ==
    ASSUME NEW k \in Key, NEW x \in Key
    PROVE  LET y == WrittenBack(k, x)
           IN  y.scope = x.scope /\ y.perm = x.perm /\ y.meta = x.meta /\ y.expires = x.expires
BY DEF WrittenBack, Key

\* A lone writer was one before the step, and no other writer of its key runs.
LEMMA StillAlone ==
    ASSUME NotYetAdmitted, UNCHANGED <<job, after>>, NEW r \in Req, Alone(r)'
    PROVE  /\ Alone(r)
           /\ \A q \in Req \ {r} : Writer(q) /\ job[q].key = job[r].key => pc[q] = "done"
BY DEF Alone, Writer, NotYetAdmitted

\* What others do to keys and to the index leaves a lone writer's alone.
LEMMA OthersLeave ==
    ASSUME LoneInv, NotYetAdmitted, UNCHANGED <<job, past, now>>, NEW r \in Req, Alone(r)',
           UNCHANGED keys[job[r].key], UNCHANGED MetaFound(job[r].key),
           pc'[r] = pc[r], reply'[r] = reply[r], held'[r] = held[r]
    PROVE  Stands(r)'
<1>1. Stands(r)
  BY StillAlone DEF LoneInv, past
<1> QED
  BY <1>1 DEF Stands, Answered, MetaFound, past

LEMMA NoJobYetStep ==
    ASSUME TypeOK, JobFits, NoJobYet, [Next]_vars
    PROVE  NoJobYet'
<1> USE DEF TypeOK, NoJobYet, Goto, Answer, Hold, table, past
<1>1. CASE Tick \/ Crash \/ UNCHANGED vars
  BY <1>1 DEF Tick, Crash, Active, vars
<1>2. ASSUME NEW r \in Req, Arrive(r) PROVE NoJobYet'
  BY <1>2, FirstLabelFits DEF Arrive
<1>3. ASSUME NEW r \in Req, Abort(r) PROVE NoJobYet'
  BY <1>3 DEF Abort
<1>4. ASSUME NEW r \in Req, Handle(r) PROVE NoJobYet'
  <2>1. UNCHANGED job
    BY <1>4 DEF Handle, Authenticate, Access, Audit, AuditFails, CreateKey, GetKeyByName,
                UpdateKey, SyncKeyFTS, RevokeKey
  <2>2. \A q \in Req : pc'[q] = "idle" => pc[q] = "idle"
    BY <1>4 DEF Handle, Authenticate, Authorize, Access, Audit, AuditFails, AfterAudit, Result,
                CreateKey, GetKeyByName, UpdateKey, SyncKeyFTS, RevokeKey
  <2> QED
    BY <2>1, <2>2
<1> QED
  BY <1>1, <1>2, <1>3, <1>4 DEF Next

\* The steps that write neither keys nor the index, and hold no key.
LEMMA PlainLoneStep ==
    ASSUME IInv, LoneInv, UNCHANGED <<table, job, past, now>>, NEW q \in Req,
           \A o \in Req \ {q} : pc'[o] = pc[o] /\ reply'[o] = reply[o] /\ held'[o] = held[o],
           pc'[q] \notin {"update", "sync"},
           Writer(q) => ~ (pc[q] # "audit" /\ pc'[q] = "audit"),
           Writer(q) /\ Answered(q, "ok")' => pc[q] = "audit" \/ Answered(q, "ok"),
           NEW r \in Req, Alone(r)'
    PROVE  Stands(r)'
<1>1. Alone(r) /\ Stands(r) /\ Writer(r)
  BY StillAlone DEF IInv, LoneInv, Alone, past
<1>2. CASE r # q
  BY <1>1, <1>2, OthersLeave DEF IInv, table, MetaFound
<1>3. CASE r = q
  BY <1>1, <1>3 DEF Stands, Answered, table, past, MetaFound
<1> QED
  BY <1>2, <1>3

\* Requests come at the time it is, and the clock only goes on.
LEMMA CameBeforeStep ==
    ASSUME TypeOK, CameBefore, [Next]_vars
    PROVE  CameBefore'
<1> USE ConstantsAssumption DEF TypeOK, CameBefore, past
<1>1. CASE Tick
  BY <1>1 DEF Tick
<1>2. CASE Crash \/ UNCHANGED vars
  BY <1>2 DEF Crash, vars
<1>3. ASSUME NEW r \in Req, Arrive(r) PROVE CameBefore'
  BY <1>3 DEF Arrive
<1>4. ASSUME NEW r \in Req, Abort(r) \/ Handle(r) PROVE CameBefore'
  <2>1. UNCHANGED <<came, now>>
    BY <1>4 DEF Abort, Handle, Authenticate, Access, Audit, AuditFails, CreateKey,
                GetKeyByName, UpdateKey, SyncKeyFTS, RevokeKey
  <2> QED
    BY <2>1
<1> QED
  BY <1>1, <1>2, <1>3, <1>4 DEF Next

LEMMA LoneStep ==
    ASSUME IInv, LoneInv, [Next]_vars, NEW r \in Req, Alone(r)'
    PROVE  Stands(r)'
<1>0. TypeOK /\ JobFits /\ HoldsKey /\ NotYetAdmitted /\ NoJobYet
  BY DEF IInv, LoneInv
<1> USE <1>0 DEF TypeOK, Goto, Answer, Hold
<1>1. CASE UNCHANGED vars
  BY <1>1, OthersLeave DEF vars, table, past, MetaFound
<1>12. CASE Tick
  <2>1. UNCHANGED <<keys, fts, job, after, came, held, pc, reply>>
    BY <1>12 DEF Tick, table, past
  <2>2. Alone(r) /\ Stands(r)
    BY <2>1, StillAlone DEF LoneInv
  <2>3. job[r] \in Jobs /\ job[r].op \in {"create", "save", "update"}
    BY <2>2, ConstantsAssumption DEF Alone, Writer
  <2>4. came[r] \in Nat /\ now \in Nat /\ now' \in Nat /\ now <= now'
    BY <1>12, ConstantsAssumption DEF Tick
  <2>5. \A k : Asks(job[r], came[r], now, k) => Asks(job[r], came[r], now', k)
    BY <2>3, <2>4, AsksLater
  <2> QED
    BY <2>1, <2>2, <2>5 DEF Stands, Answered, MetaFound
<1>2. CASE Crash
  <2>1. UNCHANGED <<job, past, now, table, held>>
    BY <1>2 DEF Crash
  <2>2. CASE r \in Active
    BY <1>2, <2>2 DEF Crash, Stands, Answered
  <2>3. CASE r \notin Active
    BY <1>2, <2>1, <2>3, OthersLeave DEF Crash, table, MetaFound
  <2> QED
    BY <2>2, <2>3
<1>3. ASSUME NEW q \in Req, Arrive(q) PROVE Stands(r)'
  <2>1. /\ UNCHANGED <<table, held, reply, now>>
        /\ \A o \in Req \ {q} :
              job'[o] = job[o] /\ after'[o] = after[o] /\ came'[o] = came[o] /\ pc'[o] = pc[o]
        /\ job[q] = Nil
    BY <1>3 DEF Arrive, NoJobYet
  <2>2. CASE r = q
    <3>1. pc'[r] \in {"auth", "insert", "lookup"}
      BY <1>3, <2>2, FirstLabelFits DEF Arrive
    <3> QED
      BY <3>1 DEF Stands, Answered
  <2>3. CASE r # q
    <3>1. Alone(r)
      BY <2>1, <2>3 DEF Alone, Writer
    <3>2. Stands(r)
      BY <3>1 DEF LoneInv
    <3> QED
      BY <2>1, <2>3, <3>2 DEF Stands, Answered, table, MetaFound
  <2> QED
    BY <2>2, <2>3
<1>4. ASSUME NEW q \in Req, Abort(q) PROVE Stands(r)'
  <2>1. pc'[q] = "done" /\ reply'[q] # "ok"
    BY <1>4 DEF Abort
  <2>2. \A o \in Req \ {q} : pc'[o] = pc[o] /\ reply'[o] = reply[o] /\ held'[o] = held[o]
    BY <1>4 DEF Abort
  <2> QED
    BY <1>4, <2>1, <2>2, PlainLoneStep DEF Abort, Answered
<1>5. ASSUME NEW q \in Req, Authenticate(q) \/ Access(q) PROVE Stands(r)'
  <2>1. ~ Writer(q)
    BY <1>5 DEF Writer, Authenticate, Access, JobFits, AgentOps, Writes
  <2>2. \A o \in Req \ {q} : pc'[o] = pc[o] /\ reply'[o] = reply[o] /\ held'[o] = held[o]
    BY <1>5 DEF Authenticate, Authorize, Access
  <2>3. pc'[q] \notin {"update", "sync"}
    BY <1>5 DEF Authenticate, Authorize, Access
  <2> QED
    BY <1>5, <2>1, <2>2, <2>3, PlainLoneStep DEF Authenticate, Access
<1>6. ASSUME NEW q \in Req, Audit(q) \/ AuditFails(q) PROVE Stands(r)'
  <2>1. /\ pc'[q] \notin {"update", "sync", "audit"}
        /\ Answered(q, "ok")' => pc[q] = "audit"
    BY <1>6 DEF Audit, AuditFails, AfterAudit, Result, Answered
  <2>2. \A o \in Req \ {q} : pc'[o] = pc[o] /\ reply'[o] = reply[o] /\ held'[o] = held[o]
    BY <1>6 DEF Audit, AuditFails, AfterAudit, Result
  <2> QED
    BY <1>6, <2>1, <2>2, PlainLoneStep DEF Audit, AuditFails, Answered
<1>7. ASSUME NEW q \in Req, CreateKey(q) PROVE Stands(r)'
  <2>1. job[q] \in Jobs /\ job[q].op = "create" /\ job[q].key \in Name /\ Writer(q)
    BY <1>7, JobTypes, ConstantsAssumption DEF CreateKey, JobFits, Writer
  <2>2. UNCHANGED <<fts, job, past, now>>
    BY <1>7 DEF CreateKey
  <2>3. CASE Answer(q, "conflict") /\ UNCHANGED <<keys, held>>
    BY <2>2, <2>3, PlainLoneStep DEF Answered, table
  <2>4. CASE /\ keys' = [keys EXCEPT ![job[q].key] = NewKey(job[q])]
             /\ Hold(q, NewKey(job[q])) /\ Goto(q, "sync")
    <3>1. CASE r = q
      <4>1. Asks(job[r], came[r], now, NewKey(job[r]))
        <5>1. NewKey(job[r]) \in Key
          BY <2>1, <3>1, NewKeyType
        <5> QED
          BY <2>1, <3>1, <5>1, AskedFor, ConstantsAssumption DEF LoneInv, CameBefore
      <4> QED
        BY <2>1, <2>2, <2>4, <3>1, <4>1 DEF Stands, Answered, past
    <3>2. CASE r # q
      <4>1. job[q].key # job[r].key
        BY <1>7, <2>1, <2>2, <3>2, StillAlone DEF CreateKey, past
      <4> QED
        BY <2>1, <2>2, <2>4, <3>2, <4>1, OthersLeave DEF MetaFound
    <3> QED
      BY <3>1, <3>2
  <2> QED
    BY <1>7, <2>3, <2>4 DEF CreateKey
<1>8. ASSUME NEW q \in Req, GetKeyByName(q) PROVE Stands(r)'
  <2>1. job[q] \in Jobs /\ job[q].key \in Name /\ keys[job[q].key] \in Key \cup {Nil}
    BY <1>8, JobTypes DEF GetKeyByName, JobFits
  <2>2. UNCHANGED <<table, job, past, now>>
    BY <1>8 DEF GetKeyByName
  <2>3. CASE r = q
    <3>1. pc'[r] = "update" => Asks(job[r], came[r], now, held'[r])
      BY <1>8, <2>1, <2>3, AskedFor, ConstantsAssumption DEF GetKeyByName, LoneInv, CameBefore
    <3>2. pc'[r] \in {"update", "revoke", "done"} /\ ~ Answered(r, "ok")'
      BY <1>8, <2>3 DEF GetKeyByName, Answered
    <3> QED
      BY <2>2, <3>1, <3>2 DEF Stands, past
  <2>4. CASE r # q
    <3>1. pc'[r] = pc[r] /\ reply'[r] = reply[r] /\ held'[r] = held[r]
      BY <1>8, <2>4 DEF GetKeyByName
    <3> QED
      BY <2>2, <3>1, OthersLeave DEF table, MetaFound
  <2> QED
    BY <2>3, <2>4
<1>9. ASSUME NEW q \in Req, UpdateKey(q) PROVE Stands(r)'
  <2> DEFINE n == job[q].key
             k == WrittenBack(keys[n], held[q])
  <2>1. /\ n \in Name /\ keys[n] \in Key /\ held[q] \in Key
        /\ job[q].op \in {"create", "update", "save"} /\ job[q] \in Jobs
    BY <1>9, JobTypes DEF UpdateKey, JobFits, HoldsKey
  <2>2. /\ keys' = [keys EXCEPT ![n] = k] /\ pc' = [pc EXCEPT ![q] = "sync"]
        /\ pc[q] = "update"
        /\ UNCHANGED <<fts, job, held, past, now, reply>>
    BY <1>9 DEF UpdateKey
  <2>3. Writer(q)
    BY <2>1, ConstantsAssumption DEF Writer
  <2>4. /\ k.scope = held[q].scope /\ k.perm = held[q].perm /\ k.meta = held[q].meta
        /\ k.expires = held[q].expires
    BY <2>1, WrittenBackColumns
  <2> HIDE DEF k, n
  <2>5. CASE r = q
    <3>1. Asks(job[r], came[r], now, held[r])
      BY <2>2, <2>5, StillAlone DEF LoneInv, Stands, past
    <3>2. Asks(job[r], came[r], now, k)
      BY <2>4, <2>5, <3>1, AskedOfColumns
    <3> QED
      BY <2>1, <2>2, <2>4, <2>5, <3>2 DEF Stands, Answered, past, n
  <2>6. CASE r # q
    <3>1. n # job[r].key
      BY <2>2, <2>3, <2>6, StillAlone DEF past, n
    <3>2. UNCHANGED keys[job[r].key] /\ UNCHANGED MetaFound(job[r].key)
      BY <2>1, <2>2, <3>1 DEF MetaFound
    <3> QED
      BY <2>2, <2>6, <3>2, OthersLeave
  <2> QED
    BY <2>5, <2>6
<1>10. ASSUME NEW q \in Req, SyncKeyFTS(q) PROVE Stands(r)'
  <2> DEFINE n == job[q].key
  <2>1. job[q].op \in {"create", "update", "save"} /\ job[q] \in Jobs /\ Writer(q)
    BY <1>10, ConstantsAssumption DEF SyncKeyFTS, JobFits, Writer
  <2>2. /\ fts' = {e \in fts : e.name # n} \cup {[name |-> n, meta |-> held[q].meta]}
        /\ pc' = [pc EXCEPT ![q] = "audit"] /\ pc[q] = "sync"
        /\ UNCHANGED <<keys, job, held, past, now, reply>>
    BY <1>10 DEF SyncKeyFTS
  <2>3. CASE r = q
    <3>1. Asks(job[r], came[r], now, keys[n]) /\ held[r].meta = keys[n].meta
      BY <2>2, <2>3, StillAlone DEF LoneInv, Stands, past
    <3>2. {e.meta : e \in {x \in fts' : x.name = n}} = {held[r].meta}
      <4> DEFINE new == [name |-> n, meta |-> held[q].meta]
      <4>1. \A e : e \in fts' /\ e.name = n <=> e = new
        <5>1. new.name = n
          OBVIOUS
        <5> HIDE DEF new
        <5> QED
          BY <2>2, <5>1 DEF new
      <4>2. new.meta = held[r].meta
        BY <2>3
      <4> HIDE DEF new
      <4> QED
        BY <4>1, <4>2
    <3> QED
      BY <2>2, <2>3, <3>1, <3>2 DEF Stands, MetaFound, past
  <2>4. CASE r # q
    <3>1. n # job[r].key
      BY <2>1, <2>2, <2>4, StillAlone DEF past
    <3>2. UNCHANGED MetaFound(job[r].key)
      BY <2>2, <3>1 DEF MetaFound
    <3> QED
      BY <2>2, <2>4, <3>2, OthersLeave
  <2> QED
    BY <2>3, <2>4
<1>11. ASSUME NEW q \in Req, RevokeKey(q) PROVE Stands(r)'
  <2> DEFINE n == job[q].key
             k == [keys[n] EXCEPT !.revoked = TRUE]
  <2>1. n \in Name /\ keys[n] \in Key /\ job[q] \in Jobs /\ job[q].op = "revoke"
    BY <1>11, JobTypes DEF RevokeKey, JobFits, HoldsKey
  <2>2. /\ keys' = [keys EXCEPT ![n] = k] /\ pc' = [pc EXCEPT ![q] = "audit"]
        /\ UNCHANGED <<fts, job, held, past, now, reply>>
    BY <1>11 DEF RevokeKey
  <2>3. /\ k.scope = keys[n].scope /\ k.perm = keys[n].perm /\ k.meta = keys[n].meta
        /\ k.expires = keys[n].expires
    BY <2>1 DEF Key
  <2> HIDE DEF k, n
  <2>4. r # q /\ Stands(r) /\ pc'[r] = pc[r] /\ reply'[r] = reply[r]
    BY <2>1, <2>2, StillAlone DEF Alone, Writer, LoneInv, past
  <2>5. CASE job[r].key = n
    <3>1. \A j : Asks(j, came[r], now, keys[n]) => Asks(j, came[r], now, k)
      BY <2>3, AskedOfColumns
    <3> QED
      BY <2>1, <2>2, <2>3, <2>4, <2>5, <3>1 DEF Stands, Answered, MetaFound, past
  <2>6. CASE job[r].key # n
    BY <2>1, <2>2, <2>4, <2>6, OthersLeave DEF MetaFound
  <2> QED
    BY <2>5, <2>6
<1> QED
  BY <1>1, <1>2, <1>3, <1>4, <1>5, <1>6, <1>7, <1>8, <1>9, <1>10, <1>11, <1>12
     DEF Next, Handle

-----------------------------------------------------------------------------
(* The theorems.                                                           *)

LEMMA InvStep == IInv /\ [Next]_vars => IInv' /\ KeysStay
<1> SUFFICES ASSUME IInv, [Next]_vars PROVE IInv' /\ KeysStay
  OBVIOUS
<1>1. KeysStay
  BY KeysStayStep DEF IInv
<1>2. TypeOK' /\ JobFits' /\ HoldsKey'
  BY <1>1, TypeStep, JobStep, HoldsKeyStep DEF IInv
<1>3. RevokedByThen' /\ NotYetAdmitted' /\ RevocationIsInstant'
  BY <1>1, RevokedByThenStep, NotYetAdmittedStep, RevocationStep DEF IInv
<1>4. LoggedLast' /\ AuditReady' /\ AccessIsLogged'
  BY LoggedLastStep, AuditReadyStep, AccessIsLoggedStep DEF IInv
<1> QED
  BY <1>1, <1>2, <1>3, <1>4 DEF IInv

\* The invariant holds of every reachable state.
THEOREM Invariance == Spec => []IInv
<1>1. IInv /\ [Next]_vars => IInv'
  BY InvStep
<1> QED
  BY <1>1, InitInv, PTL DEF Spec

\* The keys table, the log and what requests hold keep their types.
THEOREM TypeCorrect == Spec => []TypeOK
BY Invariance, PTL DEF IInv

\* No interleaving of updates, saves, creates and revocations of a key, none
\* of which need to have been answered, brings a revoked key back.
THEOREM RevocationIsFinal == Spec => RevokedForever
<1>1. IInv /\ [Next]_vars => [\A n \in Name :
          keys[n] # Nil /\ keys[n].revoked => keys'[n] # Nil /\ keys'[n].revoked]_vars
  BY InvStep DEF KeysStay
<1> QED
  BY <1>1, Invariance, PTL DEF Spec, RevokedForever

\* A request that comes after the answer to a revocation is not admitted.
THEOREM RevocationIsImmediate == Spec => []RevocationIsInstant
BY Invariance, PTL DEF IInv

\* What was granted is in the log unless its append failed, and the log has
\* only requests that were admitted.
THEOREM EveryAccessIsLogged == Spec => []AccessIsLogged
BY Invariance, PTL DEF IInv

\* A write that no other writer of its key overlapped or followed stands: the
\* row is what it asked for and the index finds it.
THEOREM LoneWritesStand == Spec => []LoneWriteStands
<1>1. Init => LoneInv
  BY DEF Init, LoneInv, NoJobYet, CameBefore, Alone, Writer
<1>2. IInv /\ LoneInv /\ [Next]_vars => LoneInv'
  <2> SUFFICES ASSUME IInv, LoneInv, [Next]_vars PROVE LoneInv'
    OBVIOUS
  <2>1. NoJobYet' /\ CameBefore'
    BY NoJobYetStep, CameBeforeStep DEF IInv, LoneInv
  <2>2. \A r \in Req : Alone(r)' => Stands(r)'
    BY LoneStep
  <2> QED
    BY <2>1, <2>2 DEF LoneInv
<1>3. LoneInv => LoneWriteStands
  BY DEF LoneInv, LoneWriteStands, Alone, Stands, MetaFound
<1> QED
  BY <1>1, <1>2, <1>3, Invariance, PTL DEF Spec
=============================================================================
