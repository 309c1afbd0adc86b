----------------------------- MODULE KeyAccess -----------------------------
(***************************************************************************)
(* Agent keys and what they let an agent do: the keys table and its index  *)
(* (internal/store/keys.go), the operator's requests that create, change   *)
(* and revoke keys, and the agents' requests, each authenticated against   *)
(* the table (internal/auth), held to the key's scope and permissions, and *)
(* logged (internal/api).                                                  *)
(*                                                                         *)
(* As in SecretStore an action is one SQL statement or transaction with    *)
(* the code up to the next one.  The secrets themselves are SecretStore's: *)
(* here an access finds its secret or not, as it may.  Keys are never      *)
(* deleted and names are unique, so a name stands for its key's row, its   *)
(* id and its token.  Meta stands for a key's metadata, and for the tags   *)
(* and the description, which take the same way.                           *)
(***************************************************************************)
EXTENDS Naturals, FiniteSets

CONSTANTS
    Name, Path, Meta,
    Ttl,          \* lifetimes a key may be given
    Issued,       \* rows there may be of keys issued before the server starts
    Req,          \* the requests that arrive, each handled once
    Jobs,         \* what they may ask for
    Inflight,     \* how many are handled at the same time
    MaxTime,      \* bound: the clock
    Failures,     \* do requests and the process fail half way?
    Nil

Perms == {"read", "manage"}
Writes == {"put", "delete", "annotate"}

AgentOps == {"get", "list"} \cup Writes

AgentJobs == [op : AgentOps, key : Name, path : Path]
\* The web form writes all columns of a new key ("create") or an old ("save").
FormJobs == [op : {"create", "save"}, key : Name, scope : SUBSET Path, perm : Perms,
             ttl : Ttl \cup {Nil}, meta : SUBSET Meta]
\* An update changes the columns it names.
UpdateJobs == [op : {"update"}, key : Name, names : SUBSET {"scope", "perm", "ttl"},
               scope : SUBSET Path, perm : Perms, ttl : Ttl,
               set : SUBSET Meta, unset : SUBSET Meta]
RevokeJobs == [op : {"revoke"}, key : Name]

AllJobs == AgentJobs \cup FormJobs \cup UpdateJobs \cup RevokeJobs

Key == [scope : SUBSET Path, perm : Perms, expires : Nat \cup {Nil},
        meta : SUBSET Meta, revoked : BOOLEAN]

Principal == [scope : SUBSET Path, write : BOOLEAN]

ASSUME ConstantsAssumption ==
    /\ Jobs \subseteq AllJobs
    /\ Ttl \subseteq Nat
    /\ Issued \subseteq Key
    /\ Inflight \in Nat \ {0}
    /\ MaxTime \in Nat \ {0}
    /\ Failures \in BOOLEAN
    /\ Nil \notin Nat \cup Key \cup Principal \cup Jobs

VARIABLES
    keys,    \* the table: per name its row, or Nil
    fts,     \* keys_fts: a set of entries, at most one per rowid
    log,     \* the audit log: who was logged with what result
    now,     \* the clock of the server
    pc,      \* per request, the statement it executes next
    job,     \* per request, what it was asked
    held,    \* per request, its Principal, or the *store.Key it works on
    reply,   \* per request, what the client was told
    after,   \* per request, those answered before it arrived (auxiliary)
    came,    \* per request, when it arrived (auxiliary)
    dropped  \* the requests whose entry was not appended (auxiliary)

table == <<keys, fts>>
past == <<after, came>>
vars == <<keys, fts, log, now, pc, job, held, reply, past, dropped>>

Running == {"auth", "access", "insert", "lookup", "update", "revoke", "sync",
            "audit", "audit_denied", "audit_error"}
Replies == {"none", "ok", "unchanged", "unauthenticated", "forbidden", "not_found",
            "conflict", "error", "lost"}

\* What auditAppend is given at each of the labels that call it.
Result == [audit |-> "ok", audit_denied |-> "denied", audit_error |-> "error"]

TypeOK ==
    /\ keys \in [Name -> Key \cup {Nil}]
    /\ fts \subseteq [name : Name, meta : SUBSET Meta]
    /\ log \subseteq [req : Req, result : {"ok", "denied", "error"}]
    /\ now \in 1 .. MaxTime
    /\ pc \in [Req -> Running \cup {"idle", "done"}]
    /\ job \in [Req -> Jobs \cup {Nil}]
    /\ held \in [Req -> Key \cup Principal \cup {Nil}]
    /\ reply \in [Req -> Replies]
    /\ after \in [Req -> SUBSET Req]
    /\ came \in [Req -> 1 .. MaxTime]
    /\ dropped \subseteq Req

Init ==
    /\ keys \in [Name -> Issued \cup {Nil}]
    /\ fts = {[name |-> n, meta |-> keys[n].meta] : n \in {x \in Name : keys[x] # Nil}}
    /\ log = {}
    /\ now = 1
    /\ pc = [r \in Req |-> "idle"]
    /\ job = [r \in Req |-> Nil]
    /\ held = [r \in Req |-> Nil]
    /\ reply = [r \in Req |-> "none"]
    /\ after = [r \in Req |-> {}]
    /\ came = [r \in Req |-> 1]
    /\ dropped = {}

-----------------------------------------------------------------------------
(* Requests arrive, answer and fail. *)

Active == {r \in Req : pc[r] \in Running}

Goto(r, label) == pc' = [pc EXCEPT ![r] = label] /\ UNCHANGED reply
Answer(r, status) ==
    pc' = [pc EXCEPT ![r] = "done"] /\ reply' = [reply EXCEPT ![r] = status]
Hold(r, x) == held' = [held EXCEPT ![r] = x]

\* The operator's own token is found in the operators table, which nothing
\* here changes.
FirstLabel(j) ==
    CASE j.op \in AgentOps -> "auth"
      [] j.op = "create" -> "insert"
      [] j.op \in {"update", "save", "revoke"} -> "lookup"

Arrive(r) ==
    /\ pc[r] = "idle"
    /\ Cardinality(Active) < Inflight
    /\ \E j \in Jobs :
          /\ job' = [job EXCEPT ![r] = j]
          /\ Goto(r, FirstLabel(j))
    /\ after' = [after EXCEPT ![r] = {q \in Req : pc[q] = "done"}]
    /\ came' = [came EXCEPT ![r] = now]
    /\ UNCHANGED <<table, log, now, held, dropped>>

Tick ==
    /\ now < MaxTime
    /\ now' = now + 1
    /\ UNCHANGED <<table, log, pc, job, held, reply, past, dropped>>

\* Context cancelled (client gone, 30 s timeout) or a statement failed.  A
\* failed SELECT is answered as if it had found nothing.
Abort(r) ==
    /\ Failures
    /\ pc[r] \in Running \ DOMAIN Result
    /\ Answer(r, CASE pc[r] = "auth" -> "unauthenticated"
                   [] pc[r] = "lookup" -> "not_found"
                   [] pc[r] = "access" /\ job[r].op \in {"get", "annotate"} -> "not_found"
                   [] OTHER -> "error")
    /\ UNCHANGED <<table, log, now, job, held, past, dropped>>

Crash ==
    /\ Failures
    /\ Active # {}
    /\ pc' = [r \in Req |-> IF r \in Active THEN "done" ELSE pc[r]]
    /\ reply' = [r \in Req |-> IF r \in Active THEN "lost" ELSE reply[r]]
    /\ UNCHANGED <<table, log, now, job, held, past, dropped>>

-----------------------------------------------------------------------------
(* An agent's request: authenticate, authorise, access, log. *)

\* An expiry of 0 is none, and a key lives through its last millisecond.
Expired(k) == k.expires # Nil /\ k.expires > 0 /\ k.expires < now

AdmitRevoked(k) == k # Nil /\ ~ Expired(k)   \* mutant: revoked_at not looked at
Admitted(k) == k # Nil /\ ~ k.revoked /\ ~ Expired(k)

PrincipalOf(k) == [scope |-> k.scope, write |-> k.perm = "manage"]

MayWrite(p, j) == j.op \in Writes => p.write
InScope(p, j) == j.op = "list" \/ j.path \in p.scope

\* Only get and put log a path out of scope; nothing logs a read-only key.
Authorize(r, p) ==
    LET j == job[r] IN
    \/ MayWrite(p, j) /\ InScope(p, j) /\ Goto(r, "access")
    \/ MayWrite(p, j) /\ ~ InScope(p, j) /\ j.op \in {"get", "put"} /\ Goto(r, "audit_denied")
    \/ MayWrite(p, j) /\ ~ InScope(p, j) /\ j.op \notin {"get", "put"} /\ Answer(r, "forbidden")
    \/ ~ MayWrite(p, j) /\ Answer(r, "forbidden")

Authenticate(r) ==
    LET k == keys[job[r].key] IN
    /\ pc[r] = "auth"
    /\ \/ ~ Admitted(k) /\ Answer(r, "unauthenticated") /\ UNCHANGED held
       \/ Admitted(k) /\ Hold(r, PrincipalOf(k)) /\ Authorize(r, PrincipalOf(k))
    /\ UNCHANGED <<table, log, now, job, past, dropped>>

\* What the secrets tables say, as it may be.  A value that does not open (it
\* may be under a rotation's key) is logged by get, which then fails, and by
\* list, which goes on to the next row; annotate just fails, as it and put do
\* over tags and metadata that are refused.  An annotation that changes nothing
\* is answered at once, without an entry.
Access(r) ==
    LET op == job[r].op IN
    /\ pc[r] = "access"
    /\ \/ Goto(r, "audit")
       \/ op \in {"get", "list"} /\ Goto(r, "audit_error")
       \/ op \in {"get", "delete", "annotate"} /\ Answer(r, "not_found")
       \/ op \in {"put", "annotate"} /\ Answer(r, "error")
       \/ op = "annotate" /\ Answer(r, "unchanged")
    /\ UNCHANGED <<table, log, now, job, held, past, dropped>>

EntryOk(r) == [req |-> r, result |-> "ok"]   \* mutant: denials logged as uses
EntryOf(r) == [req |-> r, result |-> Result[pc[r]]]

Logged(r) == log \cup {EntryOf(r)}

\* What follows an entry: the answer, or a list's next row.
AfterAudit(r) ==
    \/ pc[r] = "audit" /\ Answer(r, "ok")
    \/ pc[r] = "audit_denied" /\ Answer(r, "forbidden")
    \/ pc[r] = "audit_error" /\ job[r].op = "get" /\ Answer(r, "error")
    \/ pc[r] = "audit_error" /\ job[r].op = "list" /\ Goto(r, "access")

Audit(r) ==
    /\ pc[r] \in DOMAIN Result
    /\ log' = Logged(r)
    /\ AfterAudit(r)
    /\ UNCHANGED <<table, now, job, held, past, dropped>>

\* auditAppend drops the error, and what follows is the same.
AuditFails(r) ==
    /\ Failures
    /\ pc[r] \in DOMAIN Result
    /\ dropped' = dropped \cup {r}
    /\ AfterAudit(r)
    /\ UNCHANGED <<table, log, now, job, held, past>>

-----------------------------------------------------------------------------
(* The operator's requests on keys. *)

Lifetime(ttl) == IF ttl = Nil THEN Nil ELSE now + ttl

NewKeyNoPerm(j) ==   \* mutant: permissions not taken over
    [scope |-> j.scope, perm |-> "", expires |-> Lifetime(j.ttl),
     meta |-> j.meta, revoked |-> FALSE]
NewKey(j) == [scope |-> j.scope, perm |-> j.perm, expires |-> Lifetime(j.ttl),
              meta |-> j.meta, revoked |-> FALSE]

\* The UNIQUE name makes an INSERT fail for a name that was ever used.
CreateKey(r) ==
    LET j == job[r] IN
    /\ pc[r] = "insert"
    /\ \/ keys[j.key] # Nil /\ Answer(r, "conflict") /\ UNCHANGED <<keys, held>>
       \/ /\ keys[j.key] = Nil
          /\ keys' = [keys EXCEPT ![j.key] = NewKey(j)]
          /\ Hold(r, NewKey(j))
          /\ Goto(r, "sync")
    /\ UNCHANGED <<fts, log, now, job, past, dropped>>

\* POST /api/keys/{name}/update: what the request names.
Updated(k, j) ==
    [k EXCEPT !.scope = IF "scope" \in j.names THEN j.scope ELSE @,
              !.perm = IF "perm" \in j.names THEN j.perm ELSE @,
              !.expires = IF "ttl" \in j.names THEN Lifetime(j.ttl) ELSE @,
              !.meta = (@ \ j.unset) \cup j.set]

\* The web form: every column, and a blank lifetime is none.
Saved(k, j) == [NewKey(j) EXCEPT !.revoked = k.revoked]

GetKeyByName(r) ==
    LET j == job[r]  k == keys[j.key] IN
    /\ pc[r] = "lookup"
    /\ \/ k = Nil /\ Answer(r, "not_found") /\ UNCHANGED held
       \/ k # Nil /\ j.op = "update" /\ Hold(r, Updated(k, j)) /\ Goto(r, "update")
       \/ k # Nil /\ j.op = "save" /\ Hold(r, Saved(k, j)) /\ Goto(r, "update")
       \/ k # Nil /\ j.op = "revoke" /\ Hold(r, k) /\ Goto(r, "revoke")
    /\ UNCHANGED <<table, log, now, job, past, dropped>>

WrittenWhole(old, new) == new   \* mutant: revoked_at among the columns
WrittenScopeless(old, new) ==   \* mutant: scope not among the columns
    [new EXCEPT !.revoked = old.revoked, !.scope = old.scope]
\* UPDATE keys SET: all but revoked_at.
WrittenBack(old, new) == [new EXCEPT !.revoked = old.revoked]

UpdateKey(r) ==
    LET n == job[r].key IN
    /\ pc[r] = "update"
    /\ keys' = [keys EXCEPT ![n] = WrittenBack(@, held[r])]
    /\ Goto(r, "sync")
    /\ UNCHANGED <<fts, log, now, job, held, past, dropped>>

SyncKeyFTS(r) ==
    LET n == job[r].key IN
    /\ pc[r] = "sync"
    /\ fts' = {e \in fts : e.name # n} \cup {[name |-> n, meta |-> held[r].meta]}
    /\ Goto(r, "audit")
    /\ UNCHANGED <<keys, log, now, job, held, past, dropped>>

RevokeKey(r) ==
    /\ pc[r] = "revoke"
    /\ keys' = [keys EXCEPT ![job[r].key].revoked = TRUE]
    /\ Goto(r, "audit")
    /\ UNCHANGED <<fts, log, now, job, held, past, dropped>>

-----------------------------------------------------------------------------
Handle(r) ==
    \/ Authenticate(r) \/ Access(r) \/ Audit(r) \/ AuditFails(r)
    \/ CreateKey(r) \/ GetKeyByName(r) \/ UpdateKey(r) \/ SyncKeyFTS(r) \/ RevokeKey(r)

Next ==
    \/ Tick
    \/ Crash
    \/ \E r \in Req : Arrive(r) \/ Abort(r) \/ Handle(r)

Spec == Init /\ [][Next]_vars

-----------------------------------------------------------------------------
(* Properties. *)

Answered(r, status) == pc[r] = "done" /\ reply[r] = status

Agent(r) == job[r] # Nil /\ job[r].op \in AgentOps
Writer(r) == job[r] # Nil /\ job[r].op \in {"create", "update", "save"}

\* A revoked key stays revoked: no update or save, however long ago it read
\* the key, brings it back, and no create takes its name.
RevokedForever ==
    [][\A n \in Name :
          keys[n] # Nil /\ keys[n].revoked => keys'[n] # Nil /\ keys'[n].revoked]_vars

\* security.md:14: "revocation is instant".  A request that arrives when the
\* revocation of its key was answered is never admitted, whatever updates of
\* the key are under way.
RevocationIsInstant ==
    \A q, r \in Req :
        /\ Answered(q, "ok") /\ job[q].op = "revoke"
        /\ q \in after[r]
        /\ Agent(r) /\ job[r].key = job[q].key
        => held[r] = Nil

\* An acknowledged create, update or save that no other writer of the key
\* overlapped or followed stands: the key has every column it named, a lifetime
\* counts from a moment of the request, and a search finds the key by its
\* metadata.
Asks(j, from, to, k) ==
    LET ends == IF j.ttl = Nil THEN {Nil} ELSE from + j.ttl .. to + j.ttl
    IN  IF j.op = "update"
        THEN /\ "scope" \in j.names => j.scope = k.scope
             /\ "perm" \in j.names => j.perm = k.perm
             /\ "ttl" \in j.names => k.expires \in ends
             /\ j.set \subseteq k.meta
             /\ j.unset \cap k.meta \subseteq j.set
        ELSE /\ j.scope = k.scope
             /\ j.perm = k.perm
             /\ j.meta = k.meta
             /\ k.expires \in ends

LoneWriteStands ==
    \A r \in Req :
        /\ Writer(r) /\ Answered(r, "ok")
        /\ \A q \in Req \ {r} : Writer(q) /\ job[q].key = job[r].key => q \in after[r]
        => LET k == keys[job[r].key]
           IN  /\ Asks(job[r], came[r], now, k)
               /\ {e.meta : e \in {x \in fts : x.name = job[r].key}} = {k.meta}

\* Unless an append of the request failed, these answers come after their entry:
\* each success of an agent, of annotations those that changed something
\* ("unchanged", server.go:518-521, has no entry, though CONTEXT.md:33 says that
\* every annotate call emits one); a get whose secret did not open; and a get
\* or put refused for its path.
AnswersAreLogged(r) ==
    r \notin dropped =>
        /\ Answered(r, "ok") => [req |-> r, result |-> "ok"] \in log
        /\ Answered(r, "error") /\ job[r].op = "get" => [req |-> r, result |-> "error"] \in log
        /\ /\ Answered(r, "forbidden") /\ job[r].op \in {"get", "put"}
           /\ MayWrite(held[r], job[r])
           => [req |-> r, result |-> "denied"] \in log

\* Each entry of an agent's request is of one that was admitted and may do what
\* it asks, says "denied" exactly if its path was out of scope, and "error" only
\* of a request that reads.
EntriesAreEarned(r) ==
    \A e \in log : e.req = r =>
        /\ held[r] # Nil
        /\ MayWrite(held[r], job[r])
        /\ e.result = "denied" <=> ~ InScope(held[r], job[r])
        /\ e.result = "error" => job[r].op \notin Writes

\* The log says what agents did: what is answered is in it, and what is in it
\* was granted.
AccessIsLogged ==
    \A r \in Req : Agent(r) => AnswersAreLogged(r) /\ EntriesAreEarned(r)

\* security.md:18: "Every read, write, and denial is appended to an audit log
\* before the response is sent".
DenialsAreLogged ==
    \A r \in Req : Answered(r, "forbidden") => [req |-> r, result |-> "denied"] \in log

\* annotate_key (mcp/server.go:153) will "incrementally update
\* tags/description/metadata on an agent key": an update that names neither
\* scope nor permissions nor lifetime leaves the three as they are.
AnnotatesOnly(j) == j.op = "update" /\ j.names = {}

AnnotateKeepsGrant ==
    [][\A r \in Req : pc[r] = "update" /\ pc'[r] = "sync" /\ AnnotatesOnly(job[r]) =>
          LET k == keys[job[r].key]  kk == keys'[job[r].key]
          IN  <<k.scope, k.perm, k.expires>> = <<kk.scope, kk.perm, kk.expires>>]_vars
=============================================================================
