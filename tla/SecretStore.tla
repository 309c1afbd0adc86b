---------------------------- MODULE SecretStore ----------------------------
(***************************************************************************)
(* The secrets table, its full-text index and the HTTP requests that work  *)
(* on them (internal/store/secrets.go, internal/api/server.go and          *)
(* ui_actions.go).                                                         *)
(*                                                                         *)
(* The database has one connection, so each SQL statement, and each        *)
(* transaction, is atomic; a handler is several of them, and requests      *)
(* interleave between any two.  An action is therefore one statement with  *)
(* the code up to the next one.  A request ends early when its context is  *)
(* cancelled (client gone, 30 s timeout) or a statement fails, and all end *)
(* when the process dies; what was committed stays.                        *)
(*                                                                         *)
(* Metadata stands for everything a write replaces and an annotation       *)
(* merges; labels, tags and timestamps take the same way and are left out. *)
(***************************************************************************)
EXTENDS Naturals, FiniteSets, FiniteSetsExt

CONSTANTS
    Path, Desc, Meta, Value,
    Keep,        \* an annotation that leaves the description alone
    Keks,        \* key-encryption keys
    Kek,         \* Server.KEK, fixed while the process serves
    Req,         \* the requests that arrive, each handled once
    Jobs,        \* what they may ask for
    Inflight,    \* how many are handled at the same time
    Failures,    \* whether a "request" or the "process" may fail half way
    Nil

AllJobs ==
    [op : {"get", "delete"}, path : Path]
        \cup [op : {"put"}, path : Path, value : Value, desc : Desc,
              meta : SUBSET Meta]
        \cup [op : {"save"}, path : Path, desc : Desc, meta : SUBSET Meta]
        \cup [op : {"annotate"}, path : Path, desc : Desc \cup {Keep},
              set : SUBSET Meta, unset : SUBSET Meta]

\* The AAD is a SHA-256 of the three; it is taken to be injective.
AAD == Path \X Desc \X Nat

Sealed == [kek : Keks, aad : AAD, value : Value]

Row == [id : Nat, path : Path, ct : Sealed, aad : AAD, desc : Desc,
        meta : SUBSET Meta, version : Nat]

IndexEntry == [id : Nat, path : Path, desc : Desc, meta : SUBSET Meta]

ASSUME ConstantsAssumption ==
    /\ Jobs \subseteq AllJobs
    /\ Kek \in Keks
    /\ Keep \notin Desc
    /\ Inflight \in Nat \ {0}
    /\ Failures \subseteq {"request", "process"}
    /\ Nil \notin Row
    /\ Nil \notin Jobs
    /\ Nil \notin [value : Value, desc : Desc, meta : SUBSET Meta]

VARIABLES
    secrets,   \* the table: a set of rows, at most one per path
    fts,       \* secrets_fts: a set of entries, at most one per rowid
    pc,        \* per request, the statement it executes next
    job,       \* per request, what it was asked
    row,       \* per request, the *store.Secret its handler holds
    reply      \* per request, what the client was told

table == <<secrets, fts>>
vars == <<secrets, fts, pc, job, row, reply>>

Running == {"read", "upsert", "selectid", "sync", "remove", "unindex"}
Replies == {"none", "ok", "not_found", "error", "decrypt_failed", "lost"}

TypeOK ==
    /\ secrets \subseteq Row
    /\ \A x, y \in secrets : x.id = y.id \/ x.path = y.path => x = y
    /\ fts \subseteq IndexEntry
    /\ pc \in [Req -> Running \cup {"idle", "done"}]
    /\ job \in [Req -> Jobs \cup {Nil}]
    /\ row \in [Req -> Row \cup {Nil}]
    /\ reply \in [Req -> Replies]

Init ==
    /\ secrets = {}
    /\ fts = {}
    /\ pc = [r \in Req |-> "idle"]
    /\ job = [r \in Req |-> Nil]
    /\ row = [r \in Req |-> Nil]
    /\ reply = [r \in Req |-> "none"]

-----------------------------------------------------------------------------
(* Sealing, versions and rows. *)

AADSecret(p, d, v) == <<p, d, v>>

Seal(k, v, a) == [kek |-> k, aad |-> a, value |-> v]

Opens(k, ct, a) == ct.kek = k /\ ct.aad = a

SameVersion(old, d) == old.version   \* mutant: no bump
BumpedVersion(old, d) == IF old.desc # d THEN old.version + 1 ELSE old.version

NoVersion == Nil   \* mutant: the version not written
\* A new row starts at 1 and counts the new description as a change.
FirstVersion == 2

SealedRow(i, p, v, d, m, n) ==
    [id |-> i, path |-> p, desc |-> d, meta |-> m, version |-> n,
     aad |-> AADSecret(p, d, n), ct |-> Seal(Kek, v, AADSecret(p, d, n))]

SetOnly(m, j) == j.set \ j.unset   \* mutant: drops what was there
Merged(m, j) == (m \ j.unset) \cup j.set

RowsAt(p) == {x \in secrets : x.path = p}
RowsWithId(i) == {x \in secrets : x.id = i}

\* INTEGER PRIMARY KEY without AUTOINCREMENT: one more than the largest
\* rowid in the table, so the ids of deleted rows come back.
NextId == 1 + Max({0} \cup {x.id : x \in secrets})

OverwriteKeepVersion(old, new) == [new EXCEPT !.id = old.id, !.version = old.version]   \* mutant
OverwriteValueOnly(old, new) == [old EXCEPT !.ct = new.ct, !.aad = new.aad]   \* mutant
\* ON CONFLICT(path) DO UPDATE SET: every column but id and created_at.
Overwrite(old, new) == [new EXCEPT !.id = old.id]

EntryOf(x) == [id |-> x.id, path |-> x.path, desc |-> x.desc, meta |-> x.meta]

-----------------------------------------------------------------------------
(* Requests arrive, answer and fail. *)

Active == {r \in Req : pc[r] \in Running}

Goto(r, label) == pc' = [pc EXCEPT ![r] = label] /\ UNCHANGED reply
Answer(r, status) ==
    pc' = [pc EXCEPT ![r] = "done"] /\ reply' = [reply EXCEPT ![r] = status]
Hold(r, x) == row' = [row EXCEPT ![r] = x]

Arrive(r) ==
    /\ pc[r] = "idle"
    /\ Cardinality(Active) < Inflight
    /\ \E j \in Jobs : job' = [job EXCEPT ![r] = j]
    /\ Goto(r, "read")
    /\ UNCHANGED <<table, row>>

\* Context cancelled (client gone, 30 s timeout) or a statement failed: what
\* was executed before stays.  Every handler but delete's takes a failed read
\* for a missing row (see PutUnread for put).
Abort(r) ==
    /\ "request" \in Failures
    /\ pc[r] \in Running
    /\ IF pc[r] = "read" /\ job[r].op \in {"get", "save", "annotate"}
       THEN Answer(r, "not_found")
       ELSE Answer(r, "error")
    /\ UNCHANGED <<table, job, row>>

Crash ==
    /\ "process" \in Failures
    /\ Active # {}
    /\ pc' = [r \in Req |-> IF r \in Active THEN "done" ELSE pc[r]]
    /\ reply' = [r \in Req |-> IF r \in Active THEN "lost" ELSE reply[r]]
    /\ UNCHANGED <<table, job, row>>

-----------------------------------------------------------------------------
(* The handlers, each from its GetSecret to its next statement. *)

Reading(r, op) ==
    pc[r] = "read" /\ job[r].op = op /\ UNCHANGED <<table, job>>

HandleGet(r) ==
    /\ Reading(r, "get")
    /\ \/ /\ RowsAt(job[r].path) = {}
          /\ Answer(r, "not_found")
          /\ UNCHANGED row
       \/ \E x \in RowsAt(job[r].path) :
             /\ Hold(r, x)
             /\ Answer(r, IF Opens(Kek, x.ct, AADSecret(x.path, x.desc, x.version))
                          THEN "ok" ELSE "decrypt_failed")

\* PUT /api/secrets, and the UI form with a value: overwrite or create.
HandlePut(r) ==
    LET j == job[r] IN
    /\ Reading(r, "put")
    /\ \/ /\ RowsAt(j.path) = {}
          /\ Hold(r, SealedRow(0, j.path, j.value, j.desc, j.meta, FirstVersion))
       \/ \E x \in RowsAt(j.path) :
             Hold(r, SealedRow(0, j.path, j.value, j.desc, j.meta,
                               BumpedVersion(x, j.desc)))
    /\ Goto(r, "upsert")

\* "existing, _ := GetSecret": when the read fails, not the context, the row
\* counts as missing.
PutUnread(r) ==
    LET j == job[r] IN
    /\ "request" \in Failures
    /\ Reading(r, "put")
    /\ Hold(r, SealedRow(0, j.path, j.value, j.desc, j.meta, FirstVersion))
    /\ Goto(r, "upsert")

\* Keeping the value means opening what was read with its stored AAD and
\* sealing it again under the AAD of the row to be.
Reseal(r, x, i, d, m) ==
    IF Opens(Kek, x.ct, x.aad)
    THEN /\ Hold(r, SealedRow(i, x.path, x.ct.value, d, m, BumpedVersion(x, d)))
         /\ Goto(r, "upsert")
    ELSE Answer(r, "decrypt_failed") /\ UNCHANGED row

\* The UI form with a blank value: the stored value is kept.
HandleSave(r) ==
    /\ Reading(r, "save")
    /\ \/ /\ RowsAt(job[r].path) = {}
          /\ Answer(r, "not_found")
          /\ UNCHANGED row
       \/ \E x \in RowsAt(job[r].path) : Reseal(r, x, 0, job[r].desc, job[r].meta)

NewDesc(x, j) == IF j.desc = Keep THEN x.desc ELSE j.desc

Unchanged(x, j) == NewDesc(x, j) = x.desc /\ Merged(x.meta, j) = x.meta

HandleAnnotate(r) ==
    LET j == job[r] IN
    /\ Reading(r, "annotate")
    /\ \/ /\ RowsAt(j.path) = {}
          /\ Answer(r, "not_found")
          /\ UNCHANGED row
       \/ \E x \in RowsAt(j.path) :
             \/ Unchanged(x, j) /\ Answer(r, "ok") /\ UNCHANGED row
             \/ ~ Unchanged(x, j) /\ Reseal(r, x, x.id, NewDesc(x, j), Merged(x.meta, j))

HandleDelete(r) ==
    /\ Reading(r, "delete")
    /\ \/ RowsAt(job[r].path) = {} /\ Answer(r, "not_found") /\ UNCHANGED row
       \/ \E x \in RowsAt(job[r].path) : Hold(r, x) /\ Goto(r, "remove")

-----------------------------------------------------------------------------
(* PutSecret: the upsert, the id, the index. *)

Upserted(new) ==
    IF RowsAt(new.path) = {}
    THEN secrets \cup {[new EXCEPT !.id = NextId]}
    ELSE (secrets \ RowsAt(new.path))
            \cup {Overwrite(old, new) : old \in RowsAt(new.path)}

Upsert(r) ==
    /\ pc[r] = "upsert"
    /\ secrets' = Upserted(row[r])
    /\ Goto(r, "selectid")
    /\ UNCHANGED <<fts, job, row>>

\* The row may be gone again: Scan fails and the request ends.
SelectId(r) ==
    /\ pc[r] = "selectid"
    /\ \/ RowsAt(row[r].path) = {} /\ Answer(r, "error") /\ UNCHANGED row
       \/ \E x \in RowsAt(row[r].path) :
             Hold(r, [row[r] EXCEPT !.id = x.id]) /\ Goto(r, "sync")
    /\ UNCHANGED <<table, job>>

IndexAppend(entries, x) == entries \cup {EntryOf(x)}   \* mutant: no DELETE first
Indexed(entries, x) == {e \in entries : e.id # x.id} \cup {EntryOf(x)}

SyncFTS(r) ==
    /\ pc[r] = "sync"
    /\ fts' = Indexed(fts, row[r])
    /\ Answer(r, "ok")
    /\ UNCHANGED <<secrets, job, row>>

-----------------------------------------------------------------------------
(* DeleteSecret: the row by its id, then the index entry by its rowid. *)

Deleted(i) == secrets \ RowsWithId(i)

Remove(r) ==
    /\ pc[r] = "remove"
    /\ secrets' = Deleted(row[r].id)
    /\ Goto(r, "unindex")
    /\ UNCHANGED <<fts, job, row>>

Unindex(r) ==
    /\ pc[r] = "unindex"
    /\ fts' = {e \in fts : e.id # row[r].id}
    /\ Answer(r, "ok")
    /\ UNCHANGED <<secrets, job, row>>

-----------------------------------------------------------------------------
Handle(r) ==
    \/ HandleGet(r) \/ HandlePut(r) \/ HandleSave(r)
    \/ HandleAnnotate(r) \/ HandleDelete(r)
    \/ Upsert(r) \/ SelectId(r) \/ SyncFTS(r)
    \/ Remove(r) \/ Unindex(r)

Next ==
    \/ Crash
    \/ \E r \in Req : Arrive(r) \/ Abort(r) \/ PutUnread(r) \/ Handle(r)

Spec == Init /\ [][Next]_vars

-----------------------------------------------------------------------------
(* Properties. *)

\* Every stored row opens under the server's key with the AAD the readers
\* recompute from its own path, description and version, and with the one it
\* stores, however requests interleave, fail or die: no interleaving of
\* handlePutSecret, handleUISecretSave and handleAnnotateSecret leaves a row
\* that handleGetSecret would answer with "decrypt failed".
RowsOpen ==
    /\ \A x \in secrets :
          /\ x.aad = AADSecret(x.path, x.desc, x.version)
          /\ Opens(Kek, x.ct, x.aad)
    /\ \A r \in Req : reply[r] # "decrypt_failed"

\* PutSecret's comment (secrets.go:56): "On a description change, the version
\* is bumped".  While a secret lives, a new description comes with a larger
\* version.
DescChangeBumpsVersion ==
    [][\A x \in secrets, y \in secrets' :
          x.path = y.path /\ x.desc # y.desc => y.version > x.version]_vars

\* syncSecretFTS (secrets.go:105) "keeps secrets_fts in sync with the secrets
\* table": when no request is running, the index has the entries of the rows
\* and no others, so a search finds what is stored, as long as the process did
\* not die under one.  True of one client whose requests do not fail; two
\* writers of a path who sync in the other order leave a stale entry (see
\* IndexCovers).
IndexInSync ==
    Active = {} /\ (\A r \in Req : reply[r] # "lost") => fts = {EntryOf(x) : x \in secrets}

SoFar(ops) == \A r \in Req : job[r] # Nil => job[r].op \in ops

\* As long as nothing is deleted, each row has one index entry, under its own
\* path, once every writer is done and none has failed: whatever the order of
\* their upserts and syncs, no secret is missing from the index and none is
\* indexed twice.  (The entry may be that of a writer that lost.)
IndexCovers ==
    /\ Active = {}
    /\ SoFar({"get", "put", "save", "annotate"})
    /\ \A r \in Req : reply[r] \notin {"error", "lost"}
    =>
        /\ {<<e.id, e.path>> : e \in fts} = {<<x.id, x.path>> : x \in secrets}
        /\ Cardinality(fts) = Cardinality(secrets)

\* DeleteSecret (secrets.go:124) "removes a secret by path": a secret only
\* disappears in the DELETE of a request for its path.
DeleteByPath ==
    [][\A x \in secrets :
          (\A y \in secrets' : y.path # x.path) =>
             \E r \in Req : /\ pc[r] = "remove" /\ pc'[r] = "unindex"
                           /\ job[r].path = x.path]_vars

-----------------------------------------------------------------------------
(* The promise, read off the state: the map is the table without ids,      *)
(* versions and ciphertexts, and a write takes effect at its first         *)
(* statement that changes the table.                                       *)

Content(x) == [value |-> x.ct.value, desc |-> x.desc, meta |-> x.meta]

MapOf == [p \in Path |->
            IF RowsAt(p) = {} THEN Nil ELSE Content(CHOOSE x \in RowsAt(p) : TRUE)]

OutcomeOf(r) ==
    CASE pc[r] = "idle" -> "none"
      [] pc[r] \in {"read", "upsert", "remove"} -> "pending"
      [] pc[r] \in {"selectid", "sync", "unindex"} -> "applied"
      [] pc[r] = "done" -> reply[r]

SeenOf(r) ==
    IF job[r] # Nil /\ job[r].op = "get" /\ reply[r] = "ok" THEN Content(row[r]) ELSE Nil

Promise == INSTANCE SecretMap WITH
    map <- MapOf,
    asked <- job,
    outcome <- [r \in Req |-> OutcomeOf(r)],
    seen <- [r \in Req |-> SeenOf(r)]

\* Clients that overwrite whole secrets and read them act on one atomic map,
\* whatever overlaps, fails or dies.
OverwritesKeepPromise ==
    /\ Promise!Init
    /\ [][SoFar({"get", "put"})' => Promise!Next \/ UNCHANGED Promise!vars]_vars

\* Requests act on one atomic map: each write that is acknowledged took effect
\* exactly once, a get returns the whole of one entry, and "not found" is said
\* of absent paths only.
KeepsPromise == Promise!Spec
=============================================================================
