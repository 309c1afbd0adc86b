# A formal model of Scopuli

Scopuli is a self-hosted secret vault for AI agents: one Go daemon over one
encrypted SQLite file, an HTTP API with a web UI on top of it, and clients (a
CLI, an MCP server, a pi extension) that use the API. An operator stores
secrets and issues keys; an agent presents a key and gets the secrets its key's
scope covers, and everything is logged in a hash chain.

This directory holds TLA+ modules for the parts of the daemon that keep state,
for the browser and the machine that keep a copy of its token, and for what
requests may carry; TLC configurations for them, and TLAPS proofs. Source references are relative
to the repository.

    tlc -config SecretsConcurrent.cfg MCSecretStore    # one run
    tlapm SecretStoreProofs.tla                        # one module's proofs

`PROJECT.json` lists the runs, a mutant for each property (a plausible bug in
the code which that property catches), the source lines of every definition,
the hazards, the findings and the theorems.

## 1. Inventory

### How the parts fit

    CLI, MCP server, pi extension          browser
              |  HTTP + bearer token          |  HTTP + session cookie
              v                               v
    internal/api/server.go           internal/api/ui_*.go
              |     \__ internal/auth, internal/scope, internal/metadata
              v                               v
    internal/store (secrets, keys, operators, meta)    internal/audit
              \_______________  ______________________/
                              \/
               database/sql, SetMaxOpenConns(1), SQLite

The facts that shape every module:

* **One connection.** `store.Open` sets `SetMaxOpenConns(1)`. A statement or a
  transaction therefore runs alone; a handler is several statements, and the
  statements of two requests interleave freely. There is no lock above the
  database, and the only transactions are those of the audit log's `Append` and
  of the index (`syncSecretFTS`, `syncKeyFTS`, the migration's probe). So an
  action of the models is *one statement or transaction together with the code
  up to the next one*, and what a handler carries between two of them is a
  variable of its own.
* **Requests end anywhere.** The handlers pass the request's context to every
  statement, and there is a 30 s timeout (`server.go`, `middleware.Timeout`). A
  client that goes away, the timeout, a failing statement and, at shutdown, a
  closed database all stop a handler between two statements; what it committed
  stays.
* **Errors that are not looked at.** `existing, _ := GetSecret` in the put,
  `continue` in the rotation, the result of `auditAppend`: these are actions of
  their own (`PutUnread`, `SkipSecret`, `UpdateFails`, `AuditFails`).
* **The process dies anywhere** and `docker-compose.yml` restarts it with the
  same password (`restart: unless-stopped`).

### Components

| Component (source) | State | Operations | What is hard | What makes it correct |
|---|---|---|---|---|
| Secrets table and index (`internal/store/secrets.go`) | `secrets`, `secrets_fts` | GetSecret, PutSecret (upsert, SELECT id, DELETE + INSERT of the index entry), DeleteSecret (SELECT id, DELETE by id, DELETE from the index), SearchSecrets | rowids are reused; the index is written after the row | a delete removes its own path; the index has the table's rows |
| Secrets API (`internal/api/server.go`, `ui_actions.go`) | what a handler read | get, put, delete, annotate, list, search; the web form's save | lost updates; a ciphertext is bound to a version and a description that were read before other writes | each row opens with the AAD its readers recompute; clients see an atomic map |
| Agent keys (`internal/store/keys.go`, `server.go`, `ui_actions.go`) | `keys`, `keys_fts` | create, update, save, revoke, list, search | an update writes back all it read; revocation in between | revoked stays revoked; an answered change stands |
| Authentication and authorisation (`internal/auth`, `internal/scope`, `server.go`) | none | look up the token's hash, revoked and expired, scope match, read or manage | the answer is used after it was computed | no use after a revocation; scope and permission hold for each access |
| Audit log (`internal/audit`, `auditAppend`, audit page) | `audit` | Append, Verify, Query by cursor | tampering, paging while rows are added | an honest log verifies, a log that verifies is genuine, pages neither skip nor repeat |
| Boot and migration (`internal/store/store.go`, `cmd/scopuli/serve.go`, `operators.go`) | salt file, schema, `meta`, `operators` | LoadOrCreateSalt, Open, init, migrateFTS5, IsFresh, bootstrapFirstBoot | crash between any two statements; the only connection held by open rows | old rows stay valid; the server comes up; the token shown is the token stored |
| Operator token and rotation (`handleRotateOperator`, `operators.go`, `token.go`) | `operators` | rotate | rows rewritten one by one under other writes; ignored failures | no row lost, the new token works |
| Sealing (`internal/crypto`) | none | Argon2id, AES-GCM with AAD, HMAC | | ideal in the models (section 6) |
| Metadata (`internal/metadata`) | none | normalise, merge | two ways in (whole values and increments) with different checks | what is stored can be read back and saved again |
| Scopes (`internal/scope`, `auth.parseScope`) | none | parse, match | two parsers, trimming, globs that stop at a slash | a key is let into what its patterns say and no more |
| Web sessions (`ui_session.go`) | none: a cookie with the operator token and an expiry, signed with a key derived from the server's | login, use, logout | cookies that outlive a rotation, a restart or their own expiry; answers to two tabs that arrive out of order; redirects to each other | a session ends with its token and not before; redirects end |
| Keyring, HTTP client, CLI (`internal/keyring`, `internal/client`, `cmd/scopuli`) | keychain entry, credentials file | login, logout, load; environment first | two places for one thing, a keychain that is locked at times | the last login counts; a URL and a token stay a pair |
| MCP server (`internal/mcp`, `mcp.go`) | none | find its credentials; each tool call is one request of the API | half an environment | as above |
| Backup (`internal/backup`) | none | seal and open a copy of the database file under a passphrase | | not modelled |
| Configuration, pi extension, scripts, website, templates | none | | | not modelled |

`PROJECT.json` "hazards" lists what can go wrong at which line, and the
properties below are there because of that list.

## 2. Modules

| Module | What it is |
|---|---|
| `SecretMap` | what the secrets API promises: a map on which each request takes effect at most once, atomically, between arrival and answer |
| `SecretStore` | the table, the index and all handlers on secrets, statement by statement; `KeepsPromise` says that it implements `SecretMap` |
| `SecretReads` | lists and searches, which read row by row beside those requests (extends `SecretStore`) |
| `Rotation` | the operator's rotation beside the requests of `SecretStore` (extends it) |
| `KeyAccess` | the keys table and index, the operator's requests on keys, the agents' requests from authentication to audit entry |
| `AuditChain` | the audit table, Append, Verify, Query, the paging reader, and changes behind the logger's back |
| `Boot` | from process start to serving, any number of times, with crashes between any two writes |
| `Sessions` | the cookie, the tabs of a browser that share it, and a server that restarts and replaces its token |
| `Keyring` | the keychain and the file behind `scopuli login`, and the processes that read them |
| `Credentials` | the two beside one server (extends both) |
| `Metadata`, `Scope` | the pure functions of `internal/metadata`, `internal/scope` and `parseScope` as operators |
| `Inputs` | a secret's tags and metadata, and a key's scope and lifetime, through the API and the form (extends both) |
| `SecretStoreProofs` | proofs of `SecretStore`, its refinement of `SecretMap`, and `SecretReads` (section 5) |
| `RotationProofs` | proofs of `Rotation`, on top of those (extends both) |
| `AuditChainProofs`, `KeyAccessProofs`, `BootProofs`, `CredentialsProofs`, `InputsProofs` | proofs of the module each is named after |
| `MaxLemmas` | least and largest elements, which most of the proofs use |
| `MC*` | constants for TLC |

### SecretStore

`secrets` and `fts` are the two tables as sets of records; `pc`, `job`, `row`
and `reply` are per request the next statement, what was asked, the
`*store.Secret` in the handler's hands and the answer.

| Action | Code |
|---|---|
| `Arrive`, `Abort`, `Crash` | a request comes in, is cancelled or has a failing statement, the process dies |
| `HandleGet` | `handleGetSecret` |
| `HandlePut`, `PutUnread` | `handlePutSecret` and the form with a value; the second when the ignored read fails |
| `HandleSave` | `handleUISecretSave` with a blank value |
| `HandleAnnotate` | `handleAnnotateSecret` |
| `HandleDelete`, `Remove`, `Unindex` | `handleDeleteSecret`, `DeleteSecret` |
| `Upsert`, `SelectId`, `SyncFTS` | `PutSecret`, `syncSecretFTS` |

A ciphertext is a record of the key, the AAD and the value it holds, and
`Opens` is GCM's check. `NextId` is SQLite's choice for an `INTEGER PRIMARY KEY`
without `AUTOINCREMENT`. The action `SyncFTS` is the transaction of
`syncSecretFTS`. A put and a save by the web form end in the same statements as
the API's put.

`Failures` says what may go wrong: "request" lets a statement fail or a client
go away, "process" lets the process die.

### SecretReads

A list SELECTs the paths and then each row; a search SELECTs rowids from the
index and then each row (the API) or each path and then each row (the page).
`paths` and `ids` are what a reader has yet to read, `page` what it will answer
with. The scope is asked of the path in a list and of the row found in a search.
`since`, `lasting`, `found`, `clean` and `calm` are auxiliary: the rows and paths
that were in the table while it ran, what the index had for its query, and
whether anything went wrong or changed meanwhile. A request to the API whose
first statement fails is answered with an error (`ReadFails`); the page is shown
without rows (`BlankPage`), since `loadSecretsData` does not look at the error.

### KeyAccess

`keys` maps a name to its row (names are UNIQUE and keys are never deleted, so
a name stands for id and token). A request goes through `Authenticate`
(`auth.Authenticate` and the handler's checks, one statement), `Access` (the
secret's statements, as they may come out), and `Audit` or `AuditFails`; or
through `CreateKey`, `GetKeyByName`, `UpdateKey`, `SyncKeyFTS`, `RevokeKey`.
`now` is the clock; expiry follows the code (0 is no expiry, the last
millisecond counts). `dropped`, `after` and `came` are auxiliary.

The three `audit` statements are the calls of `auditAppend` with "ok", "denied"
and "error" (`Result`). The last is for a value that does not open: a get logs it
and answers 500, a list logs it and goes on with its next row, whose end is an
entry "ok" (`AfterAudit`). The answer "unchanged" is the 204 of an annotation that
changes nothing, the one success of an agent without an entry.

### AuditChain

`audit` is the table in id order. Because SHA-256 is taken to be injective, a
hash *is* the sequence of entries it commits to. `EditRow` and `DropRow` change
any column but the id, or take a row out. Whoever does it can put in any entry,
any hash Append has made or the one that fits the row, and any HMAC made so far
or a malformed one, but cannot make a new HMAC.
`pager` is a reader of the audit page.

### Boot

One action per statement of `runServe`, `LoadOrCreateSalt`, `Open`, `init`,
`migrateFTS5` and `bootstrapFirstBoot`. The first state is an empty volume or
one that v0.1.0 left, with its old full-text schema. Keys are represented by
the salt they come from (the password is the same at each start). Whether the
migration's probe fails on the old schema is left open. `Write` is everything a
serving process writes, in the detail this module needs.

### Rotation

`Rotation` adds the operator's token and, per rotation, the statement it is at,
the key it derives, the paths it has yet to do and the row it holds. Its row
writes use `Upserted` and `Indexed` of `SecretStore`. A key is the pair of the
password and the salt it is derived with: the salt *file* at boot,
`meta.kdf_salt` in a rotation.

### Sessions, Keyring and Credentials

A request carries the cookie the browser had when it was sent; the answer sets
or clears it when it arrives, in any order with the answers to the other tab.
`NoSession`, `StaleSession` and `InSession` are the three ways through
`requireUISession`; `UILoginPage`, `UILogin`, `UILogout` and `UIPage` are the
handlers; `Arrive` is the browser, which follows redirects. A cookie is a record
of its token, its end and the key that signs it; `gone`, `sent`, `failed` and a
cookie's `password` are auxiliary.

`Login`, `Logout` and `Load` are `keyring.Save`, `Delete` and `Load`: the
keychain's entry when it answers, the file otherwise. A keychain that answers a
`Get` may still refuse a `Set` or a `Delete`. A file may be `Torn`
(`os.WriteFile` cut short) and an entry `Foreign`. `EnvOrKeyring` and `RunMcp`
give a process its pair at start; `Call` is a request, which the server admits
or not. A behaviour of `Credentials` has the browser or the machine: they share
only the server's token, which either may see replaced at any time.

### Metadata, Scope and Inputs

A string with commas is the sequence of its pieces, a path the sequence of its
segments, and a glob the set of segments it matches. A piece, or a part of a scope,
may have a space before and after it: `strings.TrimSpace` takes those at the ends
of the string (`TrimSpace`, `TrimScope`), and what is left belongs to the first and
the last glob of a pattern (`AsWritten`), which then matches only segments with
that space. Such segments are in the paths too, since a put refuses no path but the
empty one. `Inputs` has one action per
handler that stores what these functions return, and `Expired` of
`Authenticate`; `Wrap` is the overflow of a `time.Duration`. `Parse` and
`Language` are the reference that `Match` and `ParseScope` are compared with.

## 3. Runs

`Inflight` bounds the requests handled at once, `Req` their number in all. All
constants that matter are in the cfg; job sets are in the MC modules. A run of a
finding stops at its counterexample and has no number of states.

| Run | Question | Bounds | Distinct states |
|---|---|---|---|
| `secrets_concurrent` | Can any overlap, failure or crash leave a row its readers cannot open? While requests only overwrite and read, is it still a map, and is each row in the index once? | 3 requests at once, 2 paths, 2 descriptions, every operation, requests and process may fail | 320 000 |
| `secrets_one_client` | Is one client served by an atomic map, with versions that count description changes and an index that is in step? What do lists and searches show meanwhile? | 3 requests in a row and 1 reader beside them, 2 paths, 2 descriptions, LIMIT 1, crashes and failing SELECTs | 2 160 000 |
| `secrets_delete_race` | finding 1 | 4 requests, 2 at once | |
| `audit_chain` | Does an honest log verify, a verified log tell the truth, tampering show at its place, paging miss nothing? | 4 rows, 2 changes, pages of 2, 2 entries | 412 000 |
| `key_requests` | Is revocation final and immediate, does an answered change stand, is every access logged that should be, and is what is logged true? | 1 key, 3 requests, 2 at once, clock 2, failures, crashes | 4 860 000 |
| `key_update_race` | finding 2 | 3 requests, 2 at once | |
| `key_denials` | finding 3 | 2 requests, one at a time | |
| `boot` | Do old rows stay valid through any crashes? Does the server always come up? | 2 rowids per table; boots, crashes and writes unbounded | 12 600 |
| `rotation` | Do overlapping rotations and writes lose a row? Does an undisturbed rotation do what it says? Does its token work? | 2 rotations, 1 request, 2 paths, failures, crashes | 2 450 000 |
| `rotation_vault` | finding 4 | 1 rotation, 1 request, 2 passwords | |
| `credentials` | Does a session end with its token and its time, and not before? Do redirects end? Does the last login count, and does a process keep a URL and its token together? | 2 tabs, 2 starts, 2 passwords, 2 tokens, clock 1; 4 changes of the keyring, 2 vaults, 1 process | 477 000 |
| `inputs` | Can what was stored be saved again? Does a key end when it was asked to? Does its scope mean what it says? | 2 tags, 1 pair, integers of 5 bits, paths and patterns of up to 3 segments, a space on either side | 2 322 |

Why these bounds are enough to be interesting:

* Two paths are what a reused rowid needs; three requests what a delete, a
  second delete and a put need; two descriptions what a stale version needs.
  LIMIT 1 makes the cut happen with two matching rows. What these two runs check
  is proved for any bound.
* A key does not interact with another one, so one key is all of them; a path
  in its scope and one outside it are the two cases of every check. What
  `key_requests` checks is proved for any number of keys and requests.
* Two rotations are what it takes to overlap and to replace each other's token,
  and the request between them to disturb one. What `rotation` checks is proved.
* Four audit rows leave a changed row two neighbours and a later append, two
  changes are what recomputing a hash after an edit takes, pages of two make a
  page end in the middle of the log. These properties are proved as well.
* `Boot` has no bound but the rowids: draws and tokens are numbered and the
  table is filled at most once, so its state space is finite.
* Two tabs are what answers out of order take. A cookie lives for the second it
  was issued in, so the clock passes its end; the second start may be under the
  same password or the other, and the second token replaces the first at any
  moment. Four changes of the keyring are a login to either place, a logout and
  a login again. Except for `LoadsSettle`, what `credentials` checks is proved
  for any bound.
* Integers of 5 bits overflow in four days of five ticks, as those of 64 bits do
  in some 106 752; tags are at the limit with three texts and a limit of two.
  What `inputs` checks is proved for any width, patterns, texts and limits.

**Deadlock.** `boot` and `audit_chain` are checked for deadlock: a boot that
waits for its own connection would be one (that was v0.1.1's bug). The other
configurations say `CHECK_DEADLOCK FALSE`, because they end when their finite
set of requests is answered. No handler in them waits for another one, so there
is nothing that could block.

`credentials` says so too: its keyring changes, tokens and starts are bounded, and
a machine whose bounds are used up and whose process calls another vault stops.

**Fairness.** `Boot` has weak fairness of `Start` (the supervisor restarts the
process) and of `BootStep` (a process that can execute its next statement does).
`ComesUp` assumes that crashes stop at some time and that the boot was not cut
between `CreateOperator` and `MarkFirstBootDone`, after which the code never
starts again (every boot fails on the UNIQUE operator name). `Credentials` has
weak fairness of `TabStep`, for each tab: the server answers a request that
reached it, the browser takes the answer, or finds that nobody answers. Nothing
makes anyone click, log in, or restart the server. `LoadsSettle` assumes that
clicking stops: with somebody who logs in and out for ever in one tab, the
answers to another can chase each other. The other modules state safety only:
their handlers have no loop that waits.

**Symmetry.** Requests and rotations are interchangeable and no run with
symmetry checks liveness.

### Properties that hold only under conditions

The code does not make every sensible property true, and the conditions in
the properties say where it does:

* `IndexInSync` and `DescChangeBumpsVersion` hold of one client whose requests
  do not fail. Two puts that overlap may store two descriptions under one version
  and may sync the index in the other order; a crash before the sync leaves the
  old entry.
* `IndexCovers` needs writers that do not delete: a put between the two
  statements of a delete loses its entry to the second.
* `KeepsPromise` holds of one client, whatever fails; `OverwritesKeepPromise` is
  the same for requests that overlap, as long as all of them overwrite or read.
  Saves with a blank value and annotations write back what they read, so one that
  overlaps a put undoes it.
* `LoneWriteStands` speaks of writes of a key that no other overlapped. A lifetime
  it names counts from the moment the handler computed it, which is one between
  the request's arrival and its answer.
* `AccessIsLogged` exempts requests whose append failed, since `auditAppend` drops
  the error, and the annotation that changes nothing, which is answered before
  the call. Of refusals it has those of get and put; finding 3 has the others.
* `MigrationIndexes` exempts a migration that a crash cut short, since nothing
  completes it later.
* `RotationComplete` and `TokenWorks` exempt rotations that skipped something:
  the code answers "ok" all the same.
* `SearchesAnswer` speaks of searches of an index in step that `LIMIT` did not
  cut: `SearchSecrets` applies the limit to all secrets and the handler the
  scope afterwards, so a key may find nothing of its own.
* `ListsMissNothing` speaks of lists none of whose SELECTs failed: a row that
  cannot be read is left out of an answer that says 200.
* `SessionLasts` names how a session that still lasts is lost: a logout, a lookup
  of the token that failed (any error of `Authenticate` clears the cookie), or
  the answer to an older request that arrives after a new login.
* `LastLoginCounts` speaks of a keychain that answers just if it did the last login
  or logout, or that has no entry of ours. A login that it does not take, locked or
  refusing the write, goes to the file; if it answers after that, an older entry in
  it comes first. So does the entry that a logout could not delete.
* `PairsStayTogether` exempts `mcp-serve` with one of its two variables set: it
  completes the pair from the saved one.
* `ExpiresWhenAsked` speaks of lifetimes that fit an int64 and end after 1970.
  `Authenticate` takes an expiry of 0 or less for none, so one in days that
  overflows, or one that is negative by more than the age of the epoch, gives a
  key that may last for ever.
* `TagsStayNormal` exempts annotations that add a tag that is too long or has a
  comma.
* `ScopeMeansItsPatterns` compares what a key is let into with two readings of its
  scope. As written, spaces included, they agree for every scope and path. With the
  trimmed patterns, as `scope.Parse` makes them, they agree when no part has a space
  at an end; otherwise a key may get into fewer paths, and also into others, but only
  ones that have a space at an end.

## 4. Findings

Each is a run that TLC finds violated; `PROJECT.json` quotes the lines.

1. `secrets_delete_race`: `DeleteSecret` selects an id by path and deletes by id.
   When another delete of the path and a put of a different path come in
   between, the id is the other path's, and the wrong secret is removed.
2. `key_update_race`: `UpdateKey` writes scope, permissions and expiry back as
   they were read. Annotating a key while its grant is being reduced restores
   the larger grant.
3. `key_denials`: refusals of delete and annotate out of scope, and of every
   write of a read-only key, leave no audit entry; `website/security.md` says
   every denial does.
4. `rotation_vault`: a rotation seals the secrets under a key from
   `meta.kdf_salt`; a boot derives its key from the salt file. After a rotation
   no password opens them.

Disagreements met while reading the code that no run is about, or that show only
as an exemption in a property:

* `serve.go:123` commits `first_boot_done` before the token is printed
  (`CONTEXT.md:11`: "Printed to the operator's stdout exactly once"). A crash in
  between leaves a vault that serves and whose only token nobody has seen.
* `mcp.go:32` says that `mcp-serve` "inherits the operator's login state", but it
  reads it from `scopuli login --show`, whose token is redacted: a server started
  without `SCOPULI_KEY` is never admitted (`RunMcp`).
* `CONTEXT.md:21` caps tags at 64 characters; `MergeTags` does not look at their
  length, nor for commas in them (`TagsStayNormal`).
* `CONTEXT.md:33` says that "Every annotate call emits an `audit` row". One that
  changes nothing is answered 204 without (`server.go:518-521`; "unchanged" in
  `AccessIsLogged`).
* `auth.parseScope`, which judges requests, does not trim; `scope.Parse` does. A key
  with the scope `a/*, b/*` gets into the path ` b/x`, which `scope.Parse`'s `b/*`
  does not cover, and not into `b/x` (`ScopeMeansItsPatterns`).
* The page of secrets is shown empty, with status 200, when its first SELECT fails
  (`ui_pages.go:214-225`; `BlankPage`).
* The key form calls the scope `*` "everything" (`ui_actions.go:230`); `Match`
  compares segment by segment, so it covers paths of one segment.
* `ui_session.go:33` says that a rotation invalidates sessions by deriving a new
  signing key. The running server keeps its key; sessions end because their
  token is not found any more (`SessionEndsWithToken`).
* A logout clears one browser's cookie. A copy of it is good until the token is
  replaced or the cookie ends.
* `keys.go:63` gives "30d" as an example of a lifetime, which the API's
  `time.ParseDuration` refuses; only the web form reads days.
* A GET or DELETE of a secret takes its path without a trailing slash, and a
  secret called "search" cannot be read by path, since the route is taken.

## 5. Proofs

Proved by TLAPS for all values of the constants that satisfy the `ASSUME`s of
the modules; no further assumption is made.

**SecretStore and SecretReads** (`SecretStoreProofs`).

*The table* (`TypeCorrect`, `EveryRowOpens`). The invariant `RowsOpen` is not
inductive: it says nothing of the rows handlers hold and are about to write. The
inductive invariant has two layers. `TableInv` holds whatever keys the rows are
under: a row held for an upsert is sealed under the server's key and bound to
the path, description and version it will be stored with, wherever these came
from; what a request at a given statement holds; and ids in the table are at
most the largest, hence `NextId` is new, hence ids stay unique. `RowsOpen` on top
of it says that all stored rows are under the server's key. That is the argument
in the code too: a handler seals for the row it *writes*, not for the one it
read, and the upsert replaces text and ciphertext together.

*Readers* (`ReadsTypeCorrect`, `ReadersStayInScope`, `ReadersShowRows`,
`ListsAreComplete`, `SearchesFind`). `ReadsSpec` takes a step of `Spec` or one of
a reader, which leaves the tables alone (`ReadersOnlyRead`), so the same invariant
carries over. What readers show needs more: the pages are within `since` and the
scope, and a path that lasts is either yet to be read or on the page. That rests
on `RowsOpen`: a row that did not open would be left out. For searches
`SearchInv` accounts for each entry the index had: the row it leads to is yet to
be read or on the page, for as long as the search is `calm`, whatever went on
before it.

*The promise.* `PromiseStep` shows each statement of a handler to be the step of
`SecretMap` it should be or a stutter, if the write finds the row its handler
read (`InPlace`). `Tracked` says that the row a request holds is the one its job
asks for. While nothing was deleted no row is missing (`NoGap`), which is all a
put needs: `OverwritesRefine`, for any number of requests that overlap, fail or
die. With one request at a time (`Inflight = 1`) every operation finds its row:
`OneClientPromise`, failures and crashes included.

*One client's index and versions* (`OneClientInSync`, `OneClientBumps`). These
two assume `Inflight = 1` and `"request" \notin Failures`, as `secrets_one_client`
does; the process may die. Both hypotheses are needed: see the conditions in
section 3. `Solo` says that at each statement of the one running request the
index is in step but for the row in its hand, and that its draft has the next
version when it has a new description.

*The index under many writers* (`NothingUnindexed`). `CoverInv`: as long as
nothing was deleted and nothing failed, an entry is that of a row, by rowid and
path, and a row without one has a writer that is about to sync it. With nobody
running, entries and rows then correspond one to one.

**Rotation** (`RotationProofs`): `RotationTypeCorrect`, `RowsStayBound`,
`NewTokenWorks`, `RotationCompletes`. A rotation breaks `RowsOpen` on purpose, so
its invariant takes over `TableInv` alone, with `RowsBound` and what a rotation
holds at each statement (`RInv`). The token needs `TokenInForce`: the operator's
is the one at the start or that of a rotation that got as far as its answer, and
no answered rotation has a newer one. `RotationComplete` needs `Whole`, of each
rotation nobody disturbed: from its list on, the table has the content it found,
and each row is under the new key, on the list still, or the one in its hand.

**AuditChain** (`AuditChainProofs`): `TypeCorrect`, `HonestLogVerifies`,
`VerifiedLogIsGenuine`, `PagingIsComplete`, `TamperingIsLocated`. The inductive
invariant is `TypeOK` with `SignedEndInEntry` and `HmacsSigned` (an HMAC in the
table was made by Append, whoever put it there), `Exact` (an untouched log's row
i commits to the first i entries of the history), `PagerExact` (the pages so
far count down to just above the cursor) and `TamperingShowsThere` itself. That
a verified log is genuine follows by the smallest row whose hash is not that of
its prefix. It is proved without induction over the log: a least element of a
set of row numbers takes its place.

**KeyAccess** (`KeyAccessProofs`): `TypeCorrect`, `RevocationIsFinal`,
`RevocationIsImmediate`, `EveryAccessIsLogged`, `LoneWritesStand`. `RevokedForever` rests on one
fact about steps, `KeysStay`: a row is only inserted under a name without one,
updated in all columns but `revoked_at`, or revoked. `RevocationIsInstant` is
not inductive; it needs `RevokedByThen` (when a revocation gets to its audit
entry the row is revoked, and by `KeysStay` it stays so) and `NotYetAdmitted` (a
request has no principal before it is authenticated, and whoever was answered
before it came stays answered). `AccessIsLogged` needs `AuditReady` (who is about
to be logged was admitted and checked) and `LoggedLast`
(who has an entry is at an access, an entry or its end, and so does not come back
to the authentication that the entry rests on). `LoneWriteStands` is followed
through a write's statements: as long as it is `Alone` (all other writes of its key
were answered before it came), what it holds, then the row, then the index entry is what it
asked for (`Stands`); its lifetime counts from a moment that is not before its
arrival (`CameBefore`) and not after the clock.

**Boot** (`BootProofs`): `TypeCorrect`, `RowsSurviveRestarts`,
`TokenShownIsStored`, `MigratedIndexIsComplete`. The inductive invariant says
for each label of the boot what is on disk by then and what the process has in
memory, which is what makes a crash at that label harmless.

**Credentials** (`CredentialsProofs`): `TypeCorrect`, `SessionsEnd`,
`SessionsOutlastRestarts`, `LoadGivesLastLogin`, `PairsAreKept`. `SessionsEnd`
needs that the cookie of a request at work is one that was issued and that
`gone` holds no token that becomes the operator's again (a fresh token is new).
`SessionLasts` is an action property: it follows step by step from the types,
because a cookie is signed under the password it was issued with, whatever boots
came after. `LastLoginCounts` rests on `LastInv`, which says where the last login
or logout left its pair given whether the keychain did it, and
`PairsStayTogether` on `SavedInv`: both places only ever hold pairs that were saved.

**Inputs** (`InputsProofs`): `TypeCorrect`, `LifetimesEnd`,
`ScopesCoverTheirPatterns`, `TagsAreNormal`. `LifetimesEnd` rests on
`WrapIsIdentity` (what fits does not wrap), `ScopesCoverTheirPatterns` on
`MatchMeans` (the loop over segments matches exactly the language of a pattern), on
`TrimKeepsEnds` (trimming slashes leaves the first and last segment of what remains
where spaces can be seen), and on `SpacedPart` and `UnspacedPath` (what a space of a
part, and none in a path, does to a match).
`TagsAreNormal` is about two loops, `Distinct` (a fold) and `FlattenSeq`. What
they return for every sequence is proved by least counterexample instead of
induction: a function that goes through a prefix extends to one that goes through
the next (`PrefixFolds`, `FlattenExists`), so the recursive definition has a
value at each position, and the first position where a statement about them
fails does not exist. `DistinctOnce` says that the result has each element once
and none to be skipped, `DistinctStays` that a sequence like that is left alone;
hence what `NormalizeTags` returns is a fixed point of it, and `MergedIsNormal`
that an annotation with proper tags keeps it one.

`MaxLemmas` has what `Max` of a bounded set returns, and that a set of naturals
has a least element.

The assumptions on the constants say what is a path, a string or an object, and
that the value that stands for NULL (`Nil`) is none of these. `Inputs` assumes
that tags arrive as sequences of pieces; `Rotation` starts with any finite vault.

**Only model-checked.** All invariants and action properties of the runs that
pass are proved. What is left to TLC is `ComesUp` and `LoadsSettle`: liveness
under fairness, and `ENABLED`, are out of the prover's reach. The four findings
are counterexamples, not theorems.

## 6. What is not modelled

* **Cryptography** is ideal: Argon2id, SHA-256 and the AAD encoding are
  injective, a ciphertext opens only under its key and AAD, an HMAC cannot be
  made without Append, random draws are new. Nonces do not appear. Whether the
  SQLite driver encrypts the file is not in question here.
* **Text** is not put together: descriptions, labels and limits of their length,
  JSON, base64, CSV quoting, templates and log lines are left out. A glob of a
  scope is the set of segments it matches; how `path.Match` reads it is not
  modelled.
* **Durations and expiries** are natural numbers in `KeyAccess`; `Inputs` has
  their arithmetic.
* **Scopes** are sets of paths in `KeyAccess` and `SecretReads`; `Scope` has how
  patterns give such a set.
* **Spaces**: at most one on each side of a part or piece; other white space and
  runs of it are left out.
* **Rows inserted by hand** into the audit table: rows are edited and removed, and
  Append adds to what is left.
* **Ranking** of a search: LIMIT may cut off any of the matching rows. A query is
  for one description; FTS5's syntax is not modelled.
* **Browser and machine together**: they meet only in the operator token, so each
  is checked beside a server that does all it may.
* **Backup**: a format of one header and one ciphertext, no state and no
  interleaving.
* **The commands of the CLI and the tools of the MCP server** are one request
  each with flags for fields; the models have the requests, and how their
  credentials are found.
* **Configuration, pi extension, the dashboard and the keys page, scripts**: they
  keep no state of the vault's and only read.

## 7. Plan

Done: all modules of section 2, and proofs of all their safety properties.

Next, in this order:

1. `Vault`: audit entries of `SecretStore`'s requests in `AuditChain`'s log, so
   that "logged before answered" is one property of the composition.
2. Refinement for larger classes of requests than `OverwritesKeepPromise` has:
   deletes beside puts as long as no id is taken over, saves and annotations that
   nobody overlaps.
3. Shutdown as an actor of its own (`ListenAndServe` returns before `Shutdown`
   does, and the deferred `Close` runs under live requests; at present these are
   failing statements of any request).
