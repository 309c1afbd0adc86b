---------------------------- MODULE SecretReads ----------------------------
(***************************************************************************)
(* GET /api/secrets (the list), GET /api/secrets/search and the web page   *)
(* that shows either, beside the requests of SecretStore.                  *)
(*                                                                         *)
(* Both read many times: first the paths, or the rowids the index gives    *)
(* for the query, then one SELECT per path or rowid.  Requests of others   *)
(* run in between, so a path may be gone by then and a rowid may belong to *)
(* another secret.  A SELECT that fails is skipped over.                   *)
(***************************************************************************)
EXTENDS SecretStore

CONSTANTS
    Reader,     \* lists and searches that arrive, each handled once
    Scopes,     \* what the scopes of the readers' principals may cover
    ReadsFail,  \* may a SELECT of theirs fail?
    Limit       \* SearchSecrets' limit

ASSUME ReadsAssumption ==
    /\ \A s \in Scopes : s \subseteq Path
    /\ ReadsFail \in BOOLEAN
    /\ Limit \in Nat \ {0}
    /\ Nil \notin Desc

\* A search is for the secrets described by a word; Nil asks for the list.
Query == Desc \cup {Nil}

VARIABLES
    stage,     \* per reader: idle, reading its rows, answered or cut off
    query,     \* per reader, what it asks
    view,      \* per reader, the API's answer or the web page
    scope,     \* per reader, the paths its principal may see
    paths,     \* per reader, the paths of the list it has yet to read
    ids,       \* per reader, the rowids of the search it has yet to read
    page,      \* per reader, the rows it will answer with
    since,     \* the rows that were in the table while it ran (auxiliary)
    lasting,   \* the paths that were there all the time (auxiliary)
    found,     \* the entries the index gave for its query (auxiliary)
    clean,     \* did each of its SELECTs succeed? (auxiliary)
    calm       \* did it start in step with the index, with no write since? (auxiliary)

progress == <<stage, query, view, scope, paths, ids, page>>
notes == <<since, lasting, found, clean, calm>>
readvars == <<progress, notes>>
allvars == <<vars, readvars>>

ReadsTypeOK ==
    /\ TypeOK
    /\ stage \in [Reader -> {"idle", "reading", "ok", "failed"}]
    /\ query \in [Reader -> Query]
    /\ view \in [Reader -> {"api", "web"}]
    /\ scope \in [Reader -> SUBSET Path]
    /\ paths \in [Reader -> SUBSET Path]
    /\ ids \in [Reader -> SUBSET Nat]
    /\ page \in [Reader -> SUBSET Row]

ReadsInit ==
    /\ Init
    /\ stage = [q \in Reader |-> "idle"]
    /\ query = [q \in Reader |-> Nil]
    /\ view = [q \in Reader |-> "api"]
    /\ scope = [q \in Reader |-> {}]
    /\ paths = [q \in Reader |-> {}]
    /\ ids = [q \in Reader |-> {}]
    /\ page = [q \in Reader |-> {}]
    /\ since = [q \in Reader |-> {}]
    /\ lasting = [q \in Reader |-> {}]
    /\ found = [q \in Reader |-> {}]
    /\ clean = [q \in Reader |-> TRUE]
    /\ calm = [q \in Reader |-> TRUE]

-----------------------------------------------------------------------------
PathsOf(rows) == {x.path : x \in rows}

ListedFromIndex == PathsOf(fts)   \* mutant: the list read off the index
Listed == PathsOf(secrets)

InStep == Active = {} /\ fts = {EntryOf(x) : x \in secrets}

Matching(d) == {e \in fts : e.desc = d}

OneMore(S) == {T \in SUBSET S : Cardinality(T) <= Limit + 1}   \* mutant: LIMIT dropped
\* LIMIT applies to the whole index, in the order of rank.
Hits(S) == {T \in SUBSET S : Cardinality(T) = IF Cardinality(S) > Limit THEN Limit
                                             ELSE Cardinality(S)}

AnyRow(q, x) == TRUE   \* mutant: the scope not asked again
\* canAccessSecret: the operator's scope is Path.
CanAccess(q, x) == x.path \in scope[q]

\* A key's request or the operator's; only the operator has the web pages.
Begin(q) ==
    /\ stage[q] = "idle"
    /\ stage' = [stage EXCEPT ![q] = "reading"]
    /\ \/ \E s \in Scopes : scope' = [scope EXCEPT ![q] = s] /\ UNCHANGED view
       \/ scope' = [scope EXCEPT ![q] = Path] /\ view' = [view EXCEPT ![q] = "web"]
    /\ since' = [since EXCEPT ![q] = secrets]
    /\ lasting' = [lasting EXCEPT ![q] = PathsOf(secrets)]
    /\ calm' = [calm EXCEPT ![q] = InStep]
    /\ UNCHANGED <<vars, page>>

\* handleListSecrets' first statement; the paths out of scope are passed over.
ListPaths(q) ==
    /\ Begin(q)
    /\ paths' = [paths EXCEPT ![q] = Listed \cap scope'[q]]
    /\ UNCHANGED <<query, ids, found, clean>>

\* handleSearchSecrets' first statement.
SearchSecrets(q) ==
    \E d \in Desc :
        /\ Begin(q)
        /\ query' = [query EXCEPT ![q] = d]
        /\ found' = [found EXCEPT ![q] = Matching(d)]
        /\ \E T \in Hits(Matching(d)) : ids' = [ids EXCEPT ![q] = {e.id : e \in T}]
        /\ UNCHANGED <<paths, clean>>

\* mutant: the description answered from the index's entry
ShowEntry(q, rows) ==
    page' = [page EXCEPT ![q] = @ \cup
                {[x EXCEPT !.desc = IF query[q] = Nil THEN @ ELSE query[q]] : x \in rows}]
Show(q, rows) == page' = [page EXCEPT ![q] = @ \cup rows]

\* One GetSecret of the list.  A row that does not open is left out.
ReadPath(q) ==
    /\ stage[q] = "reading"
    /\ ids[q] = {}
    /\ \E p \in paths[q] :
          /\ paths' = [paths EXCEPT ![q] = @ \ {p}]
          /\ Show(q, {x \in RowsAt(p) : Opens(Kek, x.ct, AADSecret(x.path, x.desc, x.version))})
    /\ UNCHANGED <<vars, stage, query, view, scope, ids, notes>>

\* One SELECT by rowid of the search: the scope is asked of the row it gives.
ReadId(q) ==
    /\ stage[q] = "reading"
    /\ view[q] = "api"
    /\ \E i \in ids[q] :
          /\ ids' = [ids EXCEPT ![q] = @ \ {i}]
          /\ Show(q, {x \in RowsWithId(i) : CanAccess(q, x)})
    /\ UNCHANGED <<vars, stage, query, view, scope, paths, notes>>

\* loadSecretsData only takes the path from it and reads the row later.
ReadPathOfId(q) ==
    /\ stage[q] = "reading"
    /\ view[q] = "web"
    /\ \E i \in ids[q] :
          /\ ids' = [ids EXCEPT ![q] = @ \ {i}]
          /\ paths' = [paths EXCEPT ![q] = @ \cup PathsOf(RowsWithId(i))]
    /\ UNCHANGED <<vars, stage, query, view, scope, page, notes>>

\* A SELECT fails (the 30 s are over): "continue".
SkipRow(q) ==
    /\ ReadsFail
    /\ stage[q] = "reading"
    /\ \/ \E p \in paths[q] : paths' = [paths EXCEPT ![q] = @ \ {p}] /\ UNCHANGED ids
       \/ \E i \in ids[q] : ids' = [ids EXCEPT ![q] = @ \ {i}] /\ UNCHANGED paths
    /\ clean' = [clean EXCEPT ![q] = FALSE]
    /\ UNCHANGED <<vars, stage, query, view, scope, page, since, lasting, found, calm>>

Respond(q) ==
    /\ stage[q] = "reading"
    /\ paths[q] = {} /\ ids[q] = {}
    /\ stage' = [stage EXCEPT ![q] = "ok"]
    /\ UNCHANGED <<vars, query, view, scope, paths, ids, page, notes>>

\* The first statement of a request to the API failed.
ReadFails(q) ==
    /\ ReadsFail
    /\ stage[q] = "idle"
    /\ stage' = [stage EXCEPT ![q] = "failed"]
    /\ UNCHANGED <<vars, query, view, scope, paths, ids, page, notes>>

\* That of a page failed: loadSecretsData ignores it, and the page has no rows.
BlankPage(q) ==
    \E d \in Query :
        /\ ReadsFail
        /\ Begin(q) /\ view'[q] = "web"
        /\ query' = [query EXCEPT ![q] = d]
        /\ found' = [found EXCEPT ![q] = {}]
        /\ clean' = [clean EXCEPT ![q] = FALSE]
        /\ UNCHANGED <<paths, ids>>

-----------------------------------------------------------------------------
\* A step of SecretStore, and what the auxiliary variables note of it.
Watch ==
    /\ since' = [q \in Reader |->
                    IF stage[q] = "reading" THEN since[q] \cup secrets' ELSE since[q]]
    /\ lasting' = [q \in Reader |->
                    IF stage[q] = "reading" THEN lasting[q] \cap PathsOf(secrets') ELSE lasting[q]]
    /\ calm' = [q \in Reader |-> calm[q] /\ table' = table]
    /\ UNCHANGED <<found, clean>>

Requests == (\E r \in Req : Arrive(r) \/ Abort(r) \/ PutUnread(r) \/ Handle(r))
                /\ Watch /\ UNCHANGED progress

\* The process takes the readers with it.
Dies ==
    /\ Crash
    /\ stage' = [q \in Reader |-> IF stage[q] = "reading" THEN "failed" ELSE stage[q]]
    /\ UNCHANGED <<query, view, scope, paths, ids, page, notes>>

ReadStep(q) ==
    \/ ListPaths(q) \/ SearchSecrets(q) \/ ReadPath(q) \/ ReadId(q) \/ ReadPathOfId(q)
    \/ SkipRow(q) \/ Respond(q) \/ ReadFails(q) \/ BlankPage(q)

ReadsNext == Requests \/ Dies \/ \E q \in Reader : ReadStep(q)

ReadsSpec == ReadsInit /\ [][ReadsNext]_allvars

-----------------------------------------------------------------------------
(* Properties. *)

\* No list and no search shows a secret outside the scope of the key that asks
\* (website/security.md: "A compromised key only exposes secrets inside its
\* scope"), though the rowids of a search may have passed to other secrets
\* between handleSearchSecrets' two kinds of SELECT.
ReadsStayInScope ==
    \A q \in Reader : \A x \in page[q] : x.path \in scope[q]

\* Each line of a list or a search is one row as it was stored at some moment
\* of the request.
ReadsAreGenuine == \A q \in Reader : page[q] \subseteq since[q]

\* A list all of whose SELECTs succeeded has every secret in scope that was
\* there all the time, whatever else was written or deleted meanwhile.
ListsMissNothing ==
    \A q \in Reader :
        stage[q] = "ok" /\ query[q] = Nil /\ clean[q] =>
            lasting[q] \cap scope[q] \subseteq PathsOf(page[q])

\* A search of an index in step, with no write meanwhile, answers with rows
\* that match, and with all of them in scope when LIMIT cut nothing off: the
\* limit is applied to all secrets before the scope is, so a key may see
\* nothing of its own though it matches.
SearchesAnswer ==
    \A q \in Reader :
        stage[q] = "ok" /\ query[q] # Nil /\ calm[q] =>
            /\ \A x \in page[q] : x.desc = query[q]
            /\ Cardinality(page[q]) <= Limit
            /\ clean[q] /\ Cardinality(found[q]) <= Limit =>
                  {x \in secrets : x.desc = query[q] /\ x.path \in scope[q]} \subseteq page[q]
=============================================================================
