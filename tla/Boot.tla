-------------------------------- MODULE Boot --------------------------------
(***************************************************************************)
(* How the daemon starts (cmd/scopuli/serve.go, internal/store/store.go):  *)
(* the salt file and the key derived from it, the schema and the migration *)
(* of a v0.1.0 full-text index, the seeding of meta, the first boot with   *)
(* its operator token, and then serving.                                   *)
(*                                                                         *)
(* An action is one SQL statement or file write with the code up to the    *)
(* next one: the process may be killed between any two, and what was       *)
(* written stays.  Its supervisor starts it again, always with the same    *)
(* master password, so a key stands for the salt it is derived from.       *)
(* Salts and tokens are random: each is a number not drawn before.         *)
(***************************************************************************)
EXTENDS Naturals, FiniteSets

CONSTANT Id   \* rowids of secrets and of keys

Table == {"secrets", "keys"}

VARIABLES
    salt,        \* the salt file: its salt, 0 if absent or of the wrong length
    content,     \* per table, the rowids of its rows
    sealed,      \* per secret's rowid, the salt of the key that sealed it
    fts,         \* per table, the schema of its index and the rowids indexed
    seed,        \* meta: kdf_salt and hmac_key_salt, drawn together, 0 if absent
    params,      \* meta: is there a kdf_params?
    done,        \* meta: is there a first_boot_done?
    macs,        \* the salts of the keys that signed audit rows
    operator,    \* the token of the operators row, 0 if there is none
    pc,          \* what the process does next; "down" when there is none
    kek,         \* in memory: the salt of the key
    table,       \* in memory: the table whose index is migrated
    data,        \* in memory: its rows yet to be indexed
    conn,        \* the connection: "free", or held by open "rows"
    token,       \* in memory: the operator token being created
    printed,     \* the tokens the operator has seen
    drawn,       \* numbers drawn so far
    interrupted  \* tables whose migration was cut short (auxiliary)

disk == <<salt, content, sealed, fts, seed, params, done, macs, operator>>
memory == <<kek, table, data, conn, token>>
vars == <<disk, pc, memory, printed, drawn, interrupted>>

Migrating == {"drop", "recreate", "select", "close", "reindex"}
Booting == {"salt", "schema", "probe", "seed", "params", "fresh", "bootstrap",
            "mark", "print"} \cup Migrating

TypeOK ==
    /\ {salt, seed, operator, kek, token, drawn} \cup printed \cup macs \subseteq Nat
    /\ content \in [Table -> SUBSET Id]
    /\ sealed \in [Id -> Nat]
    /\ fts \in [Table -> [schema : {"none", "legacy", "fts5"}, ids : SUBSET Id]]
    /\ {params, done} \subseteq BOOLEAN
    /\ pc \in Booting \cup {"serving", "down"}
    /\ table \in Table
    /\ data \subseteq Id
    /\ conn = IF pc = "close" THEN "rows" ELSE "free"
    /\ interrupted \subseteq Table

\* An empty volume, or one that v0.1.0 has written: salts, token and rows, and
\* an index of the old schema.
EmptyVolume ==
    /\ salt = 0 /\ seed = 0 /\ operator = 0 /\ drawn = 0
    /\ content = [t \in Table |-> {}]
    /\ sealed = [i \in Id |-> 0]
    /\ fts = [t \in Table |-> [schema |-> "none", ids |-> {}]]
    /\ params = FALSE /\ done = FALSE
    /\ macs = {} /\ printed = {}

OldVolume ==
    /\ salt = 1 /\ seed = 2 /\ operator = 3 /\ drawn = 3
    /\ content \in [Table -> SUBSET Id]
    /\ sealed = [i \in Id |-> IF i \in content["secrets"] THEN 1 ELSE 0]
    /\ fts = [t \in Table |-> [schema |-> "legacy", ids |-> content[t]]]
    /\ params = TRUE /\ done = TRUE
    /\ macs = {2} /\ printed = {3}

Init ==
    /\ EmptyVolume \/ OldVolume
    /\ pc = "down"
    /\ kek = 0 /\ table = "secrets" /\ data = {} /\ conn = "free" /\ token = 0
    /\ interrupted = {}

-----------------------------------------------------------------------------
(* LoadOrCreateSalt and Open. *)

Start ==
    /\ pc = "down"
    /\ pc' = "salt"
    /\ UNCHANGED <<disk, memory, printed, drawn, interrupted>>

NoSalt == TRUE   \* mutant: the salt file is not read
SaltMissing == salt = 0

LoadSalt ==
    /\ pc = "salt"
    /\ ~ SaltMissing
    /\ kek' = salt
    /\ pc' = "schema"
    /\ UNCHANGED <<disk, table, data, conn, token, printed, drawn, interrupted>>

\* A crash in the middle leaves a file that is too short, as if absent.
CreateSalt ==
    /\ pc = "salt"
    /\ SaltMissing
    /\ drawn' = drawn + 1
    /\ salt' = drawn + 1
    /\ kek' = drawn + 1
    /\ pc' = "schema"
    /\ UNCHANGED <<content, sealed, fts, seed, params, done, macs, operator,
                   table, data, conn, token, printed, interrupted>>

\* CREATE TABLE IF NOT EXISTS, for tables and indexes.
CreateSchema ==
    /\ pc = "schema"
    /\ fts' = [t \in Table |->
                 IF fts[t].schema = "none" THEN [schema |-> "fts5", ids |-> {}] ELSE fts[t]]
    /\ table' = "secrets"
    /\ pc' = "probe"
    /\ UNCHANGED <<salt, content, sealed, seed, params, done, macs, operator,
                   kek, data, conn, token, printed, drawn, interrupted>>

-----------------------------------------------------------------------------
(* migrateFTS5, for secrets and then for keys. *)

NextTable ==
    \/ table = "secrets" /\ table' = "keys" /\ pc' = "probe"
    \/ table = "keys" /\ pc' = "seed" /\ UNCHANGED table

\* Whether the INSERT of the probe fails on the old schema is up to SQLite.
Probe ==
    /\ pc = "probe"
    /\ \/ NextTable
       \/ fts[table].schema = "legacy" /\ pc' = "drop" /\ UNCHANGED table
    /\ UNCHANGED <<disk, kek, data, conn, token, printed, drawn, interrupted>>

DropIndex ==
    /\ pc = "drop"
    /\ fts' = [fts EXCEPT ![table] = [schema |-> "none", ids |-> {}]]
    /\ pc' = "recreate"
    /\ UNCHANGED <<salt, content, sealed, seed, params, done, macs, operator,
                   memory, printed, drawn, interrupted>>

RecreateIndex ==
    /\ pc = "recreate"
    /\ fts' = [fts EXCEPT ![table].schema = "fts5"]
    /\ pc' = "select"
    /\ UNCHANGED <<salt, content, sealed, seed, params, done, macs, operator,
                   memory, printed, drawn, interrupted>>

IndexedRows(t) == fts[t].ids   \* mutant: reads the index and not the table
SourceRows(t) == content[t]

\* The open rows hold the only connection (SetMaxOpenConns(1)).
SelectRows ==
    /\ pc = "select"
    /\ conn = "free"
    /\ conn' = "rows"
    /\ data' = SourceRows(table)
    /\ pc' = "close"
    /\ UNCHANGED <<disk, kek, table, token, printed, drawn, interrupted>>

StillHeld == "rows"   \* mutant: the rows are still open while it inserts
Released == "free"

CloseRows ==
    /\ pc = "close"
    /\ conn' = Released
    /\ pc' = "reindex"
    /\ UNCHANGED <<disk, kek, table, data, token, printed, drawn, interrupted>>

ReindexRow ==
    /\ pc = "reindex"
    /\ conn = "free"
    /\ \E i \in data :
          /\ fts' = [fts EXCEPT ![table].ids = @ \cup {i}]
          /\ data' = data \ {i}
    /\ UNCHANGED <<salt, content, sealed, seed, params, done, macs, operator,
                   pc, kek, table, conn, token, printed, drawn, interrupted>>

Migrated ==
    /\ pc = "reindex"
    /\ data = {}
    /\ NextTable
    /\ UNCHANGED <<disk, kek, data, conn, token, printed, drawn, interrupted>>

-----------------------------------------------------------------------------
(* The rest of init: meta is seeded when it is empty. *)

MetaEmpty == seed = 0 /\ ~ done

SeedMeta ==
    /\ pc = "seed"
    /\ \/ /\ MetaEmpty
          /\ drawn' = drawn + 1
          /\ seed' = drawn + 1
          /\ pc' = "params"
       \/ ~ MetaEmpty /\ pc' = "fresh" /\ UNCHANGED <<drawn, seed>>
    /\ UNCHANGED <<salt, content, sealed, fts, params, done, macs, operator,
                   memory, printed, interrupted>>

SeedParams ==
    /\ pc = "params"
    /\ params' = TRUE
    /\ pc' = "fresh"
    /\ UNCHANGED <<salt, content, sealed, fts, seed, done, macs, operator,
                   memory, printed, drawn, interrupted>>

-----------------------------------------------------------------------------
(* runServe from IsFresh: the first boot, and serving. *)

IsFresh ==
    /\ pc = "fresh"
    /\ pc' = IF done THEN "serving" ELSE "bootstrap"
    /\ UNCHANGED <<disk, memory, printed, drawn, interrupted>>

Exit == pc' = "down" /\ UNCHANGED <<operator, token, drawn>>

CreateOperatorUnchecked ==   \* mutant: the error of the INSERT is dropped
    /\ pc = "bootstrap"
    /\ drawn' = drawn + 1
    /\ token' = drawn + 1
    /\ operator' = IF operator = 0 THEN drawn + 1 ELSE operator
    /\ pc' = "mark"
    /\ UNCHANGED <<salt, content, sealed, fts, seed, params, done, macs,
                   kek, table, data, conn, printed, interrupted>>
\* The name "primary" is UNIQUE: a second INSERT fails, and serve exits.
CreateOperator ==
    /\ pc = "bootstrap"
    /\ \/ operator # 0 /\ Exit
       \/ /\ operator = 0
          /\ drawn' = drawn + 1
          /\ token' = drawn + 1
          /\ operator' = drawn + 1
          /\ pc' = "mark"
    /\ UNCHANGED <<salt, content, sealed, fts, seed, params, done, macs,
                   kek, table, data, conn, printed, interrupted>>

MarkFirstBootDone ==
    /\ pc = "mark"
    /\ done' = TRUE
    /\ pc' = "print"
    /\ UNCHANGED <<salt, content, sealed, fts, seed, params, macs, operator,
                   memory, printed, drawn, interrupted>>

\* Then Verify, which an empty log passes.
PrintToken ==
    /\ pc = "print"
    /\ printed' = printed \cup {token}
    /\ pc' = "serving"
    /\ UNCHANGED <<disk, memory, drawn, interrupted>>

\* A write of a new row, its index entry and its audit row: SecretStore,
\* KeyAccess and AuditChain have the details.  The DELETE of the sync fails
\* on an index of the old schema.
Write(t, i) ==
    /\ pc = "serving"
    /\ i \notin content[t]
    /\ content' = [content EXCEPT ![t] = @ \cup {i}]
    /\ sealed' = [sealed EXCEPT ![i] = IF t = "secrets" THEN kek ELSE @]
    /\ fts' = [fts EXCEPT ![t].ids = IF fts[t].schema = "fts5" THEN @ \cup {i} ELSE @]
    /\ macs' = macs \cup {seed}
    /\ UNCHANGED <<salt, seed, params, done, operator, pc, memory, printed, drawn,
                   interrupted>>

Crash ==
    /\ pc # "down"
    /\ pc' = "down"
    /\ kek' = 0 /\ table' = "secrets" /\ data' = {} /\ conn' = "free" /\ token' = 0
    /\ interrupted' = interrupted \cup IF pc \in Migrating THEN {table} ELSE {}
    /\ UNCHANGED <<disk, printed, drawn>>

-----------------------------------------------------------------------------
BootStep ==
    \/ LoadSalt \/ CreateSalt \/ CreateSchema
    \/ Probe \/ DropIndex \/ RecreateIndex \/ SelectRows \/ CloseRows \/ ReindexRow \/ Migrated
    \/ SeedMeta \/ SeedParams
    \/ IsFresh \/ CreateOperator \/ MarkFirstBootDone \/ PrintToken

Next ==
    \/ Start
    \/ BootStep
    \/ \E t \in Table, i \in Id : Write(t, i)
    \/ Crash

\* The supervisor restarts the process (restart: unless-stopped), and a
\* process that can execute its next statement does.
Fairness == WF_vars(Start) /\ WF_vars(BootStep)

Spec == Init /\ [][Next]_vars /\ Fairness

-----------------------------------------------------------------------------
(* Properties. *)

\* What was sealed or signed before a restart opens and verifies after it,
\* wherever the process was killed: the keys derived at boot are those every
\* row was written under.
OldRowsStayValid ==
    /\ \A i \in content["secrets"] : sealed[i] = salt
    /\ macs \subseteq {seed}
    /\ pc \notin {"salt", "down"} => kek = salt

\* The operator is never shown a token that is not the one in the database,
\* and a server that answers has an operator, whatever was cut short before.
PrintedTokenWorks ==
    /\ printed \subseteq {operator}
    /\ pc = "serving" => operator # 0

\* "Existing rows are re-indexed from the source tables so search works
\* immediately" (store.go:186): unless a crash cut the migration short, a
\* server with the new index finds every row.
MigrationIndexes ==
    pc = "serving" =>
        \A t \in Table \ interrupted :
            fts[t].schema = "fts5" => fts[t].ids = content[t]

\* A boot never hangs: the server comes up again after the last crash, with a
\* migration too, on the one connection it has; unless the first boot was cut
\* short between CreateOperator and MarkFirstBootDone, when it never does.
HalfBooted == operator # 0 /\ ~ done /\ pc = "down"

ComesUp ==
    <>[][~ Crash]_vars /\ []~ HalfBooted => []<>(pc = "serving")
=============================================================================
