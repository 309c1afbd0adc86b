------------------------------ MODULE Rotation ------------------------------
(***************************************************************************)
(* POST /api/operator/rotate (handleRotateOperator, internal/api/server.go) *)
(* beside the requests of SecretStore: every secret is read, opened with   *)
(* the server's key, sealed under a key derived from the new password and  *)
(* written back, each in statements of its own, and then the operator gets *)
(* a new token.  Server.KEK and the salt file stay what they were.         *)
(*                                                                         *)
(* A failed statement is answered at once, except where the code goes on:  *)
(* a secret that cannot be read is skipped, and so is the new token's      *)
(* UPDATE.  Once the 30 s are over that happens to all that is left.       *)
(***************************************************************************)
EXTENDS SecretStore, Functions

CONSTANTS
    Rot,        \* the rotations that arrive
    Password,
    Master      \* the password the process was started with

\* Argon2id, taken to be injective.  The process derives its key with the salt
\* file, handleRotateOperator with meta's kdf_salt: two random salts.
DeriveKEK(password, salt) == <<password, salt>>
BootKEK(password) == DeriveKEK(password, "salt file")
RotateKEK(password) == DeriveKEK(password, "kdf_salt")

ASSUME RotationAssumption ==
    /\ Master \in Password
    /\ Kek = BootKEK(Master)
    /\ \A p \in Password : {BootKEK(p), RotateKEK(p)} \subseteq Keks
    /\ Nil \notin Keks

VARIABLES
    operator,   \* the token of the operators row; tokens are numbered
    at,         \* per rotation, the statement it executes next
    card,       \* per rotation, the token it presents, later the new one
    newkek,     \* per rotation, the key it derives
    todo,       \* per rotation, the paths it has yet to read
    held,       \* per rotation, the *store.Secret it works on
    told,       \* per rotation, what the client was told
    before,     \* per rotation, the secrets it found (auxiliary)
    disturbed,  \* the rotations in or after which others wrote (auxiliary)
    skipped     \* the rotations with a failure they ignored (auxiliary)

rotating == <<operator, at, card, newkek, todo, held, told>>
asides == <<before, disturbed, skipped>>
rotvars == <<rotating, asides>>
vaultvars == <<vars, rotvars>>

Underway == {"auth", "list", "next", "upsert", "selectid", "sync", "reply"}

RotationTypeOK ==
    /\ TypeOK
    /\ operator \in Nat
    /\ at \in [Rot -> Underway \cup {"idle", "done"}]
    /\ card \in [Rot -> Nat]
    /\ newkek \in [Rot -> Keks \cup {Nil}]
    /\ todo \in [Rot -> SUBSET Path]
    /\ held \in [Rot -> Row \cup {Nil}]
    /\ told \in [Rot -> Replies \cup {"unauthenticated"}]
    /\ \A q \in Rot : at[q] \in {"upsert", "selectid", "sync"} => held[q].ct.kek = newkek[q]

\* The vault after some puts.
Filled ==
    \E paths \in SUBSET Path, v \in Value, d \in Desc :
        /\ IsFiniteSet(paths)
        /\ \E id \in [paths -> 1 .. Cardinality(paths)] :
              /\ IsInjective(id)
              /\ secrets = {SealedRow(id[p], p, v, d, {}, FirstVersion) : p \in paths}
              /\ fts = {EntryOf(x) : x \in secrets}

RotationInit ==
    /\ Filled
    /\ pc = [r \in Req |-> "idle"]
    /\ job = [r \in Req |-> Nil]
    /\ row = [r \in Req |-> Nil]
    /\ reply = [r \in Req |-> "none"]
    /\ operator = 1
    /\ at = [q \in Rot |-> "idle"]
    /\ card = [q \in Rot |-> 0]
    /\ newkek = [q \in Rot |-> Nil]
    /\ todo = [q \in Rot |-> {}]
    /\ held = [q \in Rot |-> Nil]
    /\ told = [q \in Rot |-> "none"]
    /\ before = [q \in Rot |-> Nil]
    /\ disturbed = {}
    /\ skipped = {}

-----------------------------------------------------------------------------
Rotating == {q \in Rot : at[q] \in Underway}

Step(q, label) == at' = [at EXCEPT ![q] = label] /\ UNCHANGED told
Local == <<todo, held>>
Tell(q, status) ==
    /\ at' = [at EXCEPT ![q] = "done"]
    /\ told' = [told EXCEPT ![q] = status]
    /\ todo' = [todo EXCEPT ![q] = {}]
    /\ held' = [held EXCEPT ![q] = Nil]

\* Others have written: every rotation that has begun notes it.
Disturb(others) ==
    disturbed' = IF secrets' = secrets THEN disturbed
                 ELSE disturbed \cup {q \in others : at[q] # "idle"}

\* The client has the current token, and the server will look it up.
RotateArrive(q) ==
    /\ at[q] = "idle"
    /\ \E p \in Password : newkek' = [newkek EXCEPT ![q] = RotateKEK(p)]
    /\ card' = [card EXCEPT ![q] = operator]
    /\ Step(q, "auth")
    /\ UNCHANGED <<vars, operator, todo, held, asides>>

RequireOperator(q) ==
    /\ at[q] = "auth"
    /\ \/ card[q] = operator /\ Step(q, "list") /\ UNCHANGED Local
       \/ card[q] # operator /\ Tell(q, "unauthenticated")
    /\ UNCHANGED <<vars, operator, card, newkek, asides>>

\* With the SELECT of kdf_salt before it, which nothing ever changes.
ListSecretPaths(q) ==
    /\ at[q] = "list"
    /\ todo' = [todo EXCEPT ![q] = {x.path : x \in secrets}]
    /\ before' = [before EXCEPT ![q] = MapOf]
    /\ Step(q, "next")
    /\ UNCHANGED <<vars, operator, card, newkek, held, disturbed, skipped>>

Resalted(x, k) ==   \* mutant: AAD of the next version
    [x EXCEPT !.ct = Seal(k, x.ct.value, AADSecret(x.path, x.desc, x.version + 1))]
UnderOldKey(x, k) ==   \* mutant: sealed with s.KEK
    [x EXCEPT !.ct = Seal(Kek, x.ct.value, AADSecret(x.path, x.desc, x.version))]
Resealed(x, k) ==
    [x EXCEPT !.ct = Seal(k, x.ct.value, AADSecret(x.path, x.desc, x.version))]

Take(q, p) == todo' = [todo EXCEPT ![q] = @ \ {p}]

\* A secret deleted meanwhile is skipped.
RotateSecret(q) ==
    /\ at[q] = "next"
    /\ \E p \in todo[q] :
          \/ RowsAt(p) = {} /\ Take(q, p) /\ Step(q, "next") /\ UNCHANGED held
          \/ \E x \in RowsAt(p) :
                \/ /\ Opens(Kek, x.ct, x.aad)
                   /\ held' = [held EXCEPT ![q] = Resealed(x, newkek[q])]
                   /\ Take(q, p)
                   /\ Step(q, "upsert")
                \/ ~ Opens(Kek, x.ct, x.aad) /\ Tell(q, "decrypt_failed")
    /\ UNCHANGED <<vars, operator, card, newkek, asides>>

SkipSecret(q) ==
    /\ "request" \in Failures
    /\ at[q] = "next"
    /\ \E p \in todo[q] : Take(q, p)
    /\ skipped' = skipped \cup {q}
    /\ UNCHANGED <<vars, operator, at, card, newkek, held, told, before, disturbed>>

\* PutSecret, as in SecretStore.
RotateUpsert(q) ==
    /\ at[q] = "upsert"
    /\ secrets' = Upserted(held[q])
    /\ Disturb(Rot \ {q})
    /\ Step(q, "selectid")
    /\ UNCHANGED <<fts, pc, job, row, reply, operator, card, newkek, todo, held,
                   before, skipped>>

RotateSelectId(q) ==
    /\ at[q] = "selectid"
    /\ \/ RowsAt(held[q].path) = {} /\ Tell(q, "error")
       \/ \E x \in RowsAt(held[q].path) :
             held' = [held EXCEPT ![q].id = x.id] /\ Step(q, "sync") /\ UNCHANGED todo
    /\ UNCHANGED <<vars, operator, card, newkek, asides>>

RotateSyncFTS(q) ==
    /\ at[q] = "sync"
    /\ fts' = Indexed(fts, held[q])
    /\ Step(q, "next")
    /\ UNCHANGED <<secrets, pc, job, row, reply, operator, card, newkek, todo, held, asides>>

\* One more than any token so far.
FreshToken == 1 + Max({operator} \cup {card[q] : q \in Rot})

HashKept(t) == operator   \* mutant: the UPDATE writes the hash it read
HashOf(t) == t

\* GetOperatorByName reads an id that never changes.
UpdateOperatorHash(q) ==
    /\ at[q] = "next"
    /\ todo[q] = {}
    /\ card' = [card EXCEPT ![q] = FreshToken]
    /\ operator' = HashOf(FreshToken)
    /\ Step(q, "reply")
    /\ UNCHANGED <<vars, newkek, todo, held, asides>>

UpdateFails(q) ==
    /\ "request" \in Failures
    /\ at[q] = "next"
    /\ todo[q] = {}
    /\ card' = [card EXCEPT ![q] = FreshToken]
    /\ skipped' = skipped \cup {q}
    /\ Step(q, "reply")
    /\ UNCHANGED <<vars, operator, newkek, todo, held, before, disturbed>>

\* auditAppend and the answer with the token.
RotateReply(q) ==
    /\ at[q] = "reply"
    /\ Tell(q, "ok")
    /\ UNCHANGED <<vars, operator, card, newkek, asides>>

RotateAbort(q) ==
    /\ "request" \in Failures
    /\ at[q] \in Underway \ {"next", "reply"}
    /\ Tell(q, IF at[q] = "auth" THEN "unauthenticated" ELSE "error")
    /\ UNCHANGED <<vars, operator, card, newkek, asides>>

\* The process dies and is started with the same password.
ServerDies ==
    /\ "process" \in Failures
    /\ Active \cup Rotating # {}
    /\ pc' = [r \in Req |-> IF r \in Active THEN "done" ELSE pc[r]]
    /\ reply' = [r \in Req |-> IF r \in Active THEN "lost" ELSE reply[r]]
    /\ at' = [q \in Rot |-> IF q \in Rotating THEN "done" ELSE at[q]]
    /\ told' = [q \in Rot |-> IF q \in Rotating THEN "lost" ELSE told[q]]
    /\ todo' = [q \in Rot |-> {}]
    /\ held' = [q \in Rot |-> Nil]
    /\ UNCHANGED <<table, job, row, operator, card, newkek, asides>>

-----------------------------------------------------------------------------
Rotate(q) ==
    \/ RequireOperator(q) \/ ListSecretPaths(q)
    \/ RotateSecret(q) \/ SkipSecret(q)
    \/ RotateUpsert(q) \/ RotateSelectId(q) \/ RotateSyncFTS(q)
    \/ UpdateOperatorHash(q) \/ UpdateFails(q) \/ RotateReply(q)

Request(r) ==
    /\ Arrive(r) \/ Abort(r) \/ PutUnread(r) \/ Handle(r)
    /\ Disturb(Rot)
    /\ UNCHANGED <<rotating, before, skipped>>

RotationNext ==
    \/ ServerDies
    \/ \E r \in Req : Request(r)
    \/ \E q \in Rot : RotateArrive(q) \/ RotateAbort(q) \/ Rotate(q)

RotationSpec == RotationInit /\ [][RotationNext]_vaultvars

-----------------------------------------------------------------------------
(* Properties. *)

\* However rotations and writes interleave, fail or die, each row's AAD is
\* that of its path, description and version, its ciphertext is bound to it,
\* and its key is the server's or that of a rotation: no row is sealed under a
\* key or a text that nobody can name.
RowsBound ==
    \A x \in secrets :
        /\ x.aad = AADSecret(x.path, x.desc, x.version)
        /\ x.ct.aad = x.aad
        /\ x.ct.kek \in {Kek} \cup {newkek[q] : q \in {p \in Rot : at[p] # "idle"}}

\* A rotation that is answered "ok", with no failure it ignored and nobody
\* else writing meanwhile or since, has sealed every secret under its key and
\* has changed nothing else of them.
RotationComplete ==
    \A q \in Rot \ (disturbed \cup skipped) :
        told[q] = "ok" =>
            /\ \A x \in secrets :
                  Opens(newkek[q], x.ct, AADSecret(x.path, x.desc, x.version))
            /\ MapOf = before[q]

\* The token an answered rotation returns, unless it ignored a failure, is the
\* operator's until another rotation makes a newer one.
TokenWorks ==
    \A q \in Rot \ skipped :
        told[q] = "ok" =>
            operator = card[q] \/ \E p \in Rot : card[p] = operator /\ operator > card[q]

\* operator_audit.go:23: "Rotate the master password and re-encrypt all
\* secrets".  After a rotation that nobody disturbed there is a password with
\* which the server, once started with it, opens every secret.
RotationKeepsVault ==
    \A q \in Rot \ (disturbed \cup skipped) :
        told[q] = "ok" =>
            \E p \in Password : \A x \in secrets :
                Opens(BootKEK(p), x.ct, AADSecret(x.path, x.desc, x.version))
=============================================================================
