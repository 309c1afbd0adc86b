-------------------------- MODULE RotationProofs --------------------------
(***************************************************************************)
(* What holds of Rotation for any vault, any passwords, and any number of  *)
(* rotations and requests that overlap, fail or die with the process.      *)
(***************************************************************************)
EXTENDS Rotation, SecretStoreProofs, FiniteSetTheorems

(***************************************************************************)
(* The inductive invariant for types, keys and tokens.  Of the requests it *)
(* takes over TableInv, which holds under any keys.                        *)
(***************************************************************************)
RotationTypes ==
    /\ operator \in Nat
    /\ at \in [Rot -> Underway \cup {"idle", "done"}]
    /\ card \in [Rot -> Nat]
    /\ newkek \in [Rot -> Keks \cup {Nil}]
    /\ todo \in [Rot -> SUBSET Path]
    /\ held \in [Rot -> Row \cup {Nil}]
    /\ told \in [Rot -> Replies \cup {"unauthenticated"}]

\* A rotation derives its key when it begins and keeps it; only its last step
\* says "ok".
Begun ==
    \A q \in Rot :
        /\ at[q] # "idle" => newkek[q] # Nil
        /\ told[q] = "ok" => at[q] = "done"

\* The secret a rotation writes is bound to its columns, under the new key.
Resealing ==
    \A q \in Rot :
        at[q] \in {"upsert", "selectid", "sync"} =>
            held[q] \in Row /\ Bound(held[q]) /\ held[q].ct.kek = newkek[q]

\* There is a next token, and it is newer than all.
TokensBounded ==
    FreshToken \in Nat /\ operator < FreshToken /\ \A q \in Rot : card[q] < FreshToken

RInv ==
    /\ TableInv /\ RowsBound
    /\ RotationTypes /\ Begun /\ Resealing /\ TokensBounded

-----------------------------------------------------------------------------
\* If the tokens have an upper bound, the next one is newer than all of them.
LEMMA FreshTokenIsNewer ==
    ASSUME NEW op \in Nat, NEW f \in [Rot -> Nat], NEW n \in Nat,
           op <= n, \A q \in Rot : f[q] <= n
    PROVE  LET next == 1 + Max({op} \cup {f[q] : q \in Rot})
           IN  next \in Nat /\ op < next /\ \A q \in Rot : f[q] < next
<1> DEFINE S == {op} \cup {f[q] : q \in Rot}
<1>1. S \in SUBSET Nat /\ S # {} /\ \A i \in S : i <= n
  OBVIOUS
<1>2. Max(S) \in S /\ \A i \in S : Max(S) >= i
  BY <1>1, MaxOfBounded
<1>3. Max(S) \in Nat
  BY <1>1, <1>2
<1>4. Max(S) >= op /\ \A q \in Rot : Max(S) >= f[q] /\ f[q] \in Nat
  BY <1>2
<1> HIDE DEF S
<1>5. 1 + Max(S) \in Nat /\ op < 1 + Max(S) /\ \A q \in Rot : f[q] < 1 + Max(S)
  BY <1>3, <1>4
<1> QED
  BY <1>5 DEF S

\* The tokens stay bounded when no token but the fresh one is given out.
LEMMA TokensStayBounded ==
    ASSUME RInv, RotationTypes', operator' <= FreshToken,
           \A q \in Rot : card'[q] <= FreshToken
    PROVE  TokensBounded'
BY FreshTokenIsNewer DEF RInv, RotationTypes, TokensBounded, FreshToken

\* The vault a rotation finds has been filled by puts.
LEMMA FilledTable ==
    ASSUME Filled
    PROVE  /\ secrets \subseteq Row
           /\ \A x, y \in secrets : x.id = y.id \/ x.path = y.path => x = y
           /\ fts \subseteq IndexEntry
           /\ \A x \in secrets : Sound(x)
           /\ \E n \in Nat : \A x \in secrets : x.id <= n
<1>1. PICK present \in SUBSET Path, v \in Value, d \in Desc :
        /\ IsFiniteSet(present)
        /\ \E id \in [present -> 1 .. Cardinality(present)] :
              /\ IsInjective(id)
              /\ secrets = {SealedRow(id[p], p, v, d, {}, FirstVersion) : p \in present}
              /\ fts = {EntryOf(x) : x \in secrets}
  BY DEF Filled
<1>0. PICK id \in [present -> 1 .. Cardinality(present)] :
        /\ IsInjective(id)
        /\ secrets = {SealedRow(id[p], p, v, d, {}, FirstVersion) : p \in present}
        /\ fts = {EntryOf(x) : x \in secrets}
  BY <1>1
<1>2. Cardinality(present) \in Nat
  BY <1>1, FS_CardinalityType
<1>3. \A p \in present : id[p] \in Nat /\ id[p] <= Cardinality(present)
  BY <1>2
<1>4. ASSUME NEW p \in present
      PROVE  LET x == SealedRow(id[p], p, v, d, {}, FirstVersion)
             IN  x \in Row /\ Sound(x) /\ x.id = id[p] /\ x.path = p
  <2>1. SealedRow(id[p], p, v, d, {}, FirstVersion) \in Row
           /\ Sound(SealedRow(id[p], p, v, d, {}, FirstVersion))
    BY <1>3, SealedRowSound DEF FirstVersion
  <2> QED
    BY <2>1 DEF SealedRow
<1>5. \A x \in secrets : \E p \in present : x = SealedRow(id[p], p, v, d, {}, FirstVersion)
  BY <1>0
<1>6. \A x \in secrets : x \in Row /\ Sound(x) /\ x.id <= Cardinality(present)
  BY <1>3, <1>4, <1>5
<1>7. \A p, q \in present : id[p] = id[q] => p = q
  BY <1>0 DEF IsInjective
<1>8. \A x, y \in secrets : x.id = y.id \/ x.path = y.path => x = y
  BY <1>4, <1>5, <1>7
<1>9. fts \subseteq IndexEntry
  <2>1. \A x \in Row : EntryOf(x) \in IndexEntry
    BY DEF EntryOf, IndexEntry, Row
  <2> QED
    BY <1>0, <1>6, <2>1
<1> QED
  BY <1>2, <1>6, <1>8, <1>9

LEMMA RotationInitInv == RotationInit => RInv
<1> SUFFICES ASSUME RotationInit PROVE RInv
  OBVIOUS
<1>1. TypeOK
  BY FilledTable DEF RotationInit, TypeOK, Replies
<1>2. IdsBounded
  BY FilledTable, FreshId DEF RotationInit, IdsBounded, NextId
<1>3. Held /\ DraftsSound /\ RowsTied
  BY FilledTable DEF RotationInit, Held, DraftsSound, RowsTied, Sound, Running
<1>4. RowsBound
  BY FilledTable DEF RotationInit, RowsBound, Sound, Bound
<1>5. RotationTypes /\ Begun /\ Resealing
  BY DEF RotationInit, RotationTypes, Begun, Resealing, Underway, Replies
<1>6. TokensBounded
  BY <1>5, FreshTokenIsNewer DEF RotationInit, RotationTypes, TokensBounded, FreshToken
<1> QED
  BY <1>1, <1>2, <1>3, <1>4, <1>5, <1>6 DEF RInv, TableInv

-----------------------------------------------------------------------------
(* What the steps do to the table and to the keys it is sealed under.      *)

\* A key that a row may have been sealed under stays one.
LEMMA KeysRemembered ==
    ASSUME RInv, TableInv',
           \A q \in Rot : at[q] # "idle" => at'[q] # "idle" /\ newkek'[q] = newkek[q],
           \A x \in secrets' :
              \/ x \in secrets \/ x.ct.kek = Kek
              \/ \E q \in Rot : at[q] # "idle" /\ x.ct.kek = newkek[q]
    PROVE  RowsBound'
<1>1. \A x \in secrets' : Bound(x)
  BY DEF TableInv, RowsTied
<1>2. \A x \in secrets : x.ct.kek = Kek \/ \E q \in Rot : at[q] # "idle" /\ x.ct.kek = newkek[q]
  BY DEF RInv, RowsBound
<1>3. \A x \in secrets' : x.ct.kek = Kek \/ \E q \in Rot : at'[q] # "idle" /\ x.ct.kek = newkek'[q]
  BY <1>2
<1> QED
  BY <1>1, <1>3 DEF RowsBound, Bound

\* A step of a request leaves the rotations, of a rotation the requests.
LEMMA RequestInv ==
    ASSUME RInv, NEW r \in Req, Request(r)
    PROVE  RInv'
<1>1. Next /\ UNCHANGED rotating
  BY DEF Request, Next
<1>2. TableInv' /\ \A x \in secrets' : x \in secrets \/ x.ct.kek = Kek
  BY <1>1, TableStep, KeysKept DEF RInv
<1>3. RotationTypes' /\ Begun' /\ Resealing' /\ TokensBounded'
  BY <1>1 DEF RInv, rotating, RotationTypes, Begun, Resealing, TokensBounded, FreshToken
<1>4. RowsBound'
  BY <1>1, <1>2, KeysRemembered DEF rotating
<1> QED
  BY <1>2, <1>3, <1>4 DEF RInv

LEMMA ServerDiesInv ==
    ASSUME RInv, ServerDies
    PROVE  RInv'
<1>1. TableInv'
  BY EndInv DEF RInv, ServerDies
<1>2. RotationTypes' /\ Begun' /\ Resealing'
  BY DEF RInv, ServerDies, RotationTypes, Begun, Resealing, Rotating, Underway, Replies
<1>3. TokensBounded'
  BY DEF RInv, ServerDies, TokensBounded, FreshToken
<1>4. RowsBound'
  BY <1>1, KeysRemembered DEF RInv, ServerDies, RotationTypes, Rotating, Underway, table
<1> QED
  BY <1>1, <1>2, <1>3, <1>4 DEF RInv

\* What a step of one rotation has to keep, besides the table.
LEMMA RotationStepInv ==
    ASSUME RInv, NEW q \in Rot, TableInv', RotationTypes', Begun', Resealing',
           \A o \in Rot : at[o] # "idle" => at'[o] # "idle" /\ newkek'[o] = newkek[o],
           \A x \in secrets' : x \in secrets \/ (at[q] # "idle" /\ x.ct.kek = newkek[q]),
           operator' <= FreshToken, \A o \in Rot : card'[o] <= FreshToken
    PROVE  RInv'
<1>1. RowsBound'
  BY KeysRemembered
<1>2. TokensBounded'
  BY TokensStayBounded
<1> QED
  BY <1>1, <1>2 DEF RInv

\* The end of a rotation's handler, whatever it answers.
LEMMA TellInv ==
    ASSUME RInv, NEW q \in Rot, at[q] \in Underway,
           NEW status \in Replies \cup {"unauthenticated"}, Tell(q, status),
           UNCHANGED <<vars, operator, card, newkek>>
    PROVE  RInv'
<1>1. TableInv'
  BY TableStep DEF RInv
<1>2. RotationTypes' /\ Begun' /\ Resealing'
  BY DEF RInv, RotationTypes, Begun, Resealing, Tell, Underway
<1>3. \A o \in Rot : at[o] # "idle" => at'[o] # "idle" /\ newkek'[o] = newkek[o]
  BY DEF Tell, RInv, RotationTypes
<1>4. operator' <= FreshToken /\ \A o \in Rot : card'[o] <= FreshToken
  BY DEF RInv, RotationTypes, TokensBounded
<1> QED
  BY <1>1, <1>2, <1>3, <1>4, RotationStepInv DEF vars

\* A rotation goes on to its next statement with what it holds in hand.
LEMMA GoOnInv ==
    ASSUME RInv, NEW q \in Rot, at[q] \in Underway,
           NEW label \in Underway, Step(q, label),
           todo' \in [Rot -> SUBSET Path], held' \in [Rot -> Row \cup {Nil}],
           \A o \in Rot \ {q} : held'[o] = held[o],
           label \in {"upsert", "selectid", "sync"} =>
               held'[q] \in Row /\ Bound(held'[q]) /\ held'[q].ct.kek = newkek[q],
           UNCHANGED newkek, operator' \in Nat, card' \in [Rot -> Nat],
           operator' <= FreshToken, \A o \in Rot : card'[o] <= FreshToken,
           TableInv', \A x \in secrets' : x \in secrets \/ x.ct.kek = newkek[q]
    PROVE  RInv'
<1>1. RotationTypes'
  BY DEF RInv, RotationTypes, Step
<1>2. Begun'
  BY DEF RInv, RotationTypes, Begun, Step, Underway
<1>3. Resealing'
  BY DEF RInv, RotationTypes, Resealing, Step
<1>4. \A o \in Rot : at[o] # "idle" => at'[o] # "idle" /\ newkek'[o] = newkek[o]
  BY DEF Step, RInv, RotationTypes, Underway
<1>5. at[q] # "idle"
  BY DEF Underway
<1> QED
  BY <1>1, <1>2, <1>3, <1>4, <1>5, RotationStepInv

\* The tokens in use are older than the fresh one.
LEMMA TokensBelow ==
    ASSUME RInv
    PROVE  /\ FreshToken \in Nat /\ operator \in Nat /\ operator <= FreshToken
           /\ card \in [Rot -> Nat] /\ \A o \in Rot : card[o] <= FreshToken
BY DEF RInv, RotationTypes, TokensBounded

LEMMA RotateArriveInv == ASSUME RInv, NEW q \in Rot, RotateArrive(q) PROVE RInv'
<1>1. PICK p \in Password : newkek' = [newkek EXCEPT ![q] = RotateKEK(p)]
  BY DEF RotateArrive
<1>2. RotateKEK(p) \in Keks /\ RotateKEK(p) # Nil
  BY RotationAssumption
<1>3. TableInv' /\ UNCHANGED secrets
  BY TableStep DEF RInv, RotateArrive, vars
<1>4. RotationTypes' /\ Begun' /\ Resealing'
  BY <1>1, <1>2 DEF RInv, RotateArrive, RotationTypes, Begun, Resealing, Step, Underway
<1>5. \A o \in Rot : at[o] # "idle" => at'[o] # "idle" /\ newkek'[o] = newkek[o]
  BY <1>1 DEF RotateArrive, Step, RInv, RotationTypes
<1>6. operator' <= FreshToken /\ \A o \in Rot : card'[o] <= FreshToken
  BY TokensBelow DEF RotateArrive
<1> QED
  BY <1>3, <1>4, <1>5, <1>6, RotationStepInv

LEMMA RequireOperatorInv == ASSUME RInv, NEW q \in Rot, RequireOperator(q) PROVE RInv'
<1>1. at[q] \in Underway /\ UNCHANGED <<vars, operator, card, newkek>>
  BY DEF RequireOperator, Underway
<1>2. CASE Step(q, "list") /\ UNCHANGED Local
  <2>1. TableInv'
    BY <1>1, TableStep DEF RInv
  <2> QED
    BY <1>1, <1>2, <2>1, GoOnInv, TokensBelow DEF Local, RInv, RotationTypes, Underway, vars
<1>3. CASE Tell(q, "unauthenticated")
  BY <1>1, <1>3, TellInv
<1> QED
  BY <1>2, <1>3 DEF RequireOperator

LEMMA ListSecretPathsInv == ASSUME RInv, NEW q \in Rot, ListSecretPaths(q) PROVE RInv'
<1>1. at[q] \in Underway /\ UNCHANGED <<vars, operator, card, newkek, held>>
  BY DEF ListSecretPaths, Underway
<1>2. {x.path : x \in secrets} \subseteq Path
  BY DEF RInv, TableInv, TypeOK, Row
<1>3. todo' \in [Rot -> SUBSET Path]
  BY <1>2 DEF ListSecretPaths, RInv, RotationTypes
<1>4. TableInv'
  BY <1>1, TableStep DEF RInv
<1> QED
  BY <1>1, <1>3, <1>4, GoOnInv, TokensBelow
     DEF ListSecretPaths, RInv, RotationTypes, Underway, vars

\* Resealing binds a row to its columns, under the new key.
LEMMA ResealedRow ==
    ASSUME NEW x \in Row, Bound(x), NEW k \in Keks
    PROVE  /\ Resealed(x, k) \in Row /\ Bound(Resealed(x, k))
           /\ Resealed(x, k).ct.kek = k /\ Resealed(x, k).path = x.path
           /\ Resealed(x, k).id = x.id /\ Content(Resealed(x, k)) = Content(x)
BY DEF Row, Sealed, AAD, Bound, Seal, AADSecret, Resealed, Content

LEMMA RotateSecretInv == ASSUME RInv, NEW q \in Rot, RotateSecret(q) PROVE RInv'
<1>1. at[q] \in Underway /\ UNCHANGED <<vars, operator, card, newkek>>
  BY DEF RotateSecret, Underway
<1>2. TableInv' /\ newkek[q] \in Keks /\ UNCHANGED secrets
  BY <1>1, TableStep DEF RInv, Begun, Underway, RotationTypes, vars
<1>3. PICK p \in todo[q] :
          \/ RowsAt(p) = {} /\ Take(q, p) /\ Step(q, "next") /\ UNCHANGED held
          \/ \E x \in RowsAt(p) :
                \/ /\ Opens(Kek, x.ct, x.aad)
                   /\ held' = [held EXCEPT ![q] = Resealed(x, newkek[q])]
                   /\ Take(q, p)
                   /\ Step(q, "upsert")
                \/ ~ Opens(Kek, x.ct, x.aad) /\ Tell(q, "decrypt_failed")
  BY DEF RotateSecret
<1>4. Take(q, p) => todo' \in [Rot -> SUBSET Path]
  BY DEF Take, RInv, RotationTypes
<1>5. CASE RowsAt(p) = {} /\ Take(q, p) /\ Step(q, "next") /\ UNCHANGED held
  BY <1>1, <1>2, <1>4, <1>5, GoOnInv, TokensBelow DEF RInv, RotationTypes, Underway
<1>6. ASSUME NEW x \in RowsAt(p),
             held' = [held EXCEPT ![q] = Resealed(x, newkek[q])], Take(q, p), Step(q, "upsert")
      PROVE  RInv'
  <2>1. /\ Resealed(x, newkek[q]) \in Row /\ Bound(Resealed(x, newkek[q]))
        /\ Resealed(x, newkek[q]).ct.kek = newkek[q]
    BY <1>2, StoredRow, ResealedRow DEF RInv
  <2>2. /\ held' \in [Rot -> Row \cup {Nil}] /\ held'[q] = Resealed(x, newkek[q])
        /\ \A o \in Rot \ {q} : held'[o] = held[o]
    BY <1>6, <2>1 DEF RInv, RotationTypes
  <2> QED
    BY <1>1, <1>2, <1>4, <1>6, <2>1, <2>2, GoOnInv, TokensBelow DEF Underway
<1>7. CASE Tell(q, "decrypt_failed")
  BY <1>1, <1>7, TellInv DEF Replies
<1> QED
  BY <1>3, <1>5, <1>6, <1>7

LEMMA SkipSecretInv == ASSUME RInv, NEW q \in Rot, SkipSecret(q) PROVE RInv'
<1>1. UNCHANGED <<vars, operator, at, card, newkek, held, told>>
  BY DEF SkipSecret
<1>2. todo' \in [Rot -> SUBSET Path]
  BY DEF SkipSecret, Take, RInv, RotationTypes
<1>3. RotationTypes' /\ Begun' /\ Resealing' /\ TokensBounded' /\ RowsBound'
  BY <1>1, <1>2
     DEF RInv, RotationTypes, Begun, Resealing, TokensBounded, FreshToken, RowsBound, vars
<1>4. TableInv'
  BY <1>1, TableStep DEF RInv
<1> QED
  BY <1>3, <1>4 DEF RInv

LEMMA RotateUpsertInv == ASSUME RInv, NEW q \in Rot, RotateUpsert(q) PROVE RInv'
<1>1. held[q] \in Row /\ Bound(held[q]) /\ held[q].ct.kek = newkek[q]
  BY DEF RInv, Resealing, RotateUpsert
<1>2. TableInv'
  <2>1. secrets' = Upserted(held[q]) /\ UNCHANGED <<fts, pc, job, row, reply>>
    BY DEF RotateUpsert
  <2>2. pc' \in [Req -> Running \cup {"idle", "done"}] /\ Held' /\ DraftsSound'
    BY <2>1 DEF RInv, TableInv, TypeOK, Held, DraftsSound
  <2> QED
    BY <1>1, <2>1, <2>2, UpsertedTable, WriteInv DEF RInv
<1>3. \A x \in secrets' : x \in secrets \/ x.ct.kek = newkek[q]
  <2>1. PICK i \in Nat : secrets' = {x \in secrets : x.path # held[q].path}
                                        \cup {[held[q] EXCEPT !.id = i]}
    BY <1>1, UpsertedRow DEF RotateUpsert, RInv
  <2>2. [held[q] EXCEPT !.id = i].ct.kek = newkek[q]
    BY <1>1 DEF Row
  <2> QED
    BY <2>1, <2>2
<1> QED
  BY <1>1, <1>2, <1>3, GoOnInv, TokensBelow DEF RotateUpsert, RInv, RotationTypes, Underway

LEMMA RotateSelectIdInv == ASSUME RInv, NEW q \in Rot, RotateSelectId(q) PROVE RInv'
<1>1. at[q] \in Underway /\ UNCHANGED <<vars, operator, card, newkek>>
  BY DEF RotateSelectId, Underway
<1>2. CASE Tell(q, "error")
  BY <1>1, <1>2, TellInv DEF Replies
<1>3. ASSUME NEW x \in RowsAt(held[q].path),
             held' = [held EXCEPT ![q].id = x.id], Step(q, "sync"), UNCHANGED todo
      PROVE  RInv'
  <2>1. held[q] \in Row /\ Bound(held[q]) /\ held[q].ct.kek = newkek[q]
    BY DEF RInv, Resealing, RotateSelectId
  <2>2. x.id \in Nat
    BY StoredRow DEF RInv, Row
  <2>3. /\ held' \in [Rot -> Row \cup {Nil}]
        /\ held'[q] \in Row /\ Bound(held'[q]) /\ held'[q].ct.kek = newkek[q]
        /\ \A o \in Rot \ {q} : held'[o] = held[o]
    BY <1>3, <2>1, <2>2 DEF RInv, RotationTypes, Row, Bound
  <2>4. TableInv'
    BY <1>1, TableStep DEF RInv
  <2> QED
    BY <1>1, <1>3, <2>3, <2>4, GoOnInv, TokensBelow DEF RInv, RotationTypes, Underway, vars
<1> QED
  BY <1>2, <1>3 DEF RotateSelectId

LEMMA RotateSyncFTSInv == ASSUME RInv, NEW q \in Rot, RotateSyncFTS(q) PROVE RInv'
<1>1. at[q] \in Underway /\ Step(q, "next")
         /\ UNCHANGED <<secrets, pc, job, row, reply, operator, card, newkek, todo, held>>
  BY DEF RotateSyncFTS, Underway
<1>2. fts' \subseteq IndexEntry
  <2>1. held[q] \in Row
    BY DEF RInv, Resealing, RotateSyncFTS
  <2> QED
    BY <2>1 DEF RInv, TableInv, TypeOK, RotateSyncFTS, Indexed, EntryOf, IndexEntry, Row
<1>3. TableInv'
  BY <1>1, <1>2 DEF RInv, TableInv, TypeOK, IdsBounded, NextId, Held, RowsTied, DraftsSound
<1> QED
  BY <1>1, <1>3, GoOnInv, TokensBelow DEF RInv, RotationTypes, Underway

LEMMA NewTokenInv ==
    ASSUME RInv, NEW q \in Rot, UpdateOperatorHash(q) \/ UpdateFails(q)
    PROVE  RInv'
<1>1. /\ at[q] \in Underway /\ Step(q, "reply") /\ card' = [card EXCEPT ![q] = FreshToken]
      /\ operator' \in {operator, FreshToken} /\ UNCHANGED <<vars, newkek, todo, held>>
  BY DEF UpdateOperatorHash, UpdateFails, HashOf, Underway
<1>2. TableInv'
  BY <1>1, TableStep DEF RInv
<1>3. /\ operator' \in Nat /\ operator' <= FreshToken
      /\ card' \in [Rot -> Nat] /\ \A o \in Rot : card'[o] <= FreshToken
  BY <1>1, TokensBelow
<1> QED
  BY <1>1, <1>2, <1>3, GoOnInv DEF RInv, RotationTypes, Underway, vars

LEMMA EndsInv ==
    ASSUME RInv, NEW q \in Rot, RotateReply(q) \/ RotateAbort(q)
    PROVE  RInv'
<1>1. at[q] \in Underway /\ UNCHANGED <<vars, operator, card, newkek>>
  BY DEF RotateReply, RotateAbort, Underway
<1>2. PICK status \in {"ok", "error", "unauthenticated"} : Tell(q, status)
  BY DEF RotateReply, RotateAbort
<1> QED
  BY <1>1, <1>2, TellInv DEF Replies

LEMMA RotationStep == ASSUME RInv, [RotationNext]_vaultvars PROVE RInv'
<1>1. CASE UNCHANGED vaultvars
  <2>1. TableInv'
    BY <1>1, TableStep DEF RInv, vaultvars
  <2> QED
    BY <1>1, <2>1 DEF vaultvars, rotvars, rotating, vars, RInv, RowsBound, RotationTypes, Begun,
       Resealing, TokensBounded, FreshToken
<1>2. CASE ServerDies
  BY <1>2, ServerDiesInv
<1>3. ASSUME NEW r \in Req, Request(r) PROVE RInv'
  BY <1>3, RequestInv
<1>4. ASSUME NEW q \in Rot, RotateArrive(q) \/ RotateAbort(q) \/ Rotate(q) PROVE RInv'
  BY <1>4, RotateArriveInv, RequireOperatorInv, ListSecretPathsInv, RotateSecretInv,
     SkipSecretInv, RotateUpsertInv, RotateSelectIdInv, RotateSyncFTSInv, NewTokenInv, EndsInv
     DEF Rotate
<1> QED
  BY <1>1, <1>2, <1>3, <1>4 DEF RotationNext

-----------------------------------------------------------------------------
\* The strengthened invariant holds in every reachable state.
THEOREM RotationInvariance == RotationSpec => []RInv
<1>1. RInv /\ [RotationNext]_vaultvars => RInv'
  BY RotationStep
<1> QED
  BY <1>1, RotationInitInv, PTL DEF RotationSpec

\* The vault and the rotations stay well typed, and a rotation writes no
\* secret that is not under its own key.
THEOREM RotationTypeCorrect == RotationSpec => []RotationTypeOK
<1>1. RInv => RotationTypeOK
  BY DEF RInv, TableInv, RotationTypes, Resealing, RotationTypeOK
<1> QED
  BY <1>1, RotationInvariance, PTL

\* However many rotations and writes overlap, fail or die, each row is bound to
\* its own columns, under the server's key or that of a rotation that began.
THEOREM RowsStayBound == RotationSpec => []RowsBound
BY RotationInvariance, PTL DEF RInv

-----------------------------------------------------------------------------
(* The token.  The operator's is the one at the start or that of a         *)
(* rotation that got as far as its answer, and no answered rotation has a  *)
(* newer one; a rotation whose UPDATE failed has, so it does not count.    *)

Answered(q) == at[q] = "reply" \/ told[q] = "ok"

TokenInForce ==
    /\ operator = 1 \/ \E p \in Rot : at[p] \in {"reply", "done"} /\ card[p] = operator
    /\ \A q \in Rot \ skipped : Answered(q) => 1 <= card[q] /\ card[q] <= operator

\* Only the last UPDATE of a rotation changes tokens.
LEMMA TokenKept ==
    ASSUME RInv, TokenInForce, UNCHANGED operator, skipped \subseteq skipped',
           \A q \in Rot : at[q] \in {"reply", "done"} =>
               at'[q] \in {"reply", "done"} /\ card'[q] = card[q],
           \A q \in Rot \ skipped' : Answered(q)' => Answered(q)
    PROVE  TokenInForce'
BY DEF RInv, Begun, TokenInForce, Answered

LEMMA UpdateOperatorHashToken ==
    ASSUME RInv, TokenInForce, NEW q \in Rot, UpdateOperatorHash(q)
    PROVE  TokenInForce'
<1>1. /\ operator' = FreshToken /\ card' = [card EXCEPT ![q] = FreshToken]
      /\ at' = [at EXCEPT ![q] = "reply"] /\ UNCHANGED <<told, skipped>>
  BY DEF UpdateOperatorHash, HashOf, Step, asides
<1>2. operator \in Nat /\ FreshToken \in Nat /\ operator < FreshToken
  BY DEF RInv, TokensBounded, RotationTypes
<1>3. at \in [Rot -> Underway \cup {"idle", "done"}] /\ card \in [Rot -> Nat]
  BY DEF RInv, RotationTypes
<1>4. at'[q] \in {"reply", "done"} /\ card'[q] = operator'
  BY <1>1, <1>3
<1>5. ASSUME NEW o \in Rot \ skipped', Answered(o)'
      PROVE  1 <= card'[o] /\ card'[o] <= operator'
  <2>1. CASE o = q
    BY <1>1, <1>2, <1>4, <2>1
  <2>2. CASE o # q
    <3>1. Answered(o) /\ card'[o] = card[o] /\ card[o] \in Nat
      BY <1>1, <1>3, <1>5, <2>2 DEF Answered
    <3> QED
      BY <1>1, <1>2, <1>5, <3>1 DEF TokenInForce
  <2> QED
    BY <2>1, <2>2
<1> QED
  BY <1>4, <1>5 DEF TokenInForce

LEMMA UpdateFailsToken ==
    ASSUME RInv, TokenInForce, NEW q \in Rot, UpdateFails(q)
    PROVE  TokenInForce'
BY TokenKept DEF UpdateFails, Step, RInv, RotationTypes, Answered

LEMMA ServerDiesToken ==
    ASSUME RInv, TokenInForce, ServerDies
    PROVE  TokenInForce'
<1>1. \A q \in Rot : Answered(q)' => Answered(q)
  BY DEF ServerDies, Answered, Rotating, RInv, RotationTypes
<1>2. UNCHANGED <<operator, card, skipped>>
  BY DEF ServerDies, asides
<1>3. \A q \in Rot : at[q] \in {"reply", "done"} => at'[q] \in {"reply", "done"}
  BY DEF ServerDies, RInv, RotationTypes
<1> QED
  BY <1>1, <1>2, <1>3, TokenKept

LEMMA TokenStep ==
    ASSUME RInv, TokenInForce, [RotationNext]_vaultvars
    PROVE  TokenInForce'
<1>1. CASE UNCHANGED vaultvars \/ \E r \in Req : Request(r)
  BY <1>1, TokenKept DEF vaultvars, rotvars, rotating, asides, Request, Answered
<1>2. ASSUME NEW q \in Rot,
             RotateArrive(q) \/ RotateUpsert(q) \/ RotateSyncFTS(q)
                \/ ListSecretPaths(q) \/ SkipSecret(q)
      PROVE  TokenInForce'
  <2>1. /\ UNCHANGED <<operator, told>> /\ skipped \subseteq skipped'
        /\ \A o \in Rot \ {q} : at'[o] = at[o] /\ card'[o] = card[o]
        /\ at[q] \notin {"reply", "done"} /\ at'[q] # "reply"
    BY <1>2 DEF RotateArrive, RotateUpsert, RotateSyncFTS, ListSecretPaths, SkipSecret, Step, asides,
       RInv, RotationTypes, Underway
  <2> QED
    BY <2>1, TokenKept DEF Answered
<1>3. ASSUME NEW q \in Rot,
             RequireOperator(q) \/ RotateSecret(q) \/ RotateSelectId(q) \/ RotateAbort(q)
      PROVE  TokenInForce'
  <2>1. UNCHANGED <<operator, card, skipped>> /\ at[q] \notin {"reply", "done"}
    BY <1>3 DEF RequireOperator, RotateSecret, RotateSelectId, RotateAbort, asides, Underway
  <2>2. PICK label \in Underway \cup {"done"} :
           /\ label # "reply" /\ at' = [at EXCEPT ![q] = label]
           /\ told' = told \/ \E status \in Replies \cup {"unauthenticated"} :
                                 status # "ok" /\ told' = [told EXCEPT ![q] = status]
    BY <1>3 DEF RequireOperator, RotateSecret, RotateSelectId, RotateAbort, Step, Tell, Underway, Replies
  <2>3. \A o \in Rot : Answered(o)' => Answered(o)
    BY <2>2 DEF Answered, RInv, RotationTypes
  <2> QED
    BY <2>1, <2>2, <2>3, TokenKept DEF RInv, RotationTypes
<1>4. ASSUME NEW q \in Rot, RotateReply(q) PROVE TokenInForce'
  BY <1>4, TokenKept DEF RotateReply, Tell, asides, Answered, RInv, RotationTypes
<1> QED
  BY <1>1, <1>2, <1>3, <1>4, ServerDiesToken, UpdateOperatorHashToken, UpdateFailsToken
     DEF RotationNext, Rotate

\* The token an answered rotation returns is the operator's until another
\* rotation makes a newer one, whatever overlaps, fails or dies.
THEOREM NewTokenWorks == RotationSpec => []TokenWorks
<1>1. RotationInit => TokenInForce
  BY DEF RotationInit, TokenInForce, Answered
<1>2. RInv /\ TokenInForce /\ [RotationNext]_vaultvars => TokenInForce'
  BY TokenStep
<1>3. RInv /\ TokenInForce => TokenWorks
  BY DEF RInv, RotationTypes, TokenInForce, TokenWorks, Answered
<1> QED
  BY <1>1, <1>2, <1>3, RotationInvariance, PTL DEF RotationSpec

-----------------------------------------------------------------------------
(* A complete rotation.  From its list on, one that nobody disturbs finds  *)
(* the secrets as they were, and each is under the new key, on its list    *)
(* still, or the one in its hand.                                          *)

Whole(q) ==
    at[q] \in {"next", "upsert", "selectid", "sync", "reply"} \/ told[q] = "ok" =>
        /\ MapOf = before[q]
        /\ \A x \in secrets :
              \/ x.path \in todo[q] \/ x.ct.kek = newkek[q]
              \/ at[q] = "upsert" /\ x.path = held[q].path
        /\ at[q] = "upsert" => \E x \in secrets : held[q] = Resealed(x, newkek[q])
        /\ Answered(q) => todo[q] = {}

AllWhole ==
    /\ DOMAIN before = Rot
    /\ \A q \in Rot \ (disturbed \cup skipped) : Whole(q)

LEMMA MapKept == ASSUME UNCHANGED secrets PROVE MapOf' = MapOf
BY DEF MapOf, RowsAt, Content

\* A step of q, or of nobody, leaves the other rotations whole, if it disturbs
\* all others when it writes the table.
LEMMA OthersWhole ==
    ASSUME RInv, AllWhole, NEW others \in SUBSET Rot, Disturb(others), skipped \subseteq skipped',
           \A o \in others : at'[o] = at[o] /\ told'[o] = told[o] /\ newkek'[o] = newkek[o]
                             /\ todo'[o] = todo[o] /\ held'[o] = held[o] /\ before'[o] = before[o],
           NEW o \in others \ (disturbed' \cup skipped')
    PROVE  Whole(o)'
<1>1. o \notin disturbed \cup skipped
  BY DEF Disturb
<1>2. CASE secrets' = secrets
  <2>1. Whole(o) /\ MapOf' = MapOf
    BY <1>1, <1>2, MapKept DEF AllWhole
  <2>2. /\ at'[o] = at[o] /\ told'[o] = told[o] /\ newkek'[o] = newkek[o]
        /\ todo'[o] = todo[o] /\ held'[o] = held[o] /\ before'[o] = before[o]
    OBVIOUS
  <2>3. (\E x \in secrets : held[o] = Resealed(x, newkek[o])) =>
            (\E x \in secrets : held[o] = Resealed(x, newkek[o]))'
    BY <1>2, <2>2 DEF Resealed, Seal, AADSecret
  <2> QED
    BY <1>2, <2>1, <2>2, <2>3 DEF Whole, Answered
<1>3. CASE secrets' # secrets
  BY <1>3 DEF Disturb, RInv, Begun, Whole
<1> QED
  BY <1>2, <1>3

\* A write of the same content to the path leaves the map as it is.
LEMMA SameContent ==
    ASSUME TableInv, NEW new \in Row, NEW x \in secrets, x.path = new.path,
           Content(x) = Content(new), secrets' = Upserted(new)
    PROVE  MapOf' = MapOf
<1>1. PICK i \in Nat : Upserted(new) = {z \in secrets : z.path # new.path} \cup {[new EXCEPT !.id = i]}
  BY UpsertedRow
<1> DEFINE y == [new EXCEPT !.id = i]
<1>2. y.path = new.path /\ Content(y) = Content(new)
  BY DEF Row, Content
<1>3. secrets' = {z \in secrets : z.path # new.path} \cup {y}
  BY <1>1
<1> HIDE DEF y
<1>4. RowsAt(new.path) = {x} /\ RowsAt(new.path)' = {y}
  BY <1>2, <1>3 DEF TableInv, TypeOK, RowsAt
<1>5. ASSUME NEW p \in Path
      PROVE  (IF RowsAt(p)' = {} THEN Nil ELSE Content(CHOOSE z \in RowsAt(p)' : TRUE))
               = (IF RowsAt(p) = {} THEN Nil ELSE Content(CHOOSE z \in RowsAt(p) : TRUE))
  <2>1. CASE p = new.path
    <3>1. (CHOOSE z \in {x} : TRUE) = x /\ (CHOOSE z \in {y} : TRUE) = y
      OBVIOUS
    <3> QED
      BY <1>2, <1>4, <2>1, <3>1
  <2>2. CASE p # new.path
    <3>1. RowsAt(p)' = RowsAt(p)
      BY <1>2, <1>3, <2>2 DEF RowsAt
    <3> QED
      BY <3>1
  <2> QED
    BY <2>1, <2>2
<1> QED
  BY <1>5 DEF MapOf, Content

LEMMA UpsertWhole ==
    ASSUME RInv, NEW q \in Rot, Whole(q), RotateUpsert(q)
    PROVE  Whole(q)'
<1>1. PICK x \in secrets : held[q] = Resealed(x, newkek[q])
  BY DEF Whole, RotateUpsert
<1>2. x \in Row /\ Bound(x) /\ newkek[q] \in Keks /\ held[q] \in Row /\ held[q].ct.kek = newkek[q]
  BY DEF RInv, TableInv, TypeOK, RowsTied, RotationTypes, Begun, Resealing, RotateUpsert
<1>3. x.path = held[q].path /\ Content(x) = Content(held[q])
  BY <1>1, <1>2, ResealedRow
<1>4. MapOf' = MapOf
  BY <1>2, <1>3, SameContent DEF RInv, RotateUpsert
<1>5. \A z \in secrets' : z.ct.kek = newkek[q] \/ (z \in secrets /\ z.path # held[q].path)
  <2>1. PICK i \in Nat : secrets' = {z \in secrets : z.path # held[q].path}
                                        \cup {[held[q] EXCEPT !.id = i]}
    BY <1>2, UpsertedRow DEF RotateUpsert, RInv
  <2>2. [held[q] EXCEPT !.id = i].ct.kek = newkek[q]
    BY <1>2 DEF Row
  <2> QED
    BY <2>1, <2>2
<1>6. at[q] = "upsert" /\ at'[q] = "selectid" /\ told'[q] # "ok"
         /\ UNCHANGED <<newkek, todo, held, before>>
  BY DEF RotateUpsert, Step, RInv, RotationTypes, Begun
<1>7. MapOf = before[q] /\ \A z \in secrets :
         z.path \in todo[q] \/ z.ct.kek = newkek[q] \/ z.path = held[q].path
  BY <1>6 DEF Whole
<1>8. \A z \in secrets' : z.path \in todo[q] \/ z.ct.kek = newkek[q]
  BY <1>5, <1>7
<1> QED
  BY <1>4, <1>6, <1>7, <1>8 DEF Whole, Answered

LEMMA RotateSecretWhole ==
    ASSUME RInv, NEW q \in Rot, Whole(q), RotateSecret(q)
    PROVE  Whole(q)'
<1>1. at[q] = "next" /\ UNCHANGED <<secrets, newkek, before>> /\ told[q] # "ok" /\ MapOf' = MapOf
  BY MapKept DEF RotateSecret, vars, asides, RInv, Begun
<1>2. /\ at \in [Rot -> Underway \cup {"idle", "done"}] /\ todo \in [Rot -> SUBSET Path]
      /\ held \in [Rot -> Row \cup {Nil}] /\ told \in [Rot -> Replies \cup {"unauthenticated"}]
  BY DEF RInv, RotationTypes
<1>3. MapOf = before[q] /\ \A x \in secrets : x.path \in todo[q] \/ x.ct.kek = newkek[q]
  BY <1>1 DEF Whole
<1>4. PICK p \in todo[q] :
          \/ RowsAt(p) = {} /\ Take(q, p) /\ Step(q, "next") /\ UNCHANGED held
          \/ \E x \in RowsAt(p) :
                \/ /\ Opens(Kek, x.ct, x.aad)
                   /\ held' = [held EXCEPT ![q] = Resealed(x, newkek[q])]
                   /\ Take(q, p)
                   /\ Step(q, "upsert")
                \/ ~ Opens(Kek, x.ct, x.aad) /\ Tell(q, "decrypt_failed")
  BY DEF RotateSecret
<1>5. CASE RowsAt(p) = {} /\ Take(q, p) /\ Step(q, "next") /\ UNCHANGED held
  <2>1. \A x \in secrets : x.path # p
    BY <1>5 DEF RowsAt
  <2>2. at'[q] = "next" /\ told'[q] # "ok" /\ todo'[q] = todo[q] \ {p}
    BY <1>1, <1>2, <1>5 DEF Take, Step
  <2> QED
    BY <1>1, <1>3, <2>1, <2>2 DEF Whole, Answered
<1>6. ASSUME NEW x \in RowsAt(p),
             held' = [held EXCEPT ![q] = Resealed(x, newkek[q])], Take(q, p), Step(q, "upsert")
      PROVE  Whole(q)'
  <2>1. x \in secrets /\ x.path = p
    BY DEF RowsAt
  <2>2. Resealed(x, newkek[q]).path = p
    BY <2>1, StoredRow, ResealedRow, <1>1 DEF RInv, RotationTypes, Begun
  <2>3. /\ at'[q] = "upsert" /\ told'[q] # "ok" /\ todo'[q] = todo[q] \ {p}
        /\ held'[q] = Resealed(x, newkek[q])
    BY <1>1, <1>2, <1>6 DEF Take, Step
  <2>4. \A z \in secrets' : z.path \in todo'[q] \/ z.ct.kek = newkek'[q] \/ z.path = held'[q].path
    BY <1>1, <1>3, <2>2, <2>3
  <2>5. \E z \in secrets' : held'[q] = Resealed(z, newkek[q])'
    BY <1>1, <2>1, <2>3 DEF Resealed, Seal, AADSecret
  <2> QED
    BY <1>1, <1>3, <2>3, <2>4, <2>5 DEF Whole, Answered
<1>7. CASE Tell(q, "decrypt_failed")
  BY <1>2, <1>7 DEF Tell, Whole
<1> QED
  BY <1>4, <1>5, <1>6, <1>7

\* The other statements of a rotation leave the table alone.
LEMMA QuietWhole ==
    ASSUME RInv, NEW q \in Rot, Whole(q), DOMAIN before = Rot,
           \/ RotateArrive(q) \/ RequireOperator(q) \/ ListSecretPaths(q)
           \/ RotateSelectId(q) \/ RotateSyncFTS(q) \/ UpdateOperatorHash(q)
           \/ RotateReply(q) \/ RotateAbort(q)
    PROVE  Whole(q)'
<1>1. MapOf' = MapOf /\ secrets' = secrets
  BY MapKept DEF RotateArrive, RequireOperator, ListSecretPaths, RotateSelectId, RotateSyncFTS,
     UpdateOperatorHash, RotateReply, RotateAbort, vars
<1>2. /\ at \in [Rot -> Underway \cup {"idle", "done"}] /\ todo \in [Rot -> SUBSET Path]
      /\ told \in [Rot -> Replies \cup {"unauthenticated"}]
      /\ DOMAIN before = Rot
      /\ told[q] = "ok" => at[q] = "done"
  BY DEF RInv, RotationTypes, Begun
<1>3. CASE RotateArrive(q) \/ RequireOperator(q) \/ RotateAbort(q)
  <2>1. at'[q] \in {"auth", "list", "done"} /\ told'[q] # "ok"
    BY <1>2, <1>3 DEF RotateArrive, RequireOperator, RotateAbort, Step, Tell, Underway
  <2> QED
    BY <2>1 DEF Whole
<1>4. CASE ListSecretPaths(q)
  <2>1. /\ at'[q] = "next" /\ told'[q] # "ok" /\ before'[q] = MapOf
        /\ \A x \in secrets : x.path \in todo'[q]
    BY <1>2, <1>4 DEF ListSecretPaths, Step
  <2> QED
    BY <1>1, <2>1 DEF Whole, Answered
<1>5. CASE RotateSelectId(q) \/ RotateSyncFTS(q)
  <2>1. /\ UNCHANGED <<newkek, before>>
        /\ at[q] \in {"selectid", "sync"} /\ told[q] # "ok"
        /\ \/ told'[q] # "ok" /\ at'[q] = "done"
           \/ told'[q] # "ok" /\ at'[q] \in {"sync", "next"} /\ todo' = todo
    BY <1>2, <1>5 DEF RotateSelectId, RotateSyncFTS, Step, Tell, asides
  <2> QED
    BY <1>1, <2>1 DEF Whole, Answered
<1>6. CASE UpdateOperatorHash(q)
  <2>1. /\ UNCHANGED <<newkek, before, todo>> /\ at[q] = "next" /\ todo[q] = {}
        /\ at'[q] = "reply"
    BY <1>2, <1>6 DEF UpdateOperatorHash, Step, asides
  <2> QED
    BY <1>1, <2>1 DEF Whole, Answered
<1>7. CASE RotateReply(q)
  <2>1. /\ UNCHANGED <<newkek, before>> /\ at[q] = "reply" /\ todo[q] = {}
        /\ at'[q] = "done" /\ todo'[q] = {}
    BY <1>2, <1>7 DEF RotateReply, Tell, asides, Whole, Answered
  <2> QED
    BY <1>1, <2>1 DEF Whole, Answered
<1> QED
  BY <1>3, <1>4, <1>5, <1>6, <1>7

\* What a statement of q leaves alone.
LEMMA Apart ==
    ASSUME RInv, NEW q \in Rot, RotateArrive(q) \/ RotateAbort(q) \/ Rotate(q)
    PROVE  /\ Disturb(Rot \ {q})
           /\ skipped' = skipped \/ skipped' = skipped \cup {q}
           /\ DOMAIN before' = DOMAIN before
           /\ \A o \in Rot \ {q} :
                 /\ at'[o] = at[o] /\ told'[o] = told[o] /\ newkek'[o] = newkek[o]
                 /\ todo'[o] = todo[o] /\ held'[o] = held[o] /\ before'[o] = before[o]
<1> USE DEF asides, Step, Tell, Local, Disturb, RInv, RotationTypes
<1>1. CASE RotateArrive(q) \/ RotateAbort(q) \/ RequireOperator(q) \/ RotateReply(q)
  BY <1>1 DEF RotateArrive, RotateAbort, RequireOperator, RotateReply, vars
<1>2. CASE ListSecretPaths(q)
  BY <1>2 DEF ListSecretPaths, vars
<1>7. CASE SkipSecret(q)
  BY <1>7 DEF SkipSecret, Take, vars
<1>3. CASE RotateSecret(q)
  BY <1>3 DEF RotateSecret, Take, vars
<1>4. CASE RotateUpsert(q)
  BY <1>4 DEF RotateUpsert
<1>5. CASE RotateSelectId(q)
  BY <1>5 DEF RotateSelectId, vars
<1>6. CASE RotateSyncFTS(q) \/ UpdateOperatorHash(q) \/ UpdateFails(q)
  BY <1>6 DEF RotateSyncFTS, UpdateOperatorHash, UpdateFails, vars
<1> QED
  BY <1>1, <1>2, <1>3, <1>4, <1>5, <1>6, <1>7 DEF Rotate

LEMMA ServerDiesWhole ==
    ASSUME RInv, AllWhole, ServerDies
    PROVE  AllWhole'
<1>1. MapOf' = MapOf /\ secrets' = secrets /\ UNCHANGED <<newkek, before, disturbed, skipped>>
  BY MapKept DEF ServerDies, table, asides
<1>2. \A q \in Rot : /\ at'[q] \in {"idle", "done"} /\ todo'[q] = {}
                     /\ told'[q] = "ok" => told[q] = "ok" /\ at[q] = "done"
  BY DEF ServerDies, Rotating, RInv, RotationTypes, Begun
<1>3. ASSUME NEW q \in Rot \ (disturbed' \cup skipped'), told'[q] = "ok"
      PROVE  MapOf' = before'[q] /\ \A x \in secrets' : x.ct.kek = newkek'[q]
  <2>1. Whole(q) /\ told[q] = "ok" /\ at[q] = "done"
    BY <1>1, <1>2, <1>3 DEF AllWhole
  <2> QED
    BY <1>1, <2>1 DEF Whole, Answered
<1>4. \A q \in Rot \ (disturbed' \cup skipped') : Whole(q)'
  BY <1>2, <1>3 DEF Whole, Answered
<1> QED
  BY <1>1, <1>4 DEF AllWhole

LEMMA WholeStep ==
    ASSUME RInv, AllWhole, [RotationNext]_vaultvars
    PROVE  AllWhole'
<1>1. CASE UNCHANGED vaultvars \/ \E r \in Req : Request(r)
  <2>1. /\ UNCHANGED <<at, told, newkek, todo, held, before, skipped>> /\ Disturb(Rot)
    BY <1>1 DEF vaultvars, vars, rotvars, rotating, asides, Request, Disturb
  <2>2. \A q \in Rot \ (disturbed' \cup skipped') : Whole(q)'
    BY <2>1, OthersWhole
  <2> QED
    BY <2>1, <2>2 DEF AllWhole
<1>2. ASSUME NEW q \in Rot, RotateArrive(q) \/ RotateAbort(q) \/ Rotate(q)
      PROVE  AllWhole'
  <2>1. \A o \in (Rot \ {q}) \ (disturbed' \cup skipped') : Whole(o)'
    BY <1>2, Apart, OthersWhole
  <2>2. ASSUME q \notin disturbed' \cup skipped' PROVE Whole(q)'
    <3>1. Whole(q) /\ DOMAIN before = Rot
      BY <1>2, <2>2, Apart DEF AllWhole, Disturb
    <3>2. ~ SkipSecret(q) /\ ~ UpdateFails(q)
      BY <2>2 DEF SkipSecret, UpdateFails
    <3> QED
      BY <1>2, <3>1, <3>2, UpsertWhole, RotateSecretWhole, QuietWhole DEF Rotate
  <2>3. DOMAIN before' = Rot
    BY <1>2, Apart DEF AllWhole
  <2> QED
    BY <2>1, <2>2, <2>3 DEF AllWhole
<1> QED
  BY <1>1, <1>2, ServerDiesWhole DEF RotationNext

\* A rotation that is answered "ok" and was left in peace has sealed every
\* secret under its key and changed nothing else of them.
THEOREM RotationCompletes == RotationSpec => []RotationComplete
<1>1. RotationInit => AllWhole
  BY DEF RotationInit, AllWhole, Whole, Answered
<1>2. RInv /\ AllWhole /\ [RotationNext]_vaultvars => AllWhole'
  BY WholeStep
<1>3. ASSUME RInv, AllWhole PROVE RotationComplete
  <2>1. ASSUME NEW q \in Rot \ (disturbed \cup skipped), told[q] = "ok"
        PROVE  MapOf = before[q] /\ \A x \in secrets : x.ct.kek = newkek[q]
    <3>1. Whole(q) /\ at[q] = "done"
      BY <1>3, <2>1 DEF AllWhole, RInv, Begun
    <3>2. todo[q] = {}
      BY <2>1, <3>1 DEF Whole, Answered
    <3> QED
      BY <2>1, <3>1, <3>2 DEF Whole
  <2>2. \A x \in secrets : x.ct.aad = AADSecret(x.path, x.desc, x.version)
    BY <1>3 DEF RInv, RowsBound
  <2> QED
    BY <2>1, <2>2 DEF RotationComplete, Opens
<1> QED
  BY <1>1, <1>2, <1>3, RotationInvariance, PTL DEF RotationSpec
=============================================================================
