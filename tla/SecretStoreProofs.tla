------------------------- MODULE SecretStoreProofs -------------------------
(***************************************************************************)
(* What holds of SecretStore for every set of paths, descriptions, values, *)
(* keys and requests, and of SecretReads for any number of lists and       *)
(* searches beside them.  In this order:                                   *)
(*   - the tables are well typed and keep their unique columns, and every  *)
(*     stored row opens with the AAD its readers recompute;                *)
(*   - lists and searches stay in scope and show rows as they were stored, *)
(*     and a list misses none that was there all the time;                 *)
(*   - requests that only overwrite and read implement SecretMap;          *)
(*   - so do all requests of one client, and its index is in step;         *)
(*   - a search of an index in step finds what it asks for;                *)
(*   - without deletes no row stays out of the index.                      *)
(***************************************************************************)
EXTENDS SecretReads, MaxLemmas, FiniteSetTheorems, TLAPS

(***************************************************************************)
(* The inductive invariant, in two layers.  TableInv says what holds with  *)
(* whatever keys the rows are sealed under: each is bound to the AAD of    *)
(* its own columns, and so is the row a handler is about to write, which   *)
(* is under the server's key as well.  RowsOpen adds that all stored rows  *)
(* are.  (RotationProofs rests on the first layer alone.)                  *)
(***************************************************************************)
Bound(x) == x.aad = AADSecret(x.path, x.desc, x.version) /\ x.ct.aad = x.aad

Sound(x) == Bound(x) /\ x.ct.kek = Kek

\* A request that runs was asked something, and past its read holds a row.
Held ==
    \A r \in Req :
        /\ pc[r] \in Running => job[r] \in Jobs
        /\ pc[r] \in Running \ {"read"} => row[r] \in Row

RowsTied == \A x \in secrets : Bound(x)

\* RowsOpen alone is not inductive: a row survives an upsert because what is
\* written was sealed for its own columns, whatever happened to the table since
\* the handler read it.
DraftsSound == \A r \in Req : pc[r] = "upsert" => Sound(row[r])

\* The rowids have a largest one.
IdsBounded == NextId \in Nat /\ \A x \in secrets : x.id < NextId

TableInv == TypeOK /\ IdsBounded /\ Held /\ RowsTied /\ DraftsSound

IInv == TableInv /\ RowsOpen

-----------------------------------------------------------------------------
(* Lemmas about rows and rowids. *)

\* If the rowids of a set of rows have an upper bound, one more than their
\* maximum exceeds them.
LEMMA FreshId ==
    ASSUME NEW T \in SUBSET Row, NEW n \in Nat, \A x \in T : x.id <= n
    PROVE  LET next == 1 + Max({0} \cup {x.id : x \in T})
           IN  next \in Nat /\ \A x \in T : x.id < next
<1> DEFINE S == {0} \cup {x.id : x \in T}
<1>1. S \in SUBSET Nat /\ S # {} /\ \A i \in S : i <= n
  BY DEF Row
<1>2. Max(S) \in S /\ \A i \in S : Max(S) >= i
  BY <1>1, MaxOfBounded
<1>3. Max(S) \in Nat
  BY <1>1, <1>2
<1>4. \A x \in T : x.id \in Nat /\ Max(S) >= x.id
  BY <1>1, <1>2
<1>5. 1 + Max(S) \in Nat /\ \A x \in T : x.id < 1 + Max(S)
  <2> HIDE DEF S
  <2> QED
    BY <1>3, <1>4
<1> QED
  BY <1>5

\* A row built by a handler is well typed and sound.
LEMMA SealedRowSound ==
    ASSUME NEW i \in Nat, NEW p \in Path, NEW v \in Value, NEW d \in Desc,
           NEW m \in SUBSET Meta, NEW n \in Nat
    PROVE  SealedRow(i, p, v, d, m, n) \in Row /\ Sound(SealedRow(i, p, v, d, m, n))
BY ConstantsAssumption
   DEF SealedRow, Row, Sealed, AAD, Bound, Sound, Seal, AADSecret

\* An annotation leaves a set of metadata entries and a known description.
LEMMA AnnotationTyped ==
    ASSUME NEW x \in Row, NEW j \in Jobs, j.op = "annotate"
    PROVE  NewDesc(x, j) \in Desc /\ Merged(x.meta, j) \in SUBSET Meta
BY ConstantsAssumption DEF AllJobs, NewDesc, Merged, Row

LEMMA BumpedVersionTyped ==
    ASSUME NEW x \in Row, NEW d \in Desc
    PROVE  BumpedVersion(x, d) \in Nat
BY DEF BumpedVersion, Row

-----------------------------------------------------------------------------
(* One lemma per kind of step.  The steps that leave the table alone.      *)

LEMMA InitInv == Init => IInv
<1> SUFFICES ASSUME Init PROVE IInv
  OBVIOUS
<1>1. TypeOK
  BY DEF Init, TypeOK, Replies
<1>2. IdsBounded
  BY FreshId DEF Init, IdsBounded, NextId
<1>3. Held /\ RowsTied /\ DraftsSound /\ RowsOpen
  BY DEF Init, Held, Running, RowsTied, DraftsSound, RowsOpen
<1> QED
  BY <1>1, <1>2, <1>3 DEF IInv, TableInv

\* The parts of the invariant that only a write of the table can disturb.
LEMMA TableUntouched ==
    ASSUME TableInv, UNCHANGED secrets
    PROVE  IdsBounded' /\ RowsTied'
BY DEF TableInv, IdsBounded, NextId, RowsTied

\* A request that ends with a known reply and leaves its row and the table.
LEMMA AnswerInv ==
    ASSUME TableInv, NEW r \in Req, NEW status \in Replies,
           Answer(r, status), UNCHANGED <<secrets, job>>, fts' \subseteq IndexEntry,
           row' \in [Req -> Row \cup {Nil}], \A q \in Req \ {r} : row'[q] = row[q]
    PROVE  TableInv'
<1>1. TypeOK'
  BY DEF TableInv, TypeOK, Answer, Replies
<1>2. Held'
  BY DEF TableInv, TypeOK, Answer, Held, Running
<1>3. DraftsSound'
  BY DEF TableInv, TypeOK, Answer, DraftsSound
<1> QED
  BY <1>1, <1>2, <1>3, TableUntouched DEF TableInv

\* A request that takes a row into hand and goes on to its next statement; a
\* row to be written has to be sound.
LEMMA HoldInv ==
    ASSUME TableInv, NEW r \in Req, NEW x \in Row, NEW label \in Running,
           pc[r] \in Running, Hold(r, x), Goto(r, label), UNCHANGED <<table, job>>,
           label = "upsert" => Sound(x)
    PROVE  TableInv'
<1>1. TypeOK'
  BY DEF TableInv, TypeOK, Hold, Goto, table
<1>2. Held'
  BY DEF TableInv, TypeOK, Hold, Goto, Held
<1>3. DraftsSound'
  BY DEF TableInv, TypeOK, Hold, Goto, DraftsSound
<1> QED
  BY <1>1, <1>2, <1>3, TableUntouched DEF TableInv, table

LEMMA ArriveInv == ASSUME TableInv, NEW r \in Req, Arrive(r) PROVE TableInv'
<1>1. TypeOK'
  BY DEF TableInv, TypeOK, Arrive, Goto, Running, table
<1>2. Held'
  BY DEF TableInv, TypeOK, Arrive, Goto, Held, Running
<1>3. DraftsSound'
  BY DEF TableInv, TypeOK, Arrive, Goto, DraftsSound
<1> QED
  BY <1>1, <1>2, <1>3, TableUntouched DEF TableInv, Arrive, table

LEMMA AbortInv == ASSUME TableInv, NEW r \in Req, Abort(r) PROVE TableInv'
<1>1. PICK status \in {"not_found", "error"} : Answer(r, status)
  BY DEF Abort
<1>2. status \in Replies
  BY <1>1 DEF Replies
<1> QED
  BY <1>1, <1>2, AnswerInv DEF Abort, table, TableInv, TypeOK

\* The end of the process ends every request and leaves the tables.
LEMMA EndInv ==
    ASSUME TableInv, UNCHANGED <<table, job, row>>,
           pc' = [r \in Req |-> IF r \in Active THEN "done" ELSE pc[r]],
           reply' = [r \in Req |-> IF r \in Active THEN "lost" ELSE reply[r]]
    PROVE  TableInv'
<1>1. TypeOK'
  BY DEF TableInv, TypeOK, table, Replies
<1>2. Held'
  BY DEF TableInv, TypeOK, Active, Held, Running
<1>3. DraftsSound'
  BY DEF TableInv, TypeOK, Active, DraftsSound, Running
<1> QED
  BY <1>1, <1>2, <1>3, TableUntouched DEF TableInv, table

LEMMA CrashInv == ASSUME TableInv, Crash PROVE TableInv'
BY EndInv DEF Crash

-----------------------------------------------------------------------------
(* The handlers up to their first write.                                   *)

\* What is in the table is typed and bound to its columns.
LEMMA StoredRow ==
    ASSUME TableInv, NEW p, NEW x \in RowsAt(p)
    PROVE  x \in Row /\ x.path = p /\ Bound(x)
BY DEF TableInv, TypeOK, RowsTied, RowsAt

LEMMA HandleGetInv == ASSUME TableInv, NEW r \in Req, HandleGet(r) PROVE TableInv'
<1>1. CASE RowsAt(job[r].path) = {} /\ Answer(r, "not_found") /\ UNCHANGED row
  BY <1>1, AnswerInv DEF HandleGet, Reading, table, TableInv, TypeOK, Replies
<1>2. CASE \E x \in RowsAt(job[r].path) :
             /\ Hold(r, x)
             /\ Answer(r, IF Opens(Kek, x.ct, AADSecret(x.path, x.desc, x.version))
                          THEN "ok" ELSE "decrypt_failed")
  <2>1. PICK x \in RowsAt(job[r].path) :
             /\ Hold(r, x)
             /\ Answer(r, IF Opens(Kek, x.ct, AADSecret(x.path, x.desc, x.version))
                          THEN "ok" ELSE "decrypt_failed")
    BY <1>2
  <2>2. x \in Row
    BY StoredRow
  <2>3. PICK status \in {"ok", "decrypt_failed"} : Answer(r, status)
    BY <2>1
  <2>4. row' \in [Req -> Row \cup {Nil}] /\ \A q \in Req \ {r} : row'[q] = row[q]
    BY <2>1, <2>2 DEF Hold, TableInv, TypeOK
  <2>5. UNCHANGED <<secrets, job>> /\ fts' \subseteq IndexEntry
    BY DEF HandleGet, Reading, table, TableInv, TypeOK
  <2> QED
    BY <2>3, <2>4, <2>5, AnswerInv DEF Replies
<1> QED
  BY <1>1, <1>2 DEF HandleGet

\* A draft sealed for a typed row takes its request to the upsert.
LEMMA DraftInv ==
    ASSUME TableInv, NEW r \in Req, pc[r] = "read", UNCHANGED <<table, job>>,
           NEW i \in Nat, NEW p \in Path, NEW v \in Value, NEW d \in Desc,
           NEW m \in SUBSET Meta, NEW n \in Nat,
           Hold(r, SealedRow(i, p, v, d, m, n)), Goto(r, "upsert")
    PROVE  TableInv'
BY SealedRowSound, HoldInv DEF Running

LEMMA PutUnreadInv == ASSUME TableInv, NEW r \in Req, PutUnread(r) PROVE TableInv'
<1>1. job[r].path \in Path /\ job[r].value \in Value /\ job[r].desc \in Desc
         /\ job[r].meta \in SUBSET Meta
  BY ConstantsAssumption DEF TableInv, Held, Running, PutUnread, Reading, AllJobs
<1> QED
  BY <1>1, DraftInv DEF PutUnread, Reading, FirstVersion

LEMMA HandlePutInv == ASSUME TableInv, NEW r \in Req, HandlePut(r) PROVE TableInv'
<1>1. job[r].path \in Path /\ job[r].value \in Value /\ job[r].desc \in Desc
         /\ job[r].meta \in SUBSET Meta
  BY ConstantsAssumption DEF TableInv, Held, Running, HandlePut, Reading, AllJobs
<1>2. PICK n \in Nat : Hold(r, SealedRow(0, job[r].path, job[r].value, job[r].desc,
                                      job[r].meta, n))
  BY <1>1, StoredRow, BumpedVersionTyped DEF HandlePut, FirstVersion
<1> QED
  BY <1>1, <1>2, DraftInv DEF HandlePut, Reading

\* What is resealed is sound again.
LEMMA ResealInv ==
    ASSUME TableInv, NEW r \in Req, pc[r] = "read", UNCHANGED <<table, job>>,
           NEW x \in RowsAt(job[r].path), NEW i \in Nat, NEW d \in Desc,
           NEW m \in SUBSET Meta, Reseal(r, x, i, d, m)
    PROVE  TableInv'
<1>1. x \in Row
  BY StoredRow
<1>2. CASE Answer(r, "decrypt_failed") /\ UNCHANGED row
  BY <1>2, AnswerInv DEF table, TableInv, TypeOK, Replies
<1>3. x.path \in Path /\ x.ct.value \in Value
  BY <1>1 DEF Row, Sealed
<1>4. BumpedVersion(x, d) \in Nat
  BY <1>1, BumpedVersionTyped
<1> QED
  BY <1>2, <1>3, <1>4, DraftInv DEF Reseal

LEMMA HandleSaveInv == ASSUME TableInv, NEW r \in Req, HandleSave(r) PROVE TableInv'
<1>1. job[r].desc \in Desc /\ job[r].meta \in SUBSET Meta
  BY ConstantsAssumption DEF TableInv, Held, Running, HandleSave, Reading, AllJobs
<1>2. CASE RowsAt(job[r].path) = {} /\ Answer(r, "not_found") /\ UNCHANGED row
  BY <1>2, AnswerInv DEF HandleSave, Reading, table, TableInv, TypeOK, Replies
<1>3. CASE \E x \in RowsAt(job[r].path) : Reseal(r, x, 0, job[r].desc, job[r].meta)
  BY <1>1, <1>3, ResealInv DEF HandleSave, Reading
<1> QED
  BY <1>2, <1>3 DEF HandleSave

LEMMA HandleAnnotateInv == ASSUME TableInv, NEW r \in Req, HandleAnnotate(r) PROVE TableInv'
<1>1. job[r] \in Jobs /\ job[r].op = "annotate"
  BY DEF TableInv, Held, Running, HandleAnnotate, Reading
<1>2. CASE RowsAt(job[r].path) = {} /\ Answer(r, "not_found") /\ UNCHANGED row
  BY <1>2, AnswerInv DEF HandleAnnotate, Reading, table, TableInv, TypeOK, Replies
<1>3. CASE Answer(r, "ok") /\ UNCHANGED row
  BY <1>3, AnswerInv DEF HandleAnnotate, Reading, table, TableInv, TypeOK, Replies
<1>4. ASSUME NEW x \in RowsAt(job[r].path),
             Reseal(r, x, x.id, NewDesc(x, job[r]), Merged(x.meta, job[r]))
      PROVE  TableInv'
  <2>1. x \in Row /\ x.id \in Nat
    BY StoredRow DEF Row
  <2>2. NewDesc(x, job[r]) \in Desc /\ Merged(x.meta, job[r]) \in SUBSET Meta
    BY <1>1, <2>1, AnnotationTyped
  <2> QED
    BY <1>4, <2>1, <2>2, ResealInv DEF HandleAnnotate, Reading
<1> QED
  BY <1>2, <1>3, <1>4 DEF HandleAnnotate

LEMMA HandleDeleteInv == ASSUME TableInv, NEW r \in Req, HandleDelete(r) PROVE TableInv'
<1>1. CASE RowsAt(job[r].path) = {} /\ Answer(r, "not_found") /\ UNCHANGED row
  BY <1>1, AnswerInv DEF HandleDelete, Reading, table, TableInv, TypeOK, Replies
<1>2. CASE \E x \in RowsAt(job[r].path) : Hold(r, x) /\ Goto(r, "remove")
  BY <1>2, StoredRow, HoldInv DEF HandleDelete, Reading, Running
<1> QED
  BY <1>1, <1>2 DEF HandleDelete

-----------------------------------------------------------------------------
(* The statements of PutSecret and DeleteSecret.                           *)

\* A write keeps the invariant when the rows it leaves are typed, bounded,
\* bound and unique, and what requests hold is as before.
LEMMA WriteInv ==
    ASSUME TableInv, UNCHANGED <<fts, job, row, reply>>,
           pc' \in [Req -> Running \cup {"idle", "done"}], Held', DraftsSound',
           secrets' \subseteq Row,
           \A x, y \in secrets' : x.id = y.id \/ x.path = y.path => x = y,
           \A x \in secrets' : Bound(x),
           NEW n \in Nat, \A x \in secrets' : x.id <= n
    PROVE  TableInv'
<1>1. TypeOK'
  BY DEF TableInv, TypeOK
<1>2. IdsBounded'
  BY FreshId DEF IdsBounded, NextId
<1> QED
  BY <1>1, <1>2 DEF TableInv, RowsTied

LEMMA AfterWrite ==
    ASSUME TableInv, NEW r \in Req, NEW label \in {"selectid", "unindex"},
           pc[r] \in {"upsert", "remove"}, Goto(r, label), UNCHANGED <<job, row>>
    PROVE  pc' \in [Req -> Running \cup {"idle", "done"}] /\ Held' /\ DraftsSound'
BY DEF TableInv, TypeOK, Goto, Running, Held, DraftsSound

\* The upsert replaces what was at the path by the new row, which keeps the
\* rowid there or gets one that is not in use.
LEMMA UpsertedRow ==
    ASSUME TableInv, NEW new \in Row
    PROVE  \E i \in Nat :
              /\ Upserted(new) = {x \in secrets : x.path # new.path} \cup {[new EXCEPT !.id = i]}
              /\ i <= NextId
              /\ \A x \in secrets : x.path = new.path <=> x.id = i
              /\ RowsAt(new.path) = {} => i = NextId
<1>1. /\ secrets \subseteq Row /\ NextId \in Nat
      /\ \A x \in secrets : x.id \in Nat /\ x.id < NextId
      /\ \A x, y \in secrets : x.id = y.id \/ x.path = y.path => x = y
  BY DEF TableInv, TypeOK, IdsBounded, Row
<1>2. CASE RowsAt(new.path) = {}
  <2>1. \A x \in secrets : x.path # new.path /\ x.id # NextId
    BY <1>1, <1>2 DEF RowsAt
  <2>2. Upserted(new) = secrets \cup {[new EXCEPT !.id = NextId]}
    BY <1>2 DEF Upserted
  <2> QED
    BY <1>1, <2>1, <2>2
<1>3. CASE RowsAt(new.path) # {}
  <2>1. PICK old \in RowsAt(new.path) : TRUE
    BY <1>3
  <2>2. old \in secrets /\ old.path = new.path /\ RowsAt(new.path) = {old}
    BY <1>1, <2>1 DEF RowsAt
  <2>3. Upserted(new) = (secrets \ {old}) \cup {[new EXCEPT !.id = old.id]}
    BY <1>3, <2>2 DEF Upserted, Overwrite
  <2>4. \A x \in secrets : x.path = new.path <=> x = old
    BY <1>1, <2>2
  <2>5. secrets \ {old} = {x \in secrets : x.path # new.path}
    BY <2>4
  <2> QED
    BY <1>1, <1>3, <2>2, <2>3, <2>4, <2>5
<1> QED
  BY <1>2, <1>3

\* What WriteInv needs of an upsert, of a request or of anyone else.
LEMMA UpsertedTable ==
    ASSUME TableInv, NEW new \in Row, Bound(new)
    PROVE  /\ Upserted(new) \subseteq Row
           /\ \A x, y \in Upserted(new) : x.id = y.id \/ x.path = y.path => x = y
           /\ \A x \in Upserted(new) : Bound(x)
           /\ NextId \in Nat /\ \A x \in Upserted(new) : x.id <= NextId
<1>1. /\ secrets \subseteq Row /\ NextId \in Nat
      /\ \A x \in secrets : x.id \in Nat /\ x.id < NextId /\ Bound(x)
      /\ \A x, y \in secrets : x.id = y.id \/ x.path = y.path => x = y
  BY DEF TableInv, TypeOK, IdsBounded, RowsTied, Row
<1>2. PICK i \in Nat :
        /\ Upserted(new) = {x \in secrets : x.path # new.path} \cup {[new EXCEPT !.id = i]}
        /\ i <= NextId
        /\ \A x \in secrets : x.path = new.path <=> x.id = i
  BY UpsertedRow
<1> DEFINE y == [new EXCEPT !.id = i]
<1>3. y \in Row /\ Bound(y) /\ y.id = i /\ y.path = new.path
  BY DEF Row, Bound
<1>4. Upserted(new) = {x \in secrets : x.path # new.path} \cup {y}
  BY <1>2
<1> HIDE DEF y
<1>5. \A x \in Upserted(new) : x = y \/ (x \in secrets /\ x.path # new.path)
  BY <1>4
<1>6. \A x \in Upserted(new) : x.id <= NextId
  BY <1>1, <1>2, <1>3, <1>5
<1>7. \A x, z \in Upserted(new) : x.id = z.id \/ x.path = z.path => x = z
  BY <1>1, <1>2, <1>3, <1>5
<1> QED
  BY <1>1, <1>3, <1>5, <1>6, <1>7

LEMMA UpsertInv == ASSUME TableInv, NEW r \in Req, Upsert(r) PROVE TableInv'
<1>1. row[r] \in Row /\ Bound(row[r])
  BY DEF TableInv, Held, DraftsSound, Sound, Upsert, Running
<1>2. secrets' = Upserted(row[r]) /\ UNCHANGED <<fts, job, row, reply>>
  BY DEF Upsert, Goto
<1>3. pc' \in [Req -> Running \cup {"idle", "done"}] /\ Held' /\ DraftsSound'
  BY AfterWrite DEF Upsert
<1> QED
  BY <1>1, <1>2, <1>3, UpsertedTable, WriteInv

LEMMA RemoveInv == ASSUME TableInv, NEW r \in Req, Remove(r) PROVE TableInv'
<1>1. secrets' \subseteq secrets
  BY DEF Remove, Deleted
<1>2. NextId \in Nat /\ \A x \in secrets : x \in Row /\ x.id \in Nat /\ x.id <= NextId
  BY DEF TableInv, TypeOK, IdsBounded, Row
<1>3. \A x \in secrets' : Bound(x)
  BY <1>1 DEF TableInv, RowsTied
<1>4. \A x, y \in secrets' : x.id = y.id \/ x.path = y.path => x = y
  BY <1>1 DEF TableInv, TypeOK
<1>5. pc' \in [Req -> Running \cup {"idle", "done"}] /\ Held' /\ DraftsSound'
  BY AfterWrite DEF Remove
<1> QED
  BY <1>1, <1>2, <1>3, <1>4, <1>5, WriteInv DEF Remove, Goto

LEMMA SelectIdInv == ASSUME TableInv, NEW r \in Req, SelectId(r) PROVE TableInv'
<1>1. CASE Answer(r, "error") /\ UNCHANGED row
  BY <1>1, AnswerInv DEF SelectId, table, TableInv, TypeOK, Replies
<1>2. ASSUME NEW x \in RowsAt(row[r].path),
             Hold(r, [row[r] EXCEPT !.id = x.id]), Goto(r, "sync")
      PROVE  TableInv'
  <2>1. x.id \in Nat /\ row[r] \in Row
    BY StoredRow DEF TableInv, Held, SelectId, Running, Row
  <2>2. [row[r] EXCEPT !.id = x.id] \in Row
    BY <2>1 DEF Row
  <2> QED
    BY <1>2, <2>2, HoldInv DEF SelectId, Running
<1> QED
  BY <1>1, <1>2 DEF SelectId

LEMMA SyncFTSInv == ASSUME TableInv, NEW r \in Req, SyncFTS(r) PROVE TableInv'
<1>1. row[r] \in Row
  BY DEF TableInv, Held, SyncFTS, Running
<1>2. fts' \subseteq IndexEntry
  BY <1>1 DEF TableInv, TypeOK, SyncFTS, Indexed, EntryOf, IndexEntry, Row
<1> QED
  BY <1>2, AnswerInv DEF SyncFTS, TableInv, TypeOK, Replies

LEMMA UnindexInv == ASSUME TableInv, NEW r \in Req, Unindex(r) PROVE TableInv'
<1>1. fts' \subseteq IndexEntry
  BY DEF TableInv, TypeOK, Unindex
<1> QED
  BY <1>1, AnswerInv DEF Unindex, TableInv, TypeOK, Replies

-----------------------------------------------------------------------------
(* The theorems.                                                           *)

\* Every step preserves the first layer.
LEMMA TableStep == ASSUME TableInv, [Next]_vars PROVE TableInv'
<1>1. CASE UNCHANGED vars
  BY <1>1 DEF vars, TableInv, TypeOK, IdsBounded, NextId, Held, RowsTied, DraftsSound
<1>2. CASE Crash
  BY <1>2, CrashInv
<1>3. ASSUME NEW r \in Req, Arrive(r) \/ Abort(r) \/ PutUnread(r)
      PROVE  TableInv'
  BY <1>3, ArriveInv, AbortInv, PutUnreadInv
<1>4. ASSUME NEW r \in Req, Handle(r)
      PROVE  TableInv'
  BY <1>4, HandleGetInv, HandlePutInv, HandleSaveInv, HandleAnnotateInv,
     HandleDeleteInv, UpsertInv, SelectIdInv, SyncFTSInv, RemoveInv, UnindexInv
     DEF Handle
<1> QED
  BY <1>1, <1>2, <1>3, <1>4 DEF Next

\* No request leaves a row under a key other than those in the table and its own.
LEMMA KeysKept ==
    ASSUME TableInv, [Next]_vars
    PROVE  \A x \in secrets' : x \in secrets \/ x.ct.kek = Kek
<1>1. ASSUME NEW r \in Req, Upsert(r)
      PROVE  \A x \in secrets' : x \in secrets \/ x.ct.kek = Kek
  <2>1. row[r] \in Row /\ row[r].ct.kek = Kek
    BY <1>1 DEF TableInv, Held, DraftsSound, Sound, Upsert, Running
  <2>2. PICK i \in Nat : secrets' = {x \in secrets : x.path # row[r].path}
                                        \cup {[row[r] EXCEPT !.id = i]}
    BY <1>1, <2>1, UpsertedRow DEF Upsert
  <2>3. [row[r] EXCEPT !.id = i].ct.kek = Kek
    BY <2>1 DEF Row
  <2> QED
    BY <2>2, <2>3
<1>2. ASSUME NEW r \in Req, Remove(r)
      PROVE  \A x \in secrets' : x \in secrets \/ x.ct.kek = Kek
  BY <1>2 DEF Remove, Deleted
<1>3. CASE UNCHANGED secrets
  BY <1>3
<1> QED
  BY <1>1, <1>2, <1>3 DEF Next, Handle, Crash, Arrive, Abort, PutUnread, HandleGet, HandlePut,
     HandleSave, HandleAnnotate, HandleDelete, SelectId, SyncFTS, Unindex, Reading, table, vars

\* While every row opens, no request finds one that does not.
LEMMA NoneRefused ==
    ASSUME TableInv, RowsOpen, [Next]_vars, NEW r \in Req
    PROVE  reply'[r] # "decrypt_failed"
<1>1. \A p : \A x \in RowsAt(p) :
         Opens(Kek, x.ct, x.aad) /\ Opens(Kek, x.ct, AADSecret(x.path, x.desc, x.version))
  BY DEF RowsOpen, RowsAt, Opens
<1> USE DEF TableInv, TypeOK, RowsOpen, Goto, Answer
<1>2. CASE Crash \/ UNCHANGED vars
  BY <1>2 DEF Crash, vars
<1>3. ASSUME NEW q \in Req, Arrive(q) \/ Abort(q) \/ PutUnread(q)
      PROVE  reply'[r] # "decrypt_failed"
  BY <1>3 DEF Arrive, Abort, PutUnread
<1>4. ASSUME NEW q \in Req, HandleGet(q) PROVE reply'[r] # "decrypt_failed"
  BY <1>1, <1>4 DEF HandleGet
<1>5. ASSUME NEW q \in Req, HandleSave(q) \/ HandleAnnotate(q)
      PROVE  reply'[r] # "decrypt_failed"
  BY <1>1, <1>5 DEF HandleSave, HandleAnnotate, Reseal
<1>6. ASSUME NEW q \in Req, HandlePut(q) \/ HandleDelete(q) \/ Upsert(q) \/ SelectId(q)
             \/ SyncFTS(q) \/ Remove(q) \/ Unindex(q)
      PROVE  reply'[r] # "decrypt_failed"
  BY <1>6 DEF HandlePut, HandleDelete, Upsert, SelectId, SyncFTS, Remove, Unindex
<1> QED
  BY <1>2, <1>3, <1>4, <1>5, <1>6 DEF Next, Handle

\* Every step preserves the invariant.
LEMMA StepInv == ASSUME IInv, [Next]_vars PROVE IInv'
<1>1. TableInv'
  BY TableStep DEF IInv
<1>2. \A x \in secrets' : x.ct.kek = Kek
  BY KeysKept DEF IInv, RowsOpen, Opens
<1>3. RowsOpen'
  BY <1>1, <1>2, NoneRefused DEF IInv, TableInv, RowsTied, RowsOpen, Bound, Opens
<1> QED
  BY <1>1, <1>3 DEF IInv

\* The strengthened invariant holds in every reachable state.
THEOREM Invariance == Spec => []IInv
<1>1. IInv /\ [Next]_vars => IInv'
  BY StepInv
<1> QED
  BY <1>1, InitInv, PTL DEF Spec

\* The tables stay well typed, with unique rowids and unique paths, for any
\* number of concurrent requests, failures and crashes.
THEOREM TypeCorrect == Spec => []TypeOK
BY Invariance, PTL DEF IInv, TableInv

\* No interleaving, failure or crash leaves a row that its readers cannot
\* open, and no reader ever meets one.
THEOREM EveryRowOpens == Spec => []RowsOpen
BY Invariance, PTL DEF IInv

-----------------------------------------------------------------------------
(* The readers.  A page stays in scope because what is left to read does;  *)
(* it is genuine because a row that is read now is in the table now, which *)
(* the requests' steps add to the rows seen since; and a list misses       *)
(* nothing because a path that is still there has a row, which opens.      *)

ReadsType ==
    /\ stage \in [Reader -> {"idle", "reading", "ok", "failed"}]
    /\ query \in [Reader -> Query]
    /\ view \in [Reader -> {"api", "web"}]
    /\ scope \in [Reader -> SUBSET Path]
    /\ paths \in [Reader -> SUBSET Path]
    /\ ids \in [Reader -> SUBSET Nat]
    /\ page \in [Reader -> SUBSET Row]
    /\ DOMAIN since = Reader /\ DOMAIN lasting = Reader
    /\ DOMAIN clean = Reader

\* Nothing is prepared for a reader that has not begun.
Untouched(q) ==
    stage[q] = "idle" =>
        query[q] = Nil /\ view[q] = "api" /\ paths[q] = {} /\ ids[q] = {} /\ page[q] = {}

InScope(q) ==
    /\ view[q] = "web" => scope[q] = Path
    /\ paths[q] \subseteq scope[q]
    /\ \A x \in page[q] : x.path \in scope[q]

Genuine(q) ==
    /\ stage[q] = "reading" => secrets \subseteq since[q]
    /\ page[q] \subseteq since[q]

\* A path that has been there all the time is still to be read or on the page.
NothingMissed(q) ==
    /\ query[q] = Nil => ids[q] = {}
    /\ stage[q] = "reading" => lasting[q] \subseteq PathsOf(secrets)
    /\ stage[q] \in {"reading", "ok"} /\ query[q] = Nil /\ clean[q] =>
          lasting[q] \cap scope[q] \subseteq PathsOf(page[q]) \cup paths[q]
    /\ stage[q] = "ok" => paths[q] = {}

ReadInv(q) == Untouched(q) /\ InScope(q) /\ Genuine(q) /\ NothingMissed(q)

ReadsInv == IInv /\ ReadsType /\ \A q \in Reader : ReadInv(q)

\* The rows a statement of a reader may give have their types, and open.
LEMMA ReadRows ==
    ASSUME IInv
    PROVE  /\ secrets \subseteq Row
           /\ PathsOf(secrets) \subseteq Path
           /\ \A p : RowsAt(p) \subseteq secrets
           /\ \A i : RowsWithId(i) \subseteq secrets
           /\ \A x \in secrets : Opens(Kek, x.ct, AADSecret(x.path, x.desc, x.version))
           /\ \A x \in fts : x.id \in Nat
<1>1. secrets \subseteq Row
  BY DEF IInv, TableInv, TypeOK
<1>2. PathsOf(secrets) \subseteq Path
  BY <1>1 DEF PathsOf, Row
<1>3. \A x \in secrets : Opens(Kek, x.ct, AADSecret(x.path, x.desc, x.version))
  BY DEF IInv, RowsOpen
<1>4. \A x \in fts : x.id \in Nat
  BY DEF IInv, TableInv, TypeOK, IndexEntry
<1> QED
  BY <1>1, <1>2, <1>3, <1>4 DEF RowsAt, RowsWithId

LEMMA ReadsInitInv == ReadsInit => ReadsInv
<1> SUFFICES ASSUME ReadsInit PROVE ReadsInv
  OBVIOUS
<1>1. IInv
  BY InitInv DEF ReadsInit
<1>2. ReadsType
  BY DEF ReadsInit, ReadsType, Query
<1>3. \A q \in Reader : ReadInv(q)
  BY DEF ReadsInit, ReadInv, Untouched, InScope, Genuine, NothingMissed
<1> QED
  BY <1>1, <1>2, <1>3 DEF ReadsInv

\* What a step of one reader does, the table and the other readers left alone.
Leaves(q) ==
    /\ UNCHANGED vars
    /\ \A o \in Reader \ {q} :
          /\ stage'[o] = stage[o] /\ query'[o] = query[o] /\ view'[o] = view[o]
          /\ scope'[o] = scope[o] /\ paths'[o] = paths[o] /\ ids'[o] = ids[o]
          /\ page'[o] = page[o] /\ since'[o] = since[o] /\ lasting'[o] = lasting[o]
          /\ clean'[o] = clean[o]

LEMMA OneReader ==
    ASSUME ReadsInv, NEW q \in Reader, Leaves(q), ReadsType', ReadInv(q)'
    PROVE  ReadsInv'
<1>1. IInv'
  BY StepInv DEF ReadsInv, Leaves
<1>2. ASSUME NEW o \in Reader PROVE ReadInv(o)'
  <2>1. CASE o = q
    BY <2>1
  <2>2. CASE o # q
    BY <2>2 DEF ReadsInv, ReadInv, Untouched, InScope, Genuine, NothingMissed, Leaves, vars, PathsOf
  <2> QED
    BY <2>1, <2>2
<1> QED
  BY <1>1, <1>2 DEF ReadsInv

LEMMA BeginScope ==
    ASSUME ReadsInv, NEW q \in Reader, Begin(q)
    PROVE  /\ scope' \in [Reader -> SUBSET Path]
           /\ view' \in [Reader -> {"api", "web"}]
           /\ view'[q] = "web" => scope'[q] = Path
           /\ \A o \in Reader \ {q} : scope'[o] = scope[o] /\ view'[o] = view[o]
<1>1. ASSUME NEW s \in Scopes, scope' = [scope EXCEPT ![q] = s], UNCHANGED view
      PROVE  /\ scope' \in [Reader -> SUBSET Path]
             /\ view' \in [Reader -> {"api", "web"}]
             /\ view'[q] = "web" => scope'[q] = Path
             /\ \A o \in Reader \ {q} : scope'[o] = scope[o] /\ view'[o] = view[o]
  <2>1. view[q] = "api"
    BY DEF ReadsInv, ReadInv, Untouched, Begin
  <2>2. s \subseteq Path
    BY ReadsAssumption
  <2> QED
    BY <1>1, <2>1, <2>2 DEF ReadsInv, ReadsType
<1>2. ASSUME scope' = [scope EXCEPT ![q] = Path], view' = [view EXCEPT ![q] = "web"]
      PROVE  /\ scope' \in [Reader -> SUBSET Path]
             /\ view' \in [Reader -> {"api", "web"}]
             /\ view'[q] = "web" => scope'[q] = Path
             /\ \A o \in Reader \ {q} : scope'[o] = scope[o] /\ view'[o] = view[o]
  BY <1>2 DEF ReadsInv, ReadsType
<1> QED
  BY <1>1, <1>2 DEF Begin

LEMMA ListPathsInv ==
    ASSUME ReadsInv, NEW q \in Reader, ListPaths(q)
    PROVE  ReadsInv'
<1>1. Begin(q) /\ paths' = [paths EXCEPT ![q] = PathsOf(secrets) \cap scope'[q]]
         /\ UNCHANGED <<query, ids, clean>>
  BY DEF ListPaths, Listed
<1>2. /\ UNCHANGED <<vars, page>>
      /\ stage' = [stage EXCEPT ![q] = "reading"]
      /\ since' = [since EXCEPT ![q] = secrets]
      /\ lasting' = [lasting EXCEPT ![q] = PathsOf(secrets)]
  BY <1>1 DEF Begin
<1>3. IInv /\ ReadsType /\ Untouched(q) /\ stage[q] = "idle"
  BY <1>1 DEF ReadsInv, ReadInv, Begin
<1>4. ReadsType'
  BY <1>1, <1>2, <1>3, BeginScope DEF ReadsType
<1>5. Leaves(q)
  BY <1>1, <1>2, <1>3, BeginScope DEF ReadsType, Leaves
<1>6. /\ stage'[q] = "reading" /\ query'[q] = Nil /\ ids'[q] = {} /\ page'[q] = {}
      /\ paths'[q] = PathsOf(secrets) \cap scope'[q]
      /\ since'[q] = secrets /\ lasting'[q] = PathsOf(secrets) /\ UNCHANGED secrets
  BY <1>1, <1>2, <1>3 DEF ReadsType, Untouched, vars
<1>7. (Untouched(q) /\ InScope(q))'
  BY <1>1, <1>6, BeginScope DEF Untouched, InScope
<1>8. (Genuine(q) /\ NothingMissed(q))'
  BY <1>6 DEF Genuine, NothingMissed, PathsOf
<1> QED
  BY <1>4, <1>5, <1>7, <1>8, OneReader DEF ReadInv

LEMMA SearchSecretsInv ==
    ASSUME ReadsInv, NEW q \in Reader, SearchSecrets(q)
    PROVE  ReadsInv'
<1>1. PICK d \in Desc :
        /\ Begin(q) /\ query' = [query EXCEPT ![q] = d]
        /\ \E T \in Hits(Matching(d)) : ids' = [ids EXCEPT ![q] = {e.id : e \in T}]
        /\ UNCHANGED <<paths, clean>>
  BY DEF SearchSecrets
<1>2. /\ UNCHANGED <<vars, page>>
      /\ stage' = [stage EXCEPT ![q] = "reading"]
      /\ since' = [since EXCEPT ![q] = secrets]
      /\ lasting' = [lasting EXCEPT ![q] = PathsOf(secrets)]
  BY <1>1 DEF Begin
<1>3. IInv /\ ReadsType /\ Untouched(q) /\ stage[q] = "idle"
  BY <1>1 DEF ReadsInv, ReadInv, Begin
<1>4. PICK T \in Hits(Matching(d)) : ids' = [ids EXCEPT ![q] = {e.id : e \in T}]
  BY <1>1
<1>5. {e.id : e \in T} \subseteq Nat
  <2>1. T \subseteq fts
    BY DEF Hits, Matching
  <2> QED
    BY <1>3, <2>1, ReadRows
<1>6. ReadsType'
  BY <1>1, <1>2, <1>3, <1>4, <1>5, BeginScope DEF ReadsType, Query
<1>7. Leaves(q)
  BY <1>1, <1>2, <1>3, <1>4, BeginScope DEF ReadsType, Leaves
<1>8. /\ stage'[q] = "reading" /\ query'[q] # Nil /\ page'[q] = {} /\ paths'[q] = {}
      /\ since'[q] = secrets /\ lasting'[q] = PathsOf(secrets) /\ UNCHANGED secrets
  BY <1>1, <1>2, <1>3, ReadsAssumption DEF ReadsType, Untouched, vars
<1>9. (Untouched(q) /\ InScope(q))'
  BY <1>1, <1>8, BeginScope DEF Untouched, InScope
<1>10. (Genuine(q) /\ NothingMissed(q))'
  BY <1>8 DEF Genuine, NothingMissed, PathsOf
<1> QED
  BY <1>6, <1>7, <1>9, <1>10, OneReader DEF ReadInv

LEMMA BlankPageInv ==
    ASSUME ReadsInv, NEW q \in Reader, BlankPage(q)
    PROVE  ReadsInv'
<1>1. PICK d \in Query :
        /\ Begin(q) /\ query' = [query EXCEPT ![q] = d]
        /\ clean' = [clean EXCEPT ![q] = FALSE]
        /\ UNCHANGED <<paths, ids>>
  BY DEF BlankPage
<1>2. /\ UNCHANGED <<vars, page>>
      /\ stage' = [stage EXCEPT ![q] = "reading"]
      /\ since' = [since EXCEPT ![q] = secrets]
      /\ lasting' = [lasting EXCEPT ![q] = PathsOf(secrets)]
  BY <1>1 DEF Begin
<1>3. IInv /\ ReadsType /\ Untouched(q) /\ stage[q] = "idle"
  BY <1>1 DEF ReadsInv, ReadInv, Begin
<1>4. ReadsType'
  BY <1>1, <1>2, <1>3, BeginScope DEF ReadsType
<1>5. Leaves(q)
  BY <1>1, <1>2, <1>3, BeginScope DEF ReadsType, Leaves
<1>6. /\ stage'[q] = "reading" /\ ids'[q] = {} /\ page'[q] = {} /\ paths'[q] = {}
      /\ ~clean'[q]
      /\ since'[q] = secrets /\ lasting'[q] = PathsOf(secrets) /\ UNCHANGED secrets
  BY <1>1, <1>2, <1>3 DEF ReadsType, Untouched, vars
<1>7. (Untouched(q) /\ InScope(q))'
  BY <1>1, <1>6, BeginScope DEF Untouched, InScope
<1>8. (Genuine(q) /\ NothingMissed(q))'
  BY <1>6 DEF Genuine, NothingMissed, PathsOf
<1> QED
  BY <1>4, <1>5, <1>7, <1>8, OneReader DEF ReadInv

\* What every SELECT of a reader has in common.
LEMMA RowStep ==
    ASSUME ReadsInv, NEW q \in Reader, stage[q] = "reading",
           UNCHANGED <<vars, stage, query, view, scope, since, lasting>>,
           ReadsType', clean' \in {clean, [clean EXCEPT ![q] = FALSE]},
           \A o \in Reader \ {q} : /\ paths'[o] = paths[o] /\ ids'[o] = ids[o]
                                   /\ page'[o] = page[o],
           paths'[q] \subseteq scope[q],
           ids'[q] \subseteq ids[q],
           \A x \in page'[q] \ page[q] : x \in secrets /\ x.path \in scope[q],
           query[q] = Nil /\ clean'[q] =>
              lasting[q] \cap scope[q] \subseteq PathsOf(page'[q]) \cup paths'[q]
    PROVE  ReadsInv'
<1>1. ReadsType /\ ReadInv(q)
  BY DEF ReadsInv
<1>2. Leaves(q)
  BY <1>1 DEF Leaves, ReadsType
<1>3. (Untouched(q) /\ InScope(q))'
  BY <1>1 DEF ReadInv, Untouched, InScope
<1>4. Genuine(q)'
  BY <1>1 DEF ReadInv, Genuine, vars
<1>5. NothingMissed(q)'
  BY <1>1 DEF ReadInv, NothingMissed, vars, PathsOf
<1> QED
  BY <1>2, <1>3, <1>4, <1>5, OneReader DEF ReadInv

LEMMA ReadPathInv ==
    ASSUME ReadsInv, NEW q \in Reader, ReadPath(q)
    PROVE  ReadsInv'
<1> DEFINE Shown(p) ==
        {x \in RowsAt(p) : Opens(Kek, x.ct, AADSecret(x.path, x.desc, x.version))}
<1>1. PICK p \in paths[q] :
        /\ paths' = [paths EXCEPT ![q] = @ \ {p}]
        /\ page' = [page EXCEPT ![q] = @ \cup Shown(p)]
  BY DEF ReadPath, Show
<1>2. stage[q] = "reading" /\ UNCHANGED <<vars, stage, query, view, scope, ids, notes>>
  BY DEF ReadPath
<1>3. IInv /\ ReadsType /\ InScope(q) /\ NothingMissed(q)
  BY DEF ReadsInv, ReadInv
<1>4. Shown(p) = RowsAt(p) /\ RowsAt(p) \subseteq secrets /\ secrets \subseteq Row
  BY <1>3, ReadRows
<1>5. \A x \in Shown(p) : x.path = p
  BY DEF RowsAt
<1>6. p \in PathsOf(secrets) => p \in PathsOf(Shown(p))
  BY <1>4 DEF PathsOf, RowsAt
<1>7. /\ paths'[q] = paths[q] \ {p} /\ page'[q] = page[q] \cup Shown(p)
      /\ \A o \in Reader \ {q} : paths'[o] = paths[o] /\ page'[o] = page[o]
  BY <1>1, <1>3 DEF ReadsType
<1> HIDE DEF Shown
<1>8. query[q] = Nil /\ clean'[q] =>
         lasting[q] \cap scope[q] \subseteq PathsOf(page'[q]) \cup paths'[q]
  BY <1>2, <1>3, <1>6, <1>7 DEF NothingMissed, PathsOf, notes
<1>9. ReadsType'
  BY <1>1, <1>2, <1>3, <1>4 DEF ReadsType, notes
<1>10. /\ paths'[q] \subseteq scope[q]
       /\ \A x \in page'[q] \ page[q] : x \in secrets /\ x.path \in scope[q]
  BY <1>3, <1>4, <1>5, <1>7 DEF InScope
<1> QED
  BY <1>2, <1>4, <1>7, <1>8, <1>9, <1>10, RowStep DEF notes

LEMMA ReadIdInv ==
    ASSUME ReadsInv, NEW q \in Reader, ReadId(q)
    PROVE  ReadsInv'
<1> DEFINE Shown(i) == {x \in RowsWithId(i) : x.path \in scope[q]}
<1>1. PICK i \in ids[q] :
        /\ ids' = [ids EXCEPT ![q] = @ \ {i}]
        /\ page' = [page EXCEPT ![q] = @ \cup Shown(i)]
  BY DEF ReadId, Show, CanAccess
<1>2. stage[q] = "reading" /\ UNCHANGED <<vars, stage, query, view, scope, paths, notes>>
  BY DEF ReadId
<1>3. IInv /\ ReadsType /\ InScope(q) /\ NothingMissed(q)
  BY DEF ReadsInv, ReadInv
<1>4. Shown(i) \subseteq secrets /\ secrets \subseteq Row
  BY <1>3, ReadRows
<1>5. /\ ids'[q] = ids[q] \ {i} /\ page'[q] = page[q] \cup Shown(i)
      /\ \A o \in Reader \ {q} : ids'[o] = ids[o] /\ page'[o] = page[o]
  BY <1>1, <1>3 DEF ReadsType
<1>6. \A x \in page'[q] \ page[q] : x \in secrets /\ x.path \in scope[q]
  BY <1>4, <1>5
<1> HIDE DEF Shown
<1>7. query[q] = Nil /\ clean'[q] =>
         lasting[q] \cap scope[q] \subseteq PathsOf(page'[q]) \cup paths'[q]
  BY <1>2, <1>3, <1>5 DEF NothingMissed, PathsOf, notes
<1>8. ReadsType'
  BY <1>1, <1>2, <1>3, <1>4 DEF ReadsType, notes
<1>9. paths'[q] \subseteq scope[q]
  BY <1>2, <1>3 DEF InScope
<1> QED
  BY <1>2, <1>4, <1>5, <1>6, <1>7, <1>8, <1>9, RowStep DEF notes

LEMMA ReadPathOfIdInv ==
    ASSUME ReadsInv, NEW q \in Reader, ReadPathOfId(q)
    PROVE  ReadsInv'
<1>1. PICK i \in ids[q] :
        /\ ids' = [ids EXCEPT ![q] = @ \ {i}]
        /\ paths' = [paths EXCEPT ![q] = @ \cup PathsOf(RowsWithId(i))]
  BY DEF ReadPathOfId
<1>2. /\ stage[q] = "reading" /\ view[q] = "web"
      /\ UNCHANGED <<vars, stage, query, view, scope, page, notes>>
  BY DEF ReadPathOfId
<1>3. IInv /\ ReadsType /\ InScope(q) /\ NothingMissed(q)
  BY DEF ReadsInv, ReadInv
<1>4. PathsOf(RowsWithId(i)) \subseteq Path
  BY <1>3, ReadRows DEF PathsOf
<1>5. /\ ids'[q] = ids[q] \ {i} /\ paths'[q] = paths[q] \cup PathsOf(RowsWithId(i))
      /\ \A o \in Reader \ {q} : ids'[o] = ids[o] /\ paths'[o] = paths[o]
  BY <1>1, <1>3 DEF ReadsType
<1>6. ReadsType'
  BY <1>1, <1>2, <1>3, <1>4 DEF ReadsType, notes
<1>7. paths'[q] \subseteq scope[q]
  BY <1>2, <1>3, <1>4, <1>5 DEF InScope
<1>8. query[q] = Nil /\ clean'[q] =>
         lasting[q] \cap scope[q] \subseteq PathsOf(page'[q]) \cup paths'[q]
  <2>1. clean'[q] = clean[q] /\ lasting[q] = lasting[q]
    BY <1>2 DEF notes
  <2> QED
    BY <1>2, <1>3, <1>5, <2>1 DEF NothingMissed
<1>9. page'[q] \ page[q] = {}
  BY <1>2
<1> QED
  BY <1>2, <1>5, <1>6, <1>7, <1>8, <1>9, RowStep DEF notes

LEMMA SkipRowInv ==
    ASSUME ReadsInv, NEW q \in Reader, SkipRow(q)
    PROVE  ReadsInv'
<1>1. /\ stage[q] = "reading" /\ clean' = [clean EXCEPT ![q] = FALSE]
      /\ UNCHANGED <<vars, stage, query, view, scope, page, since, lasting>>
  BY DEF SkipRow
<1>2. ReadsType /\ InScope(q)
  BY DEF ReadsInv, ReadInv
<1>3. \/ \E p \in paths[q] : paths' = [paths EXCEPT ![q] = @ \ {p}] /\ UNCHANGED ids
      \/ \E i \in ids[q] : ids' = [ids EXCEPT ![q] = @ \ {i}] /\ UNCHANGED paths
  BY DEF SkipRow
<1>4. /\ paths'[q] \subseteq paths[q] /\ ids'[q] \subseteq ids[q]
      /\ \A o \in Reader \ {q} : ids'[o] = ids[o] /\ paths'[o] = paths[o]
  BY <1>2, <1>3 DEF ReadsType
<1>5. ReadsType'
  BY <1>1, <1>2, <1>3 DEF ReadsType
<1>6. paths'[q] \subseteq scope[q] /\ page'[q] \ page[q] = {} /\ ~clean'[q]
  BY <1>1, <1>2, <1>4 DEF InScope, ReadsType
<1> QED
  BY <1>1, <1>4, <1>5, <1>6, RowStep

LEMMA RespondInv ==
    ASSUME ReadsInv, NEW q \in Reader, Respond(q) \/ ReadFails(q)
    PROVE  ReadsInv'
<1>1. /\ UNCHANGED <<vars, query, view, scope, paths, ids, page, notes>>
      /\ \/ stage' = [stage EXCEPT ![q] = "ok"] /\ stage[q] = "reading" /\ paths[q] = {}
         \/ stage' = [stage EXCEPT ![q] = "failed"]
  BY DEF Respond, ReadFails
<1>2. ReadsType /\ ReadInv(q)
  BY DEF ReadsInv
<1>3. ReadsType' /\ Leaves(q)
  BY <1>1, <1>2 DEF ReadsType, Leaves, notes
<1>4. ReadInv(q)'
  BY <1>1, <1>2 DEF ReadsType, ReadInv, Untouched, InScope, Genuine, NothingMissed, notes
<1> QED
  BY <1>3, <1>4, OneReader

\* A step of the requests, or the end of the process.
LEMMA WatchInv ==
    ASSUME ReadsInv, Requests
    PROVE  ReadsInv'
<1>1. IInv'
  <2>1. Next
    BY DEF Requests, Next
  <2> QED
    BY <2>1, StepInv DEF ReadsInv
<1>2. Watch /\ UNCHANGED progress /\ ReadsType
  BY DEF Requests, ReadsInv
<1>3. ReadsType'
  BY <1>2 DEF ReadsType, Watch, progress
<1>4. ASSUME NEW q \in Reader PROVE ReadInv(q)'
  <2>1. ReadInv(q)
    BY DEF ReadsInv
  <2>2. since'[q] = IF stage[q] = "reading" THEN since[q] \cup secrets' ELSE since[q]
    BY <1>2 DEF Watch
  <2>3. lasting'[q] = IF stage[q] = "reading" THEN lasting[q] \cap PathsOf(secrets')
                                             ELSE lasting[q]
    BY <1>2 DEF Watch
  <2>4. (Untouched(q) /\ InScope(q))'
    BY <1>2, <2>1 DEF ReadInv, Untouched, InScope, progress
  <2>5. Genuine(q)'
    BY <1>2, <2>1, <2>2 DEF ReadInv, Genuine, progress
  <2>6. NothingMissed(q)'
    BY <1>2, <2>1, <2>3 DEF ReadInv, NothingMissed, progress, Watch, PathsOf
  <2> QED
    BY <2>4, <2>5, <2>6 DEF ReadInv
<1> QED
  BY <1>1, <1>3, <1>4 DEF ReadsInv

LEMMA DiesInv ==
    ASSUME ReadsInv, Dies
    PROVE  ReadsInv'
<1>1. IInv'
  BY StepInv DEF ReadsInv, Dies, Next
<1>2. /\ stage' = [q \in Reader |-> IF stage[q] = "reading" THEN "failed" ELSE stage[q]]
      /\ UNCHANGED <<secrets, query, view, scope, paths, ids, page, notes>>
  BY DEF Dies, Crash, table
<1>3. ReadsType'
  BY <1>2 DEF ReadsInv, ReadsType, notes
<1>4. ASSUME NEW q \in Reader PROVE ReadInv(q)'
  BY <1>2 DEF ReadsInv, ReadInv, Untouched, InScope, Genuine, NothingMissed, notes
<1> QED
  BY <1>1, <1>3, <1>4 DEF ReadsInv

\* The readers' invariant holds in every reachable state.
THEOREM ReadsInvariance == ReadsSpec => []ReadsInv
<1>1. ReadsInv /\ [ReadsNext]_allvars => ReadsInv'
  <2> SUFFICES ASSUME ReadsInv, [ReadsNext]_allvars PROVE ReadsInv'
    OBVIOUS
  <2>1. CASE UNCHANGED allvars
    <3>1. IInv'
      BY <2>1, StepInv DEF ReadsInv, allvars
    <3>2. ReadsType' /\ \A q \in Reader : ReadInv(q)'
      BY <2>1 DEF allvars, readvars, progress, notes, vars, ReadsInv, ReadsType, ReadInv,
                  Untouched, InScope, Genuine, NothingMissed, PathsOf
    <3> QED
      BY <3>1, <3>2 DEF ReadsInv
  <2>2. CASE Requests \/ Dies
    BY <2>2, WatchInv, DiesInv
  <2>3. ASSUME NEW q \in Reader, ReadStep(q)
        PROVE  ReadsInv'
    BY <2>3, ListPathsInv, SearchSecretsInv, ReadPathInv, ReadIdInv, ReadPathOfIdInv,
       SkipRowInv, RespondInv, BlankPageInv DEF ReadStep
  <2> QED
    BY <2>1, <2>2, <2>3 DEF ReadsNext
<1> QED
  BY <1>1, ReadsInitInv, PTL DEF ReadsSpec

\* The readers' state is well typed beside any requests.
THEOREM ReadsTypeCorrect == ReadsSpec => []ReadsTypeOK
<1>1. ReadsInv => ReadsTypeOK
  BY DEF ReadsInv, IInv, TableInv, ReadsType, ReadsTypeOK
<1> QED
  BY <1>1, ReadsInvariance, PTL

\* No list and no search shows a secret outside the scope of who asks,
\* whatever is written, deleted and renumbered while it reads.
THEOREM ReadersStayInScope == ReadsSpec => []ReadsStayInScope
<1>1. ReadsInv => ReadsStayInScope
  BY DEF ReadsInv, ReadInv, InScope, ReadsStayInScope
<1> QED
  BY <1>1, ReadsInvariance, PTL

\* Every line of an answer is a row as it was stored during the request.
THEOREM ReadersShowRows == ReadsSpec => []ReadsAreGenuine
<1>1. ReadsInv => ReadsAreGenuine
  BY DEF ReadsInv, ReadInv, Genuine, ReadsAreGenuine
<1> QED
  BY <1>1, ReadsInvariance, PTL

\* A list whose SELECTs succeeded has every secret in scope that was there all
\* the time: it rests on EveryRowOpens, as a row that did not open would be
\* left out.
THEOREM ListsAreComplete == ReadsSpec => []ListsMissNothing
<1>1. ReadsInv => ListsMissNothing
  BY DEF ReadsInv, ReadInv, NothingMissed, ListsMissNothing
<1> QED
  BY <1>1, ReadsInvariance, PTL

-----------------------------------------------------------------------------
(* The promise: SecretStore implements SecretMap wherever a write finds    *)
(* the row that its handler read.  InPlace says so; a put needs no row,    *)
(* and until something is deleted no row is missing.                       *)

Writes == {"put", "save", "annotate"}

\* What a request works on is what it was asked.
OnItsWay(r) ==
    /\ pc[r] = "idle" => job[r] = Nil
    /\ pc[r] # "done" => reply[r] = "none"
    /\ pc[r] \in {"upsert", "selectid", "sync"} =>
          job[r].op \in Writes /\ row[r].path = job[r].path
    /\ pc[r] = "upsert" /\ job[r].op = "put" => Content(row[r]) = Promise!Written(job[r])
    /\ pc[r] \in {"remove", "unindex"} => job[r].op = "delete" /\ row[r].path = job[r].path

Tracked == \A r \in Req : OnItsWay(r)

InPlace(r) ==
    /\ pc[r] = "upsert" /\ job[r].op # "put" =>
          /\ RowsAt(job[r].path) # {}
          /\ Content(row[r]) = Promise!Effect(MapOf[job[r].path], job[r])
    /\ pc[r] = "selectid" => RowsAt(row[r].path) # {}
    /\ pc[r] = "remove" =>
          RowsWithId(row[r].id) = RowsAt(job[r].path) /\ RowsAt(job[r].path) # {}

\* The draft of a handler is for the path of its job.
LEMMA DraftOnItsWay ==
    ASSUME TableInv, NEW r \in Req, OnItsWay(r), pc[r] = "read", job[r].op \in Writes,
           UNCHANGED job, NEW i, NEW v, NEW d, NEW m, NEW n,
           Hold(r, SealedRow(i, job[r].path, v, d, m, n)), Goto(r, "upsert"),
           job[r].op = "put" => v = job[r].value /\ d = job[r].desc /\ m = job[r].meta
    PROVE  OnItsWay(r)'
<1>1. row'[r] = SealedRow(i, job[r].path, v, d, m, n) /\ pc'[r] = "upsert"
         /\ reply' = reply /\ reply[r] = "none"
  BY DEF TableInv, TypeOK, Hold, Goto, OnItsWay
<1>2. row'[r].path = job[r].path
  BY <1>1 DEF SealedRow
<1>3. job[r].op = "put" => Content(row'[r]) = Promise!Written(job[r])
  BY <1>1 DEF SealedRow, Seal, Content, Promise!Written
<1> QED
  BY <1>1, <1>2, <1>3 DEF OnItsWay

LEMMA ResealOnItsWay ==
    ASSUME TableInv, NEW r \in Req, OnItsWay(r), pc[r] = "read", job[r].op \in {"save", "annotate"},
           UNCHANGED job, NEW x \in RowsAt(job[r].path), NEW i, NEW d, NEW m, Reseal(r, x, i, d, m)
    PROVE  OnItsWay(r)'
<1>1. CASE Answer(r, "decrypt_failed")
  BY <1>1 DEF Answer, TableInv, TypeOK, OnItsWay
<1>2. CASE /\ Hold(r, SealedRow(i, x.path, x.ct.value, d, m, BumpedVersion(x, d)))
           /\ Goto(r, "upsert")
  BY <1>2, DraftOnItsWay DEF RowsAt, Writes
<1> QED
  BY <1>1, <1>2 DEF Reseal

\* A step of one request leaves the others as they are.
LEMMA OneRequest ==
    ASSUME TableInv, NEW r \in Req, Arrive(r) \/ Abort(r) \/ PutUnread(r) \/ Handle(r),
           NEW q \in Req, q # r
    PROVE  pc'[q] = pc[q] /\ job'[q] = job[q] /\ row'[q] = row[q] /\ reply'[q] = reply[q]
<1> USE DEF TableInv, TypeOK, Goto, Answer, Hold, Reading, table
<1>1. CASE Arrive(r) \/ Abort(r) \/ PutUnread(r) \/ HandleGet(r) \/ HandlePut(r) \/ HandleDelete(r)
  BY <1>1 DEF Arrive, Abort, PutUnread, HandleGet, HandlePut, HandleDelete
<1>2. CASE HandleSave(r) \/ HandleAnnotate(r)
  BY <1>2 DEF HandleSave, HandleAnnotate, Reseal
<1>3. CASE Upsert(r) \/ SelectId(r) \/ SyncFTS(r) \/ Remove(r) \/ Unindex(r)
  BY <1>3 DEF Upsert, SelectId, SyncFTS, Remove, Unindex
<1> QED
  BY <1>1, <1>2, <1>3 DEF Handle

LEMMA TrackedOne ==
    ASSUME TableInv, NEW r \in Req, OnItsWay(r), Arrive(r) \/ Abort(r) \/ PutUnread(r) \/ Handle(r)
    PROVE  OnItsWay(r)'
<1> USE DEF TableInv, TypeOK
<1>1. CASE Arrive(r)
  BY <1>1 DEF Arrive, Goto, OnItsWay
<1>2. CASE Abort(r) \/ SyncFTS(r) \/ Unindex(r)
  BY <1>2 DEF Abort, SyncFTS, Unindex, Answer, OnItsWay
<1>3. CASE PutUnread(r)
  BY <1>3, DraftOnItsWay DEF PutUnread, Reading, Writes
<1>4. CASE HandleGet(r)
  BY <1>4 DEF HandleGet, Answer, Reading, OnItsWay
<1>5. CASE HandlePut(r)
  BY <1>5, DraftOnItsWay DEF HandlePut, Reading, Writes
<1>6. CASE HandleSave(r) \/ HandleAnnotate(r)
  <2>1. CASE \E status : Answer(r, status)
    BY <2>1 DEF Answer, OnItsWay
  <2>2. CASE \E x \in RowsAt(job[r].path) : \E i, d, m : Reseal(r, x, i, d, m)
    BY <1>6, <2>2, ResealOnItsWay DEF HandleSave, HandleAnnotate, Reading
  <2> QED
    BY <1>6, <2>1, <2>2 DEF HandleSave, HandleAnnotate
<1>7. CASE HandleDelete(r)
  <2>1. CASE Answer(r, "not_found")
    BY <2>1 DEF Answer, OnItsWay
  <2>2. CASE \E x \in RowsAt(job[r].path) : Hold(r, x) /\ Goto(r, "remove")
    BY <1>7, <2>2 DEF HandleDelete, Reading, Hold, Goto, RowsAt, OnItsWay
  <2> QED
    BY <1>7, <2>1, <2>2 DEF HandleDelete
<1>8. CASE Upsert(r) \/ Remove(r)
  BY <1>8 DEF Upsert, Remove, Goto, OnItsWay
<1>9. CASE SelectId(r)
  <2>1. CASE Answer(r, "error")
    BY <2>1 DEF Answer, OnItsWay
  <2>2. CASE \E x \in RowsAt(row[r].path) : Hold(r, [row[r] EXCEPT !.id = x.id]) /\ Goto(r, "sync")
    <3>1. row[r] \in Row
      BY <1>9 DEF SelectId, Held, Running
    <3>2. pc'[r] = "sync" /\ row'[r].path = row[r].path
      BY <2>2, <3>1 DEF Hold, Goto, Row
    <3> QED
      BY <1>9, <2>2, <3>2 DEF SelectId, Goto, OnItsWay
  <2> QED
    BY <1>9, <2>1, <2>2 DEF SelectId
<1> QED
  BY <1>1, <1>2, <1>3, <1>4, <1>5, <1>6, <1>7, <1>8, <1>9 DEF Handle

LEMMA TrackedStep == ASSUME TableInv, Tracked, [Next]_vars PROVE Tracked'
<1>1. CASE UNCHANGED vars
  BY <1>1 DEF vars, Tracked, OnItsWay, Content, Promise!Written
<1>2. CASE Crash
  BY <1>2 DEF Crash, Active, Running, TableInv, TypeOK, Tracked, OnItsWay
<1>3. ASSUME NEW r \in Req, Arrive(r) \/ Abort(r) \/ PutUnread(r) \/ Handle(r),
             NEW q \in Req
      PROVE  OnItsWay(q)'
  <2>1. CASE q = r
    BY <1>3, <2>1, TrackedOne DEF Tracked
  <2>2. CASE q # r
    BY <1>3, <2>2, OneRequest DEF Tracked, OnItsWay, Content, Promise!Written
  <2> QED
    BY <2>1, <2>2
<1> QED
  BY <1>1, <1>2, <1>3 DEF Next, Tracked

-----------------------------------------------------------------------------
(* What the promise sees of a step.                                        *)

\* The map has the content of the one row of a path.
LEMMA MapEntry ==
    ASSUME TableInv, NEW p \in Path
    PROVE  /\ RowsAt(p) = {} => MapOf[p] = Nil
           /\ \A x \in RowsAt(p) : RowsAt(p) = {x} /\ MapOf[p] = Content(x) /\ Content(x) # Nil
<1>1. CASE RowsAt(p) = {}
  BY <1>1 DEF MapOf
<1>2. ASSUME NEW x \in RowsAt(p)
      PROVE  RowsAt(p) = {x} /\ MapOf[p] = Content(x) /\ Content(x) # Nil
  <2>1. RowsAt(p) = {x}
    BY DEF TableInv, TypeOK, RowsAt
  <2>2. Content(x) \in [value : Value, desc : Desc, meta : SUBSET Meta]
    BY StoredRow DEF Row, Sealed, Content
  <2>3. MapOf[p] = Content(CHOOSE z \in {x} : TRUE)
    BY <2>1 DEF MapOf
  <2>4. (CHOOSE z \in {x} : TRUE) = x
    OBVIOUS
  <2> QED
    BY <2>1, <2>2, <2>3, <2>4, ConstantsAssumption
<1> QED
  BY <1>1, <1>2

\* The map after a write: one path changes.
LEMMA MapAfter ==
    ASSUME NEW p \in Path, NEW e,
           \A q \in Path \ {p} : RowsAt(q)' = RowsAt(q),
           MapOf[p]' = e
    PROVE  MapOf' = [MapOf EXCEPT ![p] = e]
<1>1. \A q \in Path \ {p} : MapOf[q]' = MapOf[q]
  BY DEF MapOf, Content
<1>2. MapOf' = [q \in Path |-> MapOf[q]'] /\ MapOf = [q \in Path |-> MapOf[q]]
  BY DEF MapOf
<1> QED
  BY <1>1, <1>2

LEMMA SameMap == ASSUME UNCHANGED secrets PROVE MapOf' = MapOf
BY DEF MapOf, RowsAt, Content

LEMMA AnswerSeen ==
    ASSUME TableInv, NEW r \in Req, NEW status, Answer(r, status)
    PROVE  OutcomeOf(r)' = status /\ pc'[r] = "done" /\ reply'[r] = status
BY DEF TableInv, TypeOK, Answer, OutcomeOf

LEMMA GotoSeen ==
    ASSUME TableInv, Tracked, NEW r \in Req, NEW label \in Running, Goto(r, label), pc[r] # "done"
    PROVE  /\ OutcomeOf(r)' = IF label \in {"read", "upsert", "remove"} THEN "pending"
                                                                      ELSE "applied"
           /\ SeenOf(r)' = Nil
BY DEF TableInv, TypeOK, Tracked, OnItsWay, Goto, OutcomeOf, SeenOf, Running

LEMMA StageSeen ==
    ASSUME TableInv, Tracked, NEW r \in Req
    PROVE  /\ pc[r] = "idle" => OutcomeOf(r) = "none" /\ SeenOf(r) = Nil
           /\ pc[r] \in {"read", "upsert", "remove"} => OutcomeOf(r) = "pending" /\ SeenOf(r) = Nil
           /\ pc[r] \in {"selectid", "sync", "unindex"} => OutcomeOf(r) = "applied" /\ SeenOf(r) = Nil
           /\ pc[r] = "done" => OutcomeOf(r) = reply[r]
BY DEF Tracked, OnItsWay, OutcomeOf, SeenOf

\* What an action of SecretMap needs of the requests: r changes, the others
\* are seen as before.
LEMMA BecomeSeen ==
    ASSUME TableInv, NEW r \in Req, Arrive(r) \/ Abort(r) \/ PutUnread(r) \/ Handle(r)
    PROVE  /\ Promise!Become(r, OutcomeOf(r)')
           /\ SeenOf(r)' = SeenOf(r) =>
                 [q \in Req |-> SeenOf(q)]' = [q \in Req |-> SeenOf(q)]
           /\ [q \in Req |-> SeenOf(q)]' = [[q \in Req |-> SeenOf(q)] EXCEPT ![r] = SeenOf(r)']
<1>1. \A q \in Req \ {r} : OutcomeOf(q)' = OutcomeOf(q) /\ SeenOf(q)' = SeenOf(q)
  BY OneRequest DEF OutcomeOf, SeenOf, Content
<1> QED
  BY <1>1 DEF Promise!Become

LEMMA Stutters ==
    ASSUME TableInv, NEW r \in Req, Arrive(r) \/ Abort(r) \/ PutUnread(r) \/ Handle(r),
           UNCHANGED <<secrets, job>>, OutcomeOf(r)' = OutcomeOf(r), SeenOf(r)' = SeenOf(r)
    PROVE  UNCHANGED Promise!vars
<1>1. MapOf' = MapOf
  BY SameMap
<1>2. [q \in Req |-> OutcomeOf(q)]' = [q \in Req |-> OutcomeOf(q)]
  BY BecomeSeen DEF Promise!Become
<1>3. [q \in Req |-> SeenOf(q)]' = [q \in Req |-> SeenOf(q)]
  BY BecomeSeen
<1> QED
  BY <1>1, <1>2, <1>3 DEF Promise!vars

-----------------------------------------------------------------------------
(* One lemma per statement: the step of SecretMap it is.                   *)

LEMMA ArriveAsks ==
    ASSUME TableInv, Tracked, NEW r \in Req, Arrive(r)
    PROVE  Promise!Ask(r)
<1>1. pc[r] = "idle" /\ Goto(r, "read") /\ UNCHANGED secrets
         /\ \E j \in Jobs : job' = [job EXCEPT ![r] = j]
  BY DEF Arrive, table
<1>2. OutcomeOf(r) = "none" /\ OutcomeOf(r)' = "pending" /\ SeenOf(r) = Nil /\ SeenOf(r)' = Nil
  BY <1>1, StageSeen, GotoSeen DEF Running
<1>3. MapOf' = MapOf
  BY <1>1, SameMap
<1> QED
  BY <1>1, <1>2, <1>3, BecomeSeen DEF Promise!Ask

LEMMA AbortFails ==
    ASSUME TableInv, Tracked, NEW r \in Req, Abort(r)
    PROVE  Promise!Fail(r)
<1>1. "request" \in Failures /\ pc[r] \in Running /\ UNCHANGED <<secrets, job>>
         /\ \E o \in {"error", "not_found"} : Answer(r, o)
  BY DEF Abort, table
<1>2. OutcomeOf(r) \in {"pending", "applied"} /\ OutcomeOf(r)' \in {"error", "not_found"}
         /\ SeenOf(r) = Nil /\ SeenOf(r)' = Nil
  BY <1>1, StageSeen, AnswerSeen DEF Running, SeenOf
<1>3. MapOf' = MapOf
  BY <1>1, SameMap
<1> QED
  BY <1>1, <1>2, <1>3, BecomeSeen DEF Promise!Fail, Promise!Open

\* A handler that found no row says so; put does not mind.
LEMMA MissRefuses ==
    ASSUME TableInv, Tracked, NEW r \in Req, Handle(r), pc[r] = "read", job[r].op # "put",
           RowsAt(job[r].path) = {}, Answer(r, "not_found"), UNCHANGED <<secrets, job>>
    PROVE  Promise!Refuse(r)
<1>1. job[r] \in Jobs /\ job[r].path \in Path
  BY ConstantsAssumption DEF TableInv, Held, Running, AllJobs
<1>2. OutcomeOf(r) = "pending" /\ OutcomeOf(r)' = "not_found" /\ SeenOf(r) = Nil /\ SeenOf(r)' = Nil
  BY StageSeen, AnswerSeen DEF SeenOf
<1>3. MapOf' = MapOf /\ MapOf[job[r].path] = Nil
  BY <1>1, SameMap, MapEntry
<1> QED
  BY <1>2, <1>3, BecomeSeen DEF Promise!Refuse, Promise!Exists

\* A handler that goes on to its first write has done nothing yet.
LEMMA DraftStutters ==
    ASSUME TableInv, Tracked, NEW r \in Req, PutUnread(r) \/ Handle(r), pc[r] = "read",
           NEW label \in {"upsert", "remove"}, Goto(r, label), UNCHANGED <<secrets, job>>
    PROVE  UNCHANGED Promise!vars
<1>1. OutcomeOf(r) = "pending" /\ OutcomeOf(r)' = "pending" /\ SeenOf(r) = Nil /\ SeenOf(r)' = Nil
  BY StageSeen, GotoSeen DEF Running
<1> QED
  BY <1>1, Stutters

LEMMA HandleGetFetches ==
    ASSUME IInv, Tracked, NEW r \in Req, HandleGet(r)
    PROVE  Promise!Fetch(r) \/ Promise!Refuse(r)
<1>1. TableInv /\ Handle(r) /\ pc[r] = "read" /\ job[r].op = "get" /\ UNCHANGED <<secrets, job>>
  BY DEF IInv, Handle, HandleGet, Reading, table
<1>2. job[r] \in Jobs /\ job[r].path \in Path /\ job[r] # Nil
  BY <1>1, ConstantsAssumption DEF TableInv, Held, Running, AllJobs
<1>3. CASE RowsAt(job[r].path) = {} /\ Answer(r, "not_found") /\ UNCHANGED row
  BY <1>1, <1>3, MissRefuses
<1>4. ASSUME NEW x \in RowsAt(job[r].path), Hold(r, x),
             Answer(r, IF Opens(Kek, x.ct, AADSecret(x.path, x.desc, x.version))
                       THEN "ok" ELSE "decrypt_failed")
      PROVE  Promise!Fetch(r)
  <2>1. Opens(Kek, x.ct, AADSecret(x.path, x.desc, x.version))
    BY DEF IInv, RowsOpen, RowsAt, Opens
  <2>2. OutcomeOf(r) = "pending" /\ OutcomeOf(r)' = "ok" /\ reply'[r] = "ok"
    BY <1>1, <1>4, <2>1, StageSeen, AnswerSeen
  <2>3. row'[r] = x
    BY <1>1, <1>4 DEF TableInv, TypeOK, Hold
  <2>4. SeenOf(r)' = Content(x)
    BY <1>1, <1>2, <2>2, <2>3 DEF SeenOf, Content
  <2>5. MapOf' = MapOf /\ MapOf[job[r].path] = Content(x) /\ Content(x) # Nil
    BY <1>1, <1>2, SameMap, MapEntry
  <2>6. [q \in Req |-> SeenOf(q)]' = [[q \in Req |-> SeenOf(q)] EXCEPT ![r] = Content(x)]
    BY <1>1, <2>4, BecomeSeen
  <2>7. Promise!Become(r, "ok")
    BY <1>1, <2>2, BecomeSeen
  <2> QED
    BY <1>1, <2>2, <2>5, <2>6, <2>7 DEF Promise!Fetch, Promise!Exists
<1> QED
  BY <1>3, <1>4 DEF HandleGet

\* With every row opening, what keeps the value gets to its upsert.
LEMMA ResealStutters ==
    ASSUME IInv, Tracked, NEW r \in Req, Handle(r), pc[r] = "read", UNCHANGED <<secrets, job>>,
           NEW x \in RowsAt(job[r].path), NEW i, NEW d, NEW m, Reseal(r, x, i, d, m)
    PROVE  UNCHANGED Promise!vars
<1>1. Opens(Kek, x.ct, x.aad)
  BY DEF IInv, RowsOpen, RowsAt, Opens
<1>2. Goto(r, "upsert")
  BY <1>1 DEF Reseal
<1> QED
  BY <1>2, DraftStutters DEF IInv

LEMMA HandlersRefine ==
    ASSUME IInv, Tracked, NEW r \in Req, HandlePut(r) \/ HandleSave(r) \/ HandleDelete(r)
    PROVE  Promise!Refuse(r) \/ UNCHANGED Promise!vars
<1>1. TableInv /\ Handle(r) /\ pc[r] = "read" /\ UNCHANGED <<secrets, job>>
  BY DEF IInv, Handle, HandlePut, HandleSave, HandleDelete, Reading, table
<1>2. CASE HandlePut(r)
  BY <1>1, <1>2, DraftStutters DEF HandlePut
<1>3. CASE HandleSave(r)
  BY <1>1, <1>3, MissRefuses, ResealStutters DEF HandleSave, Reading
<1>4. CASE HandleDelete(r)
  BY <1>1, <1>4, MissRefuses, DraftStutters DEF HandleDelete, Reading
<1> QED
  BY <1>2, <1>3, <1>4

LEMMA HandleAnnotateRefines ==
    ASSUME IInv, Tracked, NEW r \in Req, HandleAnnotate(r)
    PROVE  Promise!Refuse(r) \/ Promise!Nothing(r) \/ UNCHANGED Promise!vars
<1>1. TableInv /\ Handle(r) /\ pc[r] = "read" /\ job[r].op = "annotate" /\ UNCHANGED <<secrets, job>>
  BY DEF IInv, Handle, HandleAnnotate, Reading, table
<1>2. job[r].path \in Path
  BY <1>1, ConstantsAssumption DEF TableInv, Held, Running, AllJobs
<1>3. ASSUME NEW x \in RowsAt(job[r].path), Unchanged(x, job[r]), Answer(r, "ok")
      PROVE  Promise!Nothing(r)
  <2>1. OutcomeOf(r) = "pending" /\ OutcomeOf(r)' = "ok" /\ SeenOf(r) = Nil
    BY <1>1, <1>3, StageSeen, AnswerSeen
  <2>2. SeenOf(r)' = Nil
    BY <1>1 DEF SeenOf
  <2>3. MapOf' = MapOf /\ MapOf[job[r].path] = Content(x) /\ Content(x) # Nil
    BY <1>1, <1>2, SameMap, MapEntry
  <2>4. Promise!Effect(Content(x), job[r]) = Content(x)
    BY <1>1, <1>3
       DEF Unchanged, NewDesc, Merged, Content, Promise!Effect, Promise!Annotated
  <2> QED
    BY <1>1, <2>1, <2>2, <2>3, <2>4, BecomeSeen DEF Promise!Nothing, Promise!Exists
<1> QED
  BY <1>1, <1>3, MissRefuses, ResealStutters DEF HandleAnnotate

LEMMA UpsertApplies ==
    ASSUME TableInv, Tracked, NEW r \in Req, InPlace(r), Upsert(r)
    PROVE  Promise!Apply(r)
<1> DEFINE j == job[r]
<1>0. PICK p : p = job[r].path
  OBVIOUS
<1>1. /\ pc[r] = "upsert" /\ secrets' = Upserted(row[r]) /\ Goto(r, "selectid")
      /\ row[r] \in Row /\ row[r].path = p /\ j \in Jobs /\ j.op \in Writes /\ UNCHANGED <<job, row>>
  BY <1>0 DEF Upsert, TableInv, Held, Running, Tracked, OnItsWay
<1>2. p \in Path
  BY <1>0, <1>1, ConstantsAssumption DEF AllJobs
<1>3. PICK i \in Nat : secrets' = {x \in secrets : x.path # p} \cup {[row[r] EXCEPT !.id = i]}
  BY <1>0, <1>1, UpsertedRow
<1> DEFINE y == [row[r] EXCEPT !.id = i]
<1>4. y.path = p /\ Content(y) = Content(row[r])
  BY <1>0, <1>1 DEF Row, Content
<1>5. secrets' = {x \in secrets : x.path # p} \cup {y}
  BY <1>0, <1>3
<1> HIDE DEF y, j
<1>6. RowsAt(p)' = {y} /\ \A q \in Path \ {p} : RowsAt(q)' = RowsAt(q)
  BY <1>0, <1>4, <1>5 DEF RowsAt
<1>7. MapOf[p]' = Content(row[r])
  <2>1. (CHOOSE z \in {y} : TRUE) = y
    OBVIOUS
  <2>2. MapOf[p]' = Content(CHOOSE z \in {y} : TRUE)
    BY <1>0, <1>1, <1>2, <1>6 DEF MapOf, Content
  <2> QED
    BY <1>0, <1>4, <2>1, <2>2
<1>8. Content(row[r]) = Promise!Effect(MapOf[p], j) /\ (j.op = "put" \/ MapOf[p] # Nil)
  <2>1. CASE j.op = "put"
    BY <1>0, <1>1, <2>1 DEF Tracked, OnItsWay, Promise!Effect, j
  <2>2. CASE j.op # "put"
    BY <1>0, <1>1, <1>2, <2>2, MapEntry DEF InPlace, j
  <2> QED
    BY <2>1, <2>2
<1>9. MapOf' = [MapOf EXCEPT ![p] = Promise!Effect(@, j)]
  BY <1>0, <1>2, <1>6, <1>7, <1>8, MapAfter
<1>10. OutcomeOf(r) = "pending" /\ OutcomeOf(r)' = "applied" /\ SeenOf(r) = Nil /\ SeenOf(r)' = Nil
  BY <1>0, <1>1, StageSeen, GotoSeen DEF Running
<1>11. Promise!Become(r, "applied") /\ [q \in Req |-> SeenOf(q)]' = [q \in Req |-> SeenOf(q)]
  BY <1>0, <1>10, BecomeSeen DEF Handle
<1> QED
  BY <1>0, <1>1, <1>8, <1>9, <1>10, <1>11 DEF Promise!Apply, Promise!Exists, Writes, j

LEMMA RemoveApplies ==
    ASSUME TableInv, Tracked, NEW r \in Req, InPlace(r), Remove(r)
    PROVE  Promise!Apply(r)
<1>0. PICK p : p = job[r].path
  OBVIOUS
<1>1. /\ pc[r] = "remove" /\ secrets' = secrets \ RowsWithId(row[r].id) /\ Goto(r, "unindex")
      /\ job[r] \in Jobs /\ job[r].op = "delete" /\ UNCHANGED <<job, row>>
  BY <1>0 DEF Remove, Deleted, TableInv, Held, Running, Tracked, OnItsWay
<1>2. p \in Path
  BY <1>0, <1>1, ConstantsAssumption DEF AllJobs
<1>3. RowsWithId(row[r].id) = RowsAt(p) /\ RowsAt(p) # {}
  BY <1>0, <1>1 DEF InPlace
<1>4. RowsAt(p)' = {} /\ \A q \in Path \ {p} : RowsAt(q)' = RowsAt(q)
  BY <1>0, <1>1, <1>3 DEF RowsAt
<1>5. MapOf[p]' = Nil /\ MapOf[p] # Nil
  BY <1>0, <1>1, <1>2, <1>3, <1>4, MapEntry DEF MapOf
<1>6. MapOf' = [MapOf EXCEPT ![p] = Promise!Effect(@, job[r])]
  BY <1>0, <1>1, <1>2, <1>4, <1>5, MapAfter DEF Promise!Effect
<1>7. OutcomeOf(r) = "pending" /\ OutcomeOf(r)' = "applied" /\ SeenOf(r) = Nil /\ SeenOf(r)' = Nil
  BY <1>0, <1>1, StageSeen, GotoSeen DEF Running
<1>8. Promise!Become(r, "applied") /\ [q \in Req |-> SeenOf(q)]' = [q \in Req |-> SeenOf(q)]
  BY <1>0, <1>7, BecomeSeen DEF Handle
<1> QED
  BY <1>0, <1>1, <1>5, <1>6, <1>7, <1>8 DEF Promise!Apply, Promise!Exists

LEMMA SelectIdStutters ==
    ASSUME TableInv, Tracked, NEW r \in Req, InPlace(r), SelectId(r)
    PROVE  UNCHANGED Promise!vars
<1>1. pc[r] = "selectid" /\ Goto(r, "sync") /\ UNCHANGED <<secrets, job>>
  BY DEF SelectId, InPlace, table
<1>2. OutcomeOf(r) = "applied" /\ OutcomeOf(r)' = "applied" /\ SeenOf(r) = Nil /\ SeenOf(r)' = Nil
  BY <1>1, StageSeen, GotoSeen DEF Running
<1> QED
  BY <1>1, <1>2, Stutters DEF Handle

LEMMA LastAcknowledges ==
    ASSUME TableInv, Tracked, NEW r \in Req, SyncFTS(r) \/ Unindex(r)
    PROVE  Promise!Acknowledge(r)
<1>1. pc[r] \in {"sync", "unindex"} /\ Answer(r, "ok") /\ UNCHANGED <<secrets, job>>
  BY DEF SyncFTS, Unindex
<1>2. job[r].op # "get"
  BY <1>1 DEF Tracked, OnItsWay, Writes
<1>3. OutcomeOf(r) = "applied" /\ OutcomeOf(r)' = "ok" /\ SeenOf(r) = Nil
  BY <1>1, StageSeen, AnswerSeen
<1>4. SeenOf(r)' = Nil
  BY <1>1, <1>2 DEF SeenOf
<1>5. MapOf' = MapOf
  BY <1>1, SameMap
<1> QED
  BY <1>1, <1>3, <1>4, <1>5, BecomeSeen DEF Handle, Promise!Acknowledge

LEMMA CrashRefines ==
    ASSUME TableInv, Tracked, Crash
    PROVE  Promise!Crash
<1>1. MapOf' = MapOf
  BY SameMap DEF Crash, table
<1>2. ASSUME NEW r \in Req
      PROVE  /\ OutcomeOf(r)' = IF OutcomeOf(r) \in {"pending", "applied"} THEN "lost"
                                                                          ELSE OutcomeOf(r)
             /\ SeenOf(r)' = SeenOf(r)
  <2>1. CASE pc[r] \in Running
    <3>1. pc'[r] = "done" /\ reply'[r] = "lost"
      BY <2>1 DEF Crash, Active
    <3>2. OutcomeOf(r)' = "lost" /\ SeenOf(r)' = Nil
      BY <3>1 DEF OutcomeOf, SeenOf
    <3> QED
      BY <2>1, <3>2, StageSeen DEF Running
  <2>2. CASE pc[r] \notin Running
    <3>1. pc'[r] = pc[r] /\ reply'[r] = reply[r] /\ row' = row /\ job' = job
      BY <2>2 DEF Crash, Active
    <3>2. OutcomeOf(r)' = OutcomeOf(r) /\ SeenOf(r)' = SeenOf(r)
      BY <3>1 DEF OutcomeOf, SeenOf, Content
    <3>3. OutcomeOf(r) \in Replies
      BY <2>2 DEF TableInv, TypeOK, OutcomeOf, Replies
    <3> QED
      BY <3>2, <3>3 DEF Replies
  <2> QED
    BY <2>1, <2>2
<1> QED
  BY <1>1, <1>2 DEF Crash, Promise!Crash, Promise!Open

\* Every step is one of SecretMap, or none, when the writes are in place.
LEMMA PromiseStep ==
    ASSUME IInv, Tracked, [Next]_vars, \A r \in Req : InPlace(r)
    PROVE  Promise!Next \/ UNCHANGED Promise!vars
<1>1. TableInv
  BY DEF IInv
<1>2. CASE UNCHANGED vars
  BY <1>2, SameMap DEF vars, Promise!vars, OutcomeOf, SeenOf, Content
<1>3. CASE Crash
  BY <1>1, <1>3, CrashRefines DEF Promise!Next
<1>4. ASSUME NEW r \in Req, PutUnread(r)
      PROVE  UNCHANGED Promise!vars
  BY <1>1, <1>4, DraftStutters DEF PutUnread, Reading, table
<1>5. ASSUME NEW r \in Req, Arrive(r) \/ Abort(r) \/ Handle(r)
      PROVE  Promise!Next \/ UNCHANGED Promise!vars
  BY <1>1, <1>5, ArriveAsks, AbortFails, HandleGetFetches, HandlersRefine, HandleAnnotateRefines,
     UpsertApplies, RemoveApplies, SelectIdStutters, LastAcknowledges DEF Handle, Promise!Next
<1> QED
  BY <1>2, <1>3, <1>4, <1>5 DEF Next

LEMMA PromiseInit == Init => Promise!Init
BY DEF Init, Promise!Init, MapOf, RowsAt, OutcomeOf, SeenOf

-----------------------------------------------------------------------------
(* Without deletes the row of an upsert is still there for its SelectId.   *)

Lasting == {"get", "put", "save", "annotate"}

NoGap == SoFar(Lasting) => \A r \in Req : pc[r] = "selectid" => RowsAt(row[r].path) # {}

LEMMA SoFarBefore ==
    ASSUME TableInv, Tracked, [Next]_vars, NEW ops, SoFar(ops)'
    PROVE  SoFar(ops)
<1>1. \A r \in Req : job[r] # Nil => job'[r] = job[r]
  BY DEF Tracked, OnItsWay, TableInv, TypeOK, Next, Handle, Crash, Arrive, Abort, PutUnread,
     HandleGet, HandlePut, HandleSave, HandleAnnotate, HandleDelete, Upsert, SelectId, SyncFTS,
     Remove, Unindex, Reading, vars
<1> QED
  BY <1>1 DEF SoFar

\* A path that has a row keeps one, unless a request deletes.
LEMMA RowsLast ==
    ASSUME TableInv, Tracked, [Next]_vars, SoFar(Lasting), NEW p, RowsAt(p) # {}
    PROVE  RowsAt(p)' # {}
<1>1. ASSUME NEW r \in Req, Upsert(r)
      PROVE  RowsAt(p)' # {}
  <2>1. row[r] \in Row
    BY <1>1 DEF Upsert, TableInv, Held, Running
  <2>2. PICK i \in Nat : secrets' = {x \in secrets : x.path # row[r].path}
                                        \cup {[row[r] EXCEPT !.id = i]}
    BY <1>1, <2>1, UpsertedRow DEF Upsert
  <2>3. [row[r] EXCEPT !.id = i].path = row[r].path
    BY <2>1 DEF Row
  <2> QED
    BY <2>2, <2>3 DEF RowsAt
<1>2. ASSUME NEW r \in Req, Remove(r) PROVE FALSE
  BY <1>2, ConstantsAssumption
     DEF Remove, Tracked, OnItsWay, SoFar, Lasting, TableInv, TypeOK, Held, Running
<1>3. CASE UNCHANGED secrets
  BY <1>3 DEF RowsAt
<1> QED
  BY <1>1, <1>2, <1>3 DEF Next, Handle, Crash, Arrive, Abort, PutUnread, HandleGet, HandlePut,
     HandleSave, HandleAnnotate, HandleDelete, SelectId, SyncFTS, Unindex, Reading, table, vars

\* After an upsert its path has a row.
LEMMA UpsertLands ==
    ASSUME TableInv, NEW r \in Req, Upsert(r)
    PROVE  RowsAt(row[r].path)' # {} /\ row' = row /\ pc' = [pc EXCEPT ![r] = "selectid"]
<1>1. row[r] \in Row /\ row' = row
  BY DEF Upsert, TableInv, Held, Running
<1>2. PICK i \in Nat : secrets' = {x \in secrets : x.path # row[r].path}
                                      \cup {[row[r] EXCEPT !.id = i]}
  BY <1>1, UpsertedRow DEF Upsert
<1>3. [row[r] EXCEPT !.id = i].path = row[r].path
  BY <1>1 DEF Row
<1> QED
  BY <1>1, <1>2, <1>3 DEF RowsAt, Upsert, Goto

LEMMA NoGapStep == ASSUME TableInv, Tracked, NoGap, [Next]_vars PROVE NoGap'
<1> SUFFICES ASSUME SoFar(Lasting)', NEW q \in Req, pc'[q] = "selectid"
             PROVE  RowsAt(row[q].path)' # {}
  BY DEF NoGap
<1>1. SoFar(Lasting)
  BY SoFarBefore
<1>2. ASSUME NEW r \in Req, Upsert(r)
      PROVE  RowsAt(row[q].path)' # {}
  <2>1. CASE q = r
    BY <1>2, <2>1, UpsertLands
  <2>2. CASE q # r
    <3>1. pc[q] = "selectid" /\ row'[q] = row[q]
      BY <1>2, <2>2, UpsertLands DEF TableInv, TypeOK
    <3> QED
      BY <1>1, <3>1, RowsLast DEF NoGap, RowsAt
  <2> QED
    BY <2>1, <2>2
<1>3. CASE \A r \in Req : ~ Upsert(r)
  <2>1. pc[q] = "selectid" /\ row'[q] = row[q]
    <3> USE DEF TableInv, TypeOK, Goto, Answer, Hold
    <3>1. CASE UNCHANGED vars \/ Crash
      BY <3>1 DEF vars, Crash
    <3>2. ASSUME NEW r \in Req, Arrive(r) \/ Abort(r) \/ PutUnread(r) \/ Handle(r)
          PROVE  pc[q] = "selectid" /\ row'[q] = row[q]
      <4>1. CASE q # r
        BY <3>2, <4>1, OneRequest
      <4>2. CASE q = r
        BY <1>3, <3>2, <4>2 DEF Handle, Arrive, Abort, PutUnread, HandleGet, HandlePut, HandleSave,
           HandleAnnotate, HandleDelete, SelectId, SyncFTS, Remove, Unindex, Reseal
      <4> QED
        BY <4>1, <4>2
    <3> QED
      BY <3>1, <3>2 DEF Next
  <2> QED
    BY <1>1, <2>1, RowsLast DEF NoGap, RowsAt
<1> QED
  BY <1>2, <1>3

LEMMA StartTracked == Init => Tracked /\ NoGap
BY DEF Init, Tracked, OnItsWay, NoGap

\* The state of each request is what its job made it, in every reachable state.
THEOREM RequestsTracked == Spec => [](Tracked /\ NoGap)
<1>1. TableInv /\ Tracked /\ NoGap /\ [Next]_vars => (Tracked /\ NoGap)'
  BY TrackedStep, NoGapStep
<1>2. Spec => []TableInv
  BY Invariance, PTL DEF IInv
<1> QED
  BY <1>1, <1>2, StartTracked, PTL DEF Spec

\* Clients that overwrite whole secrets and read them act on one atomic map,
\* whatever overlaps, fails or dies.
THEOREM OverwritesRefine == Spec => OverwritesKeepPromise
<1>1. ASSUME IInv, Tracked, NoGap, [Next]_vars, SoFar({"get", "put"})'
      PROVE  Promise!Next \/ UNCHANGED Promise!vars
  <2>1. TableInv
    BY <1>1 DEF IInv
  <2>2. SoFar({"get", "put"}) /\ SoFar(Lasting)
    BY <1>1, <2>1, SoFarBefore DEF SoFar, Lasting
  <2>3. \A r \in Req : pc[r] \in Running => job[r].op \in {"get", "put"}
    BY <2>1, <2>2, ConstantsAssumption DEF TableInv, Held, SoFar
  <2>4. \A r \in Req : InPlace(r)
    BY <1>1, <2>2, <2>3 DEF NoGap, Tracked, OnItsWay, InPlace, Running, Writes
  <2> QED
    BY <1>1, <2>4, PromiseStep
<1>2. IInv /\ Tracked /\ NoGap /\ [Next]_vars
         => [SoFar({"get", "put"})' => Promise!Next \/ UNCHANGED Promise!vars]_vars
  BY <1>1
<1> QED
  BY <1>2, PromiseInit, Invariance, RequestsTracked, PTL DEF Spec, OverwritesKeepPromise

-----------------------------------------------------------------------------
(* One client, whose requests do not fail, though the process may die: a   *)
(* write finds the row that its handler read, and the index lags behind    *)
(* the table by the row in hand and no other.                              *)

OneAtATime == IsFiniteSet(Active) /\ \A r, q \in Active : r = q

\* The draft has the next version if it has a new description.
Bumped(r) ==
    pc[r] = "upsert" =>
        \A x \in RowsAt(row[r].path) : x.desc # row[r].desc => row[r].version > x.version

Synced == fts = {EntryOf(x) : x \in secrets}
SyncedBut(i) == {e \in fts : e.id # i} = {EntryOf(x) : x \in {y \in secrets : y.id # i}}

Indexing(r) ==
    /\ pc[r] \in {"read", "upsert", "remove"} => Synced
    /\ pc[r] = "selectid" =>
          \E x \in secrets : /\ x.path = row[r].path /\ SyncedBut(x.id)
                             /\ EntryOf(x) = EntryOf([row[r] EXCEPT !.id = x.id])
    /\ pc[r] = "sync" =>
          \E x \in secrets : EntryOf(x) = EntryOf(row[r]) /\ SyncedBut(x.id)
    /\ pc[r] = "unindex" => RowsWithId(row[r].id) = {} /\ SyncedBut(row[r].id)

NoneLost == \A r \in Req : reply[r] # "lost"

InOrder == \A r \in Req : InPlace(r) /\ Bumped(r)

IndexFollows == NoneLost => (Active = {} => Synced) /\ \A r \in Req : Indexing(r)

Solo == OneAtATime /\ InOrder /\ IndexFollows

LEMMA SoloInit == Init => Solo
<1> SUFFICES ASSUME Init PROVE Solo
  OBVIOUS
<1>1. Active = {}
  BY DEF Init, Active, Running
<1>2. OneAtATime
  BY <1>1, FS_EmptySet DEF OneAtATime
<1>3. InOrder
  BY DEF Init, InOrder, InPlace, Bumped
<1>4. IndexFollows
  BY DEF Init, IndexFollows, Synced, Indexing
<1> QED
  BY <1>2, <1>3, <1>4 DEF Solo

\* While a request runs no other does, and none begins.
LEMMA NoOther ==
    ASSUME Inflight = 1, TableInv, OneAtATime, NEW r \in Req, Arrive(r) \/ Handle(r)
    PROVE  /\ OneAtATime' /\ Active' \subseteq {r} /\ Active \subseteq {r}
           /\ \A q \in Req \ {r} : pc'[q] = pc[q] /\ pc[q] \notin Running
           /\ Arrive(r) => Active = {}
<1>1. CASE Arrive(r)
  <2>1. Active = {}
    BY <1>1, FS_EmptySet, FS_CardinalityType DEF Arrive, OneAtATime
  <2>2. \A q \in Req \ {r} : pc'[q] = pc[q] /\ pc[q] \notin Running
    BY <1>1, <2>1, OneRequest DEF Active
  <2> QED
    BY <1>1, <2>1, <2>2, FS_Singleton, FS_Subset DEF OneAtATime, Active
<1>2. CASE Handle(r)
  <2>1. r \in Active
    BY <1>2 DEF Handle, HandleGet, HandlePut, HandleSave, HandleAnnotate, HandleDelete, Upsert,
       SelectId, SyncFTS, Remove, Unindex, Reading, Active, Running
  <2>2. Active = {r} /\ ~ Arrive(r)
    BY <2>1 DEF OneAtATime, Arrive, Active, Running
  <2>3. \A q \in Req \ {r} : pc'[q] = pc[q] /\ pc[q] \notin Running
    BY <1>2, <2>2, OneRequest DEF Active
  <2>4. Active' \subseteq {r}
    BY <2>3 DEF Active
  <2> QED
    BY <2>2, <2>3, <2>4, FS_Singleton, FS_Subset DEF OneAtATime
<1> QED
  BY <1>1, <1>2

\* A draft that keeps the value is what the job makes of the row it read.
LEMMA ResealInOrder ==
    ASSUME TableInv, Tracked, NEW r \in Req, pc[r] = "read", UNCHANGED <<table, job>>,
           NEW x \in RowsAt(job[r].path), NEW i, NEW d, NEW m, Reseal(r, x, i, d, m),
           Promise!Effect(Content(x), job[r]) = [value |-> x.ct.value, desc |-> d, meta |-> m]
    PROVE  InPlace(r)' /\ Bumped(r)'
<1>1. /\ x \in Row /\ x.path = job[r].path /\ job[r].path \in Path
      /\ RowsAt(job[r].path) = {x} /\ MapOf[job[r].path] = Content(x)
  BY StoredRow, MapEntry DEF Row
<1>2. CASE Answer(r, "decrypt_failed")
  BY <1>2, AnswerSeen DEF InPlace, Bumped
<1>3. CASE /\ Hold(r, SealedRow(i, x.path, x.ct.value, d, m, BumpedVersion(x, d)))
           /\ Goto(r, "upsert")
  <2>1. pc'[r] = "upsert" /\ row'[r] = SealedRow(i, x.path, x.ct.value, d, m, BumpedVersion(x, d))
    BY <1>3 DEF TableInv, TypeOK, Hold, Goto
  <2>2. /\ row'[r].path = x.path /\ row'[r].desc = d /\ row'[r].version = BumpedVersion(x, d)
        /\ Content(row'[r]) = [value |-> x.ct.value, desc |-> d, meta |-> m]
    BY <2>1 DEF SealedRow, Seal, Content
  <2>3. \A p : RowsAt(p)' = RowsAt(p)
    BY DEF RowsAt, table
  <2>4. MapOf' = MapOf
    BY SameMap DEF table
  <2>5. InPlace(r)'
    BY <1>1, <2>1, <2>2, <2>3, <2>4 DEF InPlace
  <2>6. Bumped(r)'
    BY <1>1, <2>1, <2>2, <2>3 DEF Bumped, BumpedVersion, Row
  <2> QED
    BY <2>5, <2>6
<1> QED
  BY <1>2, <1>3 DEF Reseal

LEMMA OneInOrder ==
    ASSUME TableInv, Tracked, NEW r \in Req, Arrive(r) \/ Handle(r)
    PROVE  InPlace(r)' /\ Bumped(r)'
<1> USE DEF TableInv, TypeOK
<1>1. CASE pc'[r] \notin {"upsert", "selectid", "remove"}
  BY <1>1 DEF InPlace, Bumped
<1>2. CASE HandlePut(r)
  <2>1. job[r].op = "put" /\ pc'[r] = "upsert" /\ job' = job /\ \A p : RowsAt(p)' = RowsAt(p)
    BY <1>2 DEF HandlePut, Reading, Goto, RowsAt, table
  <2>2. InPlace(r)'
    BY <2>1 DEF InPlace
  <2>3. ASSUME NEW x \in RowsAt(row'[r].path), x.desc # row'[r].desc
        PROVE  row'[r].version > x.version
    <3>1. x \in Row
      BY StoredRow
    <3>2. row'[r].path = job[r].path
      BY <1>2 DEF HandlePut, Hold, SealedRow
    <3>3. row'[r] = SealedRow(0, job[r].path, job[r].value, job[r].desc, job[r].meta,
                              BumpedVersion(x, job[r].desc))
      BY <1>2, <3>2 DEF HandlePut, Hold, RowsAt
    <3> QED
      BY <2>3, <3>1, <3>3 DEF SealedRow, BumpedVersion, Row
  <2> QED
    BY <2>1, <2>2, <2>3 DEF Bumped
<1>3. CASE HandleSave(r)
  <2>1. ASSUME NEW x \in RowsAt(job[r].path), Reseal(r, x, 0, job[r].desc, job[r].meta)
        PROVE  InPlace(r)' /\ Bumped(r)'
    <3>1. Promise!Effect(Content(x), job[r])
             = [value |-> x.ct.value, desc |-> job[r].desc, meta |-> job[r].meta]
      BY <1>3 DEF HandleSave, Reading, Content, Promise!Effect, Promise!Edited
    <3>2. pc[r] = "read" /\ UNCHANGED <<table, job>>
      BY <1>3 DEF HandleSave, Reading
    <3> HIDE DEF TableInv, TypeOK
    <3> QED
      BY <2>1, <3>1, <3>2, ResealInOrder
  <2> QED
    BY <1>1, <1>3, <2>1, AnswerSeen DEF HandleSave
<1>4. CASE HandleAnnotate(r)
  <2>1. ASSUME NEW x \in RowsAt(job[r].path),
               Reseal(r, x, x.id, NewDesc(x, job[r]), Merged(x.meta, job[r]))
        PROVE  InPlace(r)' /\ Bumped(r)'
    <3>1. Promise!Effect(Content(x), job[r])
             = [value |-> x.ct.value, desc |-> NewDesc(x, job[r]), meta |-> Merged(x.meta, job[r])]
      BY <1>4
         DEF HandleAnnotate, Reading, Content, NewDesc, Merged, Promise!Effect, Promise!Annotated
    <3>2. pc[r] = "read" /\ UNCHANGED <<table, job>>
      BY <1>4 DEF HandleAnnotate, Reading
    <3> HIDE DEF TableInv, TypeOK
    <3> QED
      BY <2>1, <3>1, <3>2, ResealInOrder
  <2> QED
    BY <1>1, <1>4, <2>1, AnswerSeen DEF HandleAnnotate
<1>5. CASE HandleDelete(r)
  <2>1. ASSUME NEW x \in RowsAt(job[r].path), Hold(r, x), Goto(r, "remove")
        PROVE  InPlace(r)' /\ Bumped(r)'
    <3>1. pc'[r] = "remove" /\ row'[r] = x /\ UNCHANGED <<secrets, job>>
      BY <1>5, <2>1 DEF HandleDelete, Reading, Hold, Goto, table
    <3>2. RowsWithId(x.id) = {x} /\ RowsAt(job[r].path) = {x}
      BY DEF RowsWithId, RowsAt
    <3>3. RowsWithId(row[r].id)' = {x} /\ RowsAt(job[r].path)' = {x}
      BY <3>1, <3>2 DEF RowsWithId, RowsAt
    <3> QED
      BY <3>1, <3>3 DEF InPlace, Bumped
  <2> QED
    BY <1>1, <1>5, <2>1, AnswerSeen DEF HandleDelete
<1>6. CASE Upsert(r)
  BY <1>6, UpsertLands DEF InPlace, Bumped
<1>7. CASE Arrive(r) \/ HandleGet(r) \/ SelectId(r) \/ SyncFTS(r) \/ Remove(r) \/ Unindex(r)
  BY <1>1, <1>7 DEF Arrive, HandleGet, SelectId, SyncFTS, Remove, Unindex, Goto, Answer
<1> QED
  BY <1>2, <1>3, <1>4, <1>5, <1>6, <1>7 DEF Handle

\* The read of a handler ends it or begins its writes, and leaves the tables.
LEMMA ReadLeavesTables ==
    ASSUME TableInv, NEW r \in Req,
           \/ Arrive(r) \/ HandleGet(r) \/ HandlePut(r) \/ HandleSave(r)
           \/ HandleAnnotate(r) \/ HandleDelete(r)
    PROVE  UNCHANGED table /\ pc[r] \in {"idle", "read"} /\ pc'[r] \in {"read", "upsert", "remove", "done"}
<1> USE DEF TableInv, TypeOK, Reading, Goto, Answer
<1>1. CASE Arrive(r) \/ HandleGet(r) \/ HandlePut(r) \/ HandleDelete(r)
  BY <1>1 DEF Arrive, HandleGet, HandlePut, HandleDelete
<1>2. CASE HandleSave(r) \/ HandleAnnotate(r)
  BY <1>2 DEF HandleSave, HandleAnnotate, Reseal
<1> QED
  BY <1>1, <1>2

\* What the index lacks of the table, statement by statement.
IndexedSoFar(r) == Indexing(r)' /\ (pc'[r] \notin Running => Synced')

LEMMA ReadIndexed ==
    ASSUME TableInv, NEW r \in Req, Synced, UNCHANGED table,
           pc'[r] \in {"read", "upsert", "remove", "done"}
    PROVE  IndexedSoFar(r)
BY DEF IndexedSoFar, Running, Indexing, Synced, table

LEMMA UpsertIndexed ==
    ASSUME TableInv, NEW r \in Req, Synced, Upsert(r)
    PROVE  IndexedSoFar(r)
<1>1. row[r] \in Row /\ UNCHANGED <<fts, row>> /\ pc'[r] = "selectid" /\ secrets \subseteq Row
  BY DEF Upsert, Goto, TableInv, TypeOK, Held, Running
<1>2. PICK i \in Nat : /\ secrets' = {x \in secrets : x.path # row[r].path}
                                         \cup {[row[r] EXCEPT !.id = i]}
                       /\ \A x \in secrets : x.path = row[r].path <=> x.id = i
  BY <1>1, UpsertedRow DEF Upsert
<1> DEFINE y == [row[r] EXCEPT !.id = i]
<1>3. y.path = row[r].path /\ y.id = i /\ EntryOf(y) = EntryOf([row[r] EXCEPT !.id = i])
  BY <1>1 DEF Row
<1>4. secrets' = {x \in secrets : x.path # row[r].path} \cup {y}
  BY <1>2
<1> HIDE DEF y
<1>5. {x \in secrets' : x.id # i} = {x \in secrets : x.id # i}
  BY <1>2, <1>3, <1>4
<1>6. \A x \in secrets : EntryOf(x).id = x.id
  BY DEF EntryOf
<1>7. {e \in fts : e.id # i} = {EntryOf(x) : x \in {z \in secrets : z.id # i}}
  BY <1>6 DEF Synced
<1>8. SyncedBut(i)'
  BY <1>1, <1>5, <1>7 DEF SyncedBut, EntryOf
<1>9. y \in secrets' /\ y.path = row'[r].path /\ EntryOf(y) = EntryOf([row'[r] EXCEPT !.id = y.id])
  BY <1>1, <1>3, <1>4
<1>10. \E x \in secrets' : /\ x.path = row'[r].path /\ SyncedBut(x.id)'
                           /\ EntryOf(x) = EntryOf([row'[r] EXCEPT !.id = x.id])
  BY <1>3, <1>8, <1>9
<1> QED
  BY <1>1, <1>10 DEF IndexedSoFar, Running, Indexing, EntryOf

LEMMA SelectIdIndexed ==
    ASSUME TableInv, InOrder, NEW r \in Req, Indexing(r), SelectId(r)
    PROVE  IndexedSoFar(r)
<1>1. /\ pc[r] = "selectid" /\ UNCHANGED table /\ pc'[r] = "sync"
      /\ \E x \in RowsAt(row[r].path) : row'[r] = [row[r] EXCEPT !.id = x.id]
  BY DEF SelectId, InOrder, InPlace, Goto, Hold, TableInv, TypeOK
<1>2. PICK x \in secrets : /\ x.path = row[r].path /\ SyncedBut(x.id)
                           /\ EntryOf(x) = EntryOf([row[r] EXCEPT !.id = x.id])
  BY <1>1 DEF Indexing
<1>3. row'[r] = [row[r] EXCEPT !.id = x.id]
  BY <1>1, <1>2 DEF RowsAt, TableInv, TypeOK
<1>4. EntryOf(x) = EntryOf(row'[r]) /\ SyncedBut(x.id)'
  BY <1>1, <1>2, <1>3 DEF SyncedBut, EntryOf, table
<1>5. \E z \in secrets' : EntryOf(z) = EntryOf(row'[r]) /\ SyncedBut(z.id)'
  BY <1>1, <1>2, <1>4 DEF table
<1> QED
  BY <1>1, <1>5 DEF IndexedSoFar, Running, Indexing, EntryOf

LEMMA SyncFTSIndexed ==
    ASSUME TableInv, NEW r \in Req, Indexing(r), SyncFTS(r)
    PROVE  IndexedSoFar(r)
<1>1. pc[r] = "sync" /\ fts' = Indexed(fts, row[r]) /\ secrets' = secrets /\ pc'[r] = "done"
  BY DEF SyncFTS, Answer, TableInv, TypeOK
<1>2. PICK x \in secrets : EntryOf(x) = EntryOf(row[r]) /\ SyncedBut(x.id)
  BY <1>1 DEF Indexing
<1>3. x.id = row[r].id
  BY <1>2 DEF EntryOf
<1>4. fts' = {e \in fts : e.id # x.id} \cup {EntryOf(x)}
  BY <1>1, <1>2, <1>3 DEF Indexed
<1>5. fts' = {EntryOf(z) : z \in {y \in secrets : y.id # x.id}} \cup {EntryOf(x)}
  BY <1>2, <1>4 DEF SyncedBut
<1>6. \A y \in secrets : y.id # x.id \/ y = x
  BY DEF TableInv, TypeOK
<1>7. fts' = {EntryOf(z) : z \in secrets}
  BY <1>5, <1>6
<1>8. Synced'
  BY <1>1, <1>7 DEF Synced, EntryOf
<1> QED
  BY <1>1, <1>8 DEF IndexedSoFar, Running, Indexing

LEMMA RemoveIndexed ==
    ASSUME TableInv, NEW r \in Req, Synced, Remove(r)
    PROVE  IndexedSoFar(r)
<1>1. /\ secrets' = {x \in secrets : x.id # row[r].id} /\ pc'[r] = "unindex"
      /\ UNCHANGED <<fts, row>>
  BY DEF Remove, Deleted, RowsWithId, Goto, TableInv, TypeOK
<1>2. \A x \in secrets : EntryOf(x).id = x.id
  BY DEF EntryOf
<1>3. {e \in fts : e.id # row[r].id} = {EntryOf(x) : x \in {z \in secrets' : z.id # row[r].id}}
  BY <1>1, <1>2 DEF Synced
<1>4. RowsWithId(row[r].id)' = {}
  BY <1>1 DEF RowsWithId
<1>5. SyncedBut(row[r].id)'
  BY <1>1, <1>3 DEF SyncedBut, EntryOf
<1> QED
  BY <1>1, <1>4, <1>5 DEF IndexedSoFar, Running, Indexing

LEMMA UnindexIndexed ==
    ASSUME TableInv, NEW r \in Req, Indexing(r), Unindex(r)
    PROVE  IndexedSoFar(r)
<1>1. /\ pc[r] = "unindex" /\ fts' = {e \in fts : e.id # row[r].id} /\ secrets' = secrets
      /\ pc'[r] = "done"
  BY DEF Unindex, Answer, TableInv, TypeOK
<1>2. \A x \in secrets : x.id # row[r].id
  BY <1>1 DEF Indexing, RowsWithId
<1>3. fts' = {EntryOf(x) : x \in secrets}
  BY <1>1, <1>2 DEF Indexing, SyncedBut
<1>4. Synced'
  BY <1>1, <1>3 DEF Synced, EntryOf
<1> QED
  BY <1>1, <1>4 DEF IndexedSoFar, Running, Indexing

LEMMA OneIndexed ==
    ASSUME Inflight = 1, TableInv, Solo, NoneLost, NEW r \in Req, Arrive(r) \/ Handle(r)
    PROVE  IndexedSoFar(r)
<1>1. Indexing(r) /\ (Active = {} => Synced)
  BY DEF Solo, IndexFollows
<1>2. CASE \/ Arrive(r) \/ HandleGet(r) \/ HandlePut(r) \/ HandleSave(r)
           \/ HandleAnnotate(r) \/ HandleDelete(r)
  <2>1. UNCHANGED table /\ pc[r] \in {"idle", "read"} /\ pc'[r] \in {"read", "upsert", "remove", "done"}
    BY <1>2, ReadLeavesTables
  <2>2. Synced
    <3>1. CASE Arrive(r)
      BY <1>1, <3>1, NoOther DEF Solo
    <3>2. CASE pc[r] = "read"
      BY <1>1, <3>2 DEF Indexing
    <3>3. pc[r] = "read" \/ Arrive(r)
      BY <1>2 DEF HandleGet, HandlePut, HandleSave, HandleAnnotate, HandleDelete, Reading
    <3> QED
      BY <3>1, <3>2, <3>3
  <2> QED
    BY <2>1, <2>2, ReadIndexed
<1>3. CASE Upsert(r)
  BY <1>1, <1>3, UpsertIndexed DEF Upsert, Indexing
<1>4. CASE SelectId(r)
  BY <1>1, <1>4, SelectIdIndexed DEF Solo
<1>5. CASE SyncFTS(r)
  BY <1>1, <1>5, SyncFTSIndexed
<1>6. CASE Remove(r)
  BY <1>1, <1>6, RemoveIndexed DEF Remove, Indexing
<1>7. CASE Unindex(r)
  BY <1>1, <1>7, UnindexIndexed
<1> QED
  BY <1>2, <1>3, <1>4, <1>5, <1>6, <1>7 DEF Handle

LEMMA SoloStep ==
    ASSUME Inflight = 1, "request" \notin Failures, TableInv, Tracked, Solo, [Next]_vars
    PROVE  Solo'
<1>1. CASE UNCHANGED vars
  <2>1. OneAtATime'
    BY <1>1 DEF vars, Solo, OneAtATime, Active
  <2>2. \A r \in Req : InPlace(r) /\ Bumped(r) => (InPlace(r) /\ Bumped(r))'
    BY <1>1, SameMap DEF vars, InPlace, Bumped, RowsAt, RowsWithId, Content,
       Promise!Effect, Promise!Written, Promise!Edited, Promise!Annotated
  <2>3. InOrder'
    BY <2>2 DEF Solo, InOrder
  <2>4. Active' = Active /\ (NoneLost' <=> NoneLost) /\ (Synced' <=> Synced)
    BY <1>1 DEF vars, Active, NoneLost, Synced, EntryOf
  <2>5. \A r \in Req : Indexing(r) => Indexing(r)'
    BY <1>1 DEF vars, Indexing, RowsWithId, Synced, SyncedBut, EntryOf
  <2> QED
    BY <2>1, <2>3, <2>4, <2>5 DEF Solo, IndexFollows
<1>2. CASE Crash
  <2>1. Active' = {}
    BY <1>2 DEF Crash, Active, Running
  <2>2. \A r \in Req : pc'[r] \notin Running
    BY <2>1 DEF Active
  <2>3. InOrder'
    BY <2>2 DEF InOrder, InPlace, Bumped, Running
  <2>4. ~ NoneLost'
    BY <1>2 DEF Crash, NoneLost, Active
  <2> QED
    BY <2>1, <2>3, <2>4, FS_EmptySet DEF Solo, OneAtATime, IndexFollows
<1>3. ASSUME NEW r \in Req, Arrive(r) \/ Handle(r)
      PROVE  Solo'
  <2>1. /\ OneAtATime' /\ Active' \subseteq {r}
        /\ \A q \in Req \ {r} : pc'[q] = pc[q] /\ pc[q] \notin Running
    BY <1>3, NoOther DEF Solo
  <2>2. InOrder'
    <3>1. InPlace(r)' /\ Bumped(r)'
      BY <1>3, OneInOrder
    <3>2. \A q \in Req \ {r} : InPlace(q)' /\ Bumped(q)'
      BY <2>1 DEF InPlace, Bumped, Running
    <3> QED
      BY <3>1, <3>2 DEF InOrder
  <2>3. ASSUME NoneLost' PROVE (Active' = {} => Synced') /\ \A q \in Req : Indexing(q)'
    <3>1. NoneLost
      <4>1. \A q \in Req \ {r} : reply[q] = reply'[q]
        BY <1>3, OneRequest
      <4>2. pc[r] # "done"
        BY <1>3 DEF Arrive, Handle, HandleGet, HandlePut, HandleSave, HandleAnnotate, HandleDelete,
           Upsert, SelectId, SyncFTS, Remove, Unindex, Reading
      <4> QED
        BY <2>3, <4>1, <4>2 DEF NoneLost, Tracked, OnItsWay
    <3>2. Indexing(r)' /\ (pc'[r] \notin Running => Synced')
      BY <1>3, <3>1, OneIndexed DEF IndexedSoFar
    <3>3. \A q \in Req \ {r} : Indexing(q)'
      BY <2>1 DEF Indexing, Running
    <3> QED
      BY <3>2, <3>3 DEF Active
  <2> QED
    BY <2>1, <2>2, <2>3 DEF Solo, IndexFollows
<1>4. \A r \in Req : ~ Abort(r) /\ ~ PutUnread(r)
  BY DEF Abort, PutUnread
<1> QED
  BY <1>1, <1>2, <1>3, <1>4 DEF Next

\* One client's requests are in order in every reachable state.
THEOREM SoloInvariance ==
    ASSUME Inflight = 1, "request" \notin Failures
    PROVE  Spec => []Solo
<1>1. TableInv /\ Tracked /\ Solo /\ [Next]_vars => Solo'
  BY SoloStep
<1>2. Spec => [](TableInv /\ Tracked)
  BY Invariance, RequestsTracked, PTL DEF IInv
<1> QED
  BY <1>1, <1>2, SoloInit, PTL DEF Spec

\* One client finds the index in step with the table whenever no request of it
\* runs, until the process dies under one.
THEOREM OneClientInSync ==
    ASSUME Inflight = 1, "request" \notin Failures
    PROVE  Spec => []IndexInSync
<1>1. Solo => IndexInSync
  BY DEF Solo, IndexFollows, NoneLost, Synced, IndexInSync
<1> QED
  BY <1>1, SoloInvariance, PTL

\* With one client, a secret that gets a new description gets a larger version.
THEOREM OneClientBumps ==
    ASSUME Inflight = 1, "request" \notin Failures
    PROVE  Spec => DescChangeBumpsVersion
<1>1. ASSUME TableInv, Solo, [Next]_vars, NEW x \in secrets, NEW y \in secrets',
             x.path = y.path, x.desc # y.desc
      PROVE  y.version > x.version
  <2>1. y \notin secrets
    BY <1>1 DEF TableInv, TypeOK
  <2>2. PICK r \in Req : Upsert(r)
    BY <1>1, <2>1 DEF Next, Handle, Crash, Arrive, Abort, PutUnread, HandleGet, HandlePut,
       HandleSave, HandleAnnotate, HandleDelete, SelectId, SyncFTS, Remove, Deleted, Unindex,
       Reading, table, vars
  <2>3. row[r] \in Row /\ pc[r] = "upsert"
    BY <1>1, <2>2 DEF Upsert, TableInv, Held, Running
  <2>4. PICK i \in Nat : secrets' = {z \in secrets : z.path # row[r].path}
                                        \cup {[row[r] EXCEPT !.id = i]}
    BY <1>1, <2>2, <2>3, UpsertedRow DEF Upsert
  <2>5. y = [row[r] EXCEPT !.id = i]
    BY <2>1, <2>4
  <2>6. y.path = row[r].path /\ y.desc = row[r].desc /\ y.version = row[r].version
    BY <2>3, <2>5 DEF Row
  <2> QED
    BY <1>1, <2>3, <2>6 DEF Solo, InOrder, Bumped, RowsAt
<1>2. TableInv /\ Solo /\ [Next]_vars =>
         [\A x \in secrets, y \in secrets' :
             x.path = y.path /\ x.desc # y.desc => y.version > x.version]_vars
  BY <1>1
<1> QED
  BY <1>2, Invariance, SoloInvariance, PTL DEF Spec, IInv, DescChangeBumpsVersion

\* Rows are found where they were read even if requests fail or are cancelled.
OneInPlace == OneAtATime /\ \A r \in Req : InPlace(r)

LEMMA OneInPlaceStep ==
    ASSUME Inflight = 1, TableInv, Tracked, OneInPlace, [Next]_vars
    PROVE  OneInPlace'
<1>1. CASE UNCHANGED vars
  <2>1. OneAtATime'
    BY <1>1 DEF vars, OneInPlace, OneAtATime, Active
  <2>2. \A r \in Req : InPlace(r) => InPlace(r)'
    BY <1>1, SameMap DEF vars, InPlace, RowsAt, RowsWithId, Content,
       Promise!Effect, Promise!Written, Promise!Edited, Promise!Annotated
  <2> QED
    BY <2>1, <2>2 DEF OneInPlace
<1>2. CASE Crash
  <2>1. Active' = {}
    BY <1>2 DEF Crash, Active, Running
  <2>2. \A r \in Req : pc'[r] \notin Running
    BY <2>1 DEF Active
  <2>3. \A r \in Req : InPlace(r)'
    BY <2>2 DEF InPlace, Running
  <2> QED
    BY <2>1, <2>3, FS_EmptySet DEF OneInPlace, OneAtATime
<1>3. ASSUME NEW r \in Req, Arrive(r) \/ Handle(r) PROVE OneInPlace'
  <2>1. OneAtATime' /\ \A q \in Req \ {r} : pc'[q] = pc[q] /\ pc[q] \notin Running
    BY <1>3, NoOther DEF OneInPlace
  <2>2. InPlace(r)'
    BY <1>3, OneInOrder
  <2>3. \A q \in Req \ {r} : InPlace(q)'
    BY <2>1 DEF InPlace, Running
  <2> QED
    BY <2>1, <2>2, <2>3 DEF OneInPlace
<1>4. ASSUME NEW r \in Req, Abort(r) \/ PutUnread(r) PROVE OneInPlace'
  <2>1. r \in Active
    BY <1>4 DEF Abort, PutUnread, Reading, Active, Running
  <2>2. Active = {r}
    BY <2>1 DEF OneInPlace, OneAtATime
  <2>3. \A q \in Req \ {r} : pc'[q] = pc[q] /\ pc[q] \notin Running
    BY <1>4, <2>2, OneRequest DEF Active
  <2>4. Active' \subseteq {r}
    BY <2>3 DEF Active
  <2>5. OneAtATime'
    BY <2>4, FS_Singleton, FS_Subset DEF OneAtATime
  <2>6. InPlace(r)'
    BY <1>4 DEF Abort, PutUnread, Reading, Answer, Goto, InPlace, TableInv, TypeOK
  <2>7. \A q \in Req \ {r} : InPlace(q)'
    BY <2>3 DEF InPlace, Running
  <2> QED
    BY <2>5, <2>6, <2>7 DEF OneInPlace
<1> QED
  BY <1>1, <1>2, <1>3, <1>4 DEF Next

\* The requests of one client act on one atomic map: each acknowledged write
\* took effect exactly once, and what a get returns is the whole of one entry,
\* though requests fail or are cancelled and the process may die under them.
THEOREM OneClientPromise ==
    ASSUME Inflight = 1
    PROVE  Spec => KeepsPromise
<1>1. Init => OneInPlace
  BY SoloInit DEF Solo, InOrder, OneInPlace
<1>2. IInv /\ Tracked /\ OneInPlace /\ [Next]_vars => OneInPlace'
  BY OneInPlaceStep DEF IInv
<1>3. IInv /\ Tracked /\ OneInPlace /\ [Next]_vars => [Promise!Next]_(Promise!vars)
  BY PromiseStep DEF OneInPlace
<1>4. Spec => [](IInv /\ Tracked)
  BY Invariance, RequestsTracked, PTL
<1> QED
  BY <1>1, <1>2, <1>3, <1>4, PromiseInit, PTL DEF Spec, KeepsPromise, Promise!Spec

-----------------------------------------------------------------------------
(* The readers change nothing, so what holds of the requests holds beside  *)
(* them.                                                                   *)

THEOREM ReadersOnlyRead == ReadsSpec => Spec
<1>1. ReadsInit => Init
  BY DEF ReadsInit
<1>2. [ReadsNext]_allvars => [Next]_vars
  <2> SUFFICES ASSUME [ReadsNext]_allvars PROVE [Next]_vars
    OBVIOUS
  <2>1. CASE Requests \/ Dies
    BY <2>1 DEF Requests, Dies, Next
  <2>2. ASSUME NEW q \in Reader, ReadStep(q) PROVE UNCHANGED vars
    BY <2>2 DEF ReadStep, ListPaths, SearchSecrets, Begin, ReadPath, ReadId, ReadPathOfId,
       SkipRow, Respond, ReadFails, BlankPage
  <2> QED
    BY <2>1, <2>2 DEF ReadsNext, allvars
<1> QED
  BY <1>1, <1>2, PTL DEF ReadsSpec, Spec

-----------------------------------------------------------------------------
(* The searches.  While the index is in step, each hit leads to one row,   *)
(* and what a search has yet to read and what it shows come from the hits. *)

TablesFinite == IsFiniteSet(secrets) /\ IsFiniteSet(fts)

Accounted(q, T) ==
    /\ \A i \in ids[q] : \E e \in T : e.id = i
    /\ \A p \in paths[q] : \E e \in T : e.path = p
    /\ \A x \in page[q] : x \in secrets /\ EntryOf(x) \in T
    /\ clean[q] =>
          \A x \in secrets : EntryOf(x) \in T /\ x.path \in scope[q] =>
              x \in page[q] \/ x.path \in paths[q] \/ x.id \in ids[q]
    /\ stage[q] = "ok" => ids[q] = {} /\ paths[q] = {}

CalmSearch(q) ==
    stage[q] \in {"reading", "ok"} /\ query[q] # Nil /\ calm[q] =>
        /\ Synced
        /\ found[q] \subseteq {e \in fts : e.desc = query[q]}
        /\ clean[q] => found[q] = {e \in fts : e.desc = query[q]}
        /\ \E T \in Hits(found[q]) : Accounted(q, T)

SearchInv ==
    /\ TablesFinite
    /\ DOMAIN found = Reader /\ DOMAIN calm = Reader
    /\ \A q \in Reader : CalmSearch(q)

LEMMA TablesFiniteStep == ASSUME TableInv, TablesFinite, [Next]_vars PROVE TablesFinite'
<1>1. ASSUME NEW r \in Req, Upsert(r) PROVE TablesFinite'
  <2>1. row[r] \in Row
    BY <1>1 DEF Upsert, TableInv, Held, Running
  <2>2. PICK i \in Nat : secrets' = {x \in secrets : x.path # row[r].path}
                                        \cup {[row[r] EXCEPT !.id = i]}
    BY <1>1, <2>1, UpsertedRow DEF Upsert
  <2>3. IsFiniteSet({x \in secrets : x.path # row[r].path})
    BY FS_Subset DEF TablesFinite
  <2>4. IsFiniteSet(secrets')
    BY <2>2, <2>3, FS_AddElement
  <2> QED
    BY <1>1, <2>4 DEF Upsert, TablesFinite
<1>2. ASSUME NEW r \in Req, SyncFTS(r) PROVE TablesFinite'
  <2>1. IsFiniteSet({e \in fts : e.id # row[r].id})
    BY FS_Subset DEF TablesFinite
  <2>2. IsFiniteSet(fts')
    BY <1>2, <2>1, FS_AddElement DEF SyncFTS, Indexed
  <2> QED
    BY <1>2, <2>2 DEF SyncFTS, TablesFinite
<1>3. ASSUME NEW r \in Req, Remove(r) \/ Unindex(r) PROVE TablesFinite'
  <2>1. secrets' \subseteq secrets /\ fts' \subseteq fts
    BY <1>3 DEF Remove, Deleted, Unindex
  <2> QED
    BY <2>1, FS_Subset DEF TablesFinite
<1>4. CASE UNCHANGED table
  BY <1>4 DEF table, TablesFinite
<1> QED
  BY <1>1, <1>2, <1>3, <1>4 DEF Next, Handle, Crash, Arrive, Abort, PutUnread, HandleGet,
     HandlePut, HandleSave, HandleAnnotate, HandleDelete, SelectId, Reading, table, vars

\* A step of one reader leaves the requests and the other readers.
LEMMA OthersRead ==
    ASSUME ReadsInv, SearchInv, NEW q \in Reader, ReadStep(q), NEW o \in Reader, o # q
    PROVE  /\ UNCHANGED vars /\ DOMAIN found' = Reader /\ DOMAIN calm' = Reader
           /\ stage'[o] = stage[o] /\ query'[o] = query[o] /\ calm'[o] = calm[o]
           /\ found'[o] = found[o] /\ ids'[o] = ids[o] /\ paths'[o] = paths[o]
           /\ page'[o] = page[o] /\ clean'[o] = clean[o] /\ scope'[o] = scope[o]
<1> USE DEF ReadsInv, ReadsType, SearchInv, notes
<1>1. CASE ListPaths(q) \/ SearchSecrets(q) \/ BlankPage(q)
  BY <1>1 DEF ListPaths, SearchSecrets, BlankPage, Begin
<1>2. CASE ReadPath(q) \/ ReadId(q) \/ ReadPathOfId(q)
  BY <1>2 DEF ReadPath, ReadId, ReadPathOfId, Show
<1>3. CASE SkipRow(q) \/ Respond(q) \/ ReadFails(q)
  BY <1>3 DEF SkipRow, Respond, ReadFails
<1> QED
  BY <1>1, <1>2, <1>3 DEF ReadStep

LEMMA ReadDomains ==
    ASSUME SearchInv, NEW q \in Reader, ReadStep(q)
    PROVE  UNCHANGED vars /\ DOMAIN found' = Reader /\ DOMAIN calm' = Reader
BY DEF SearchInv, notes, ReadStep, ListPaths, SearchSecrets, Begin, ReadPath, ReadId, ReadPathOfId,
   SkipRow, Respond, ReadFails, BlankPage

\* A search keeps its account when the table, the index and what it found stay.
LEMMA KeptSearch ==
    ASSUME NEW q \in Reader, CalmSearch(q), UNCHANGED table, query'[q] = query[q],
           found'[q] = found[q], calm'[q] => calm[q], clean'[q] => clean[q],
           stage'[q] \in {"reading", "ok"} => stage[q] \in {"reading", "ok"},
           \A T \in Hits(found[q]) : Accounted(q, T) /\ Synced /\ T \subseteq fts => Accounted(q, T)'
    PROVE  CalmSearch(q)'
<1> SUFFICES ASSUME (stage[q] \in {"reading", "ok"} /\ query[q] # Nil /\ calm[q])'
             PROVE  /\ Synced'
                    /\ found'[q] \subseteq {e \in fts' : e.desc = query'[q]}
                    /\ clean'[q] => found'[q] = {e \in fts' : e.desc = query'[q]}
                    /\ \E T \in Hits(found'[q]) : Accounted(q, T)'
  BY DEF CalmSearch, Hits
<1>1. /\ Synced /\ found[q] \subseteq {e \in fts : e.desc = query[q]}
      /\ clean[q] => found[q] = {e \in fts : e.desc = query[q]}
      /\ \E T \in Hits(found[q]) : Accounted(q, T)
  BY DEF CalmSearch
<1>2. \A T \in Hits(found[q]) : T \subseteq fts
  BY <1>1 DEF Hits
<1> QED
  BY <1>1, <1>2 DEF table, Synced, EntryOf

\* An entry of an index in step leads to its row, by path and by rowid.
LEMMA EntryLeads ==
    ASSUME TableInv, Synced, NEW e \in fts
    PROVE  \E z \in secrets : EntryOf(z) = e /\ RowsAt(e.path) = {z} /\ RowsWithId(e.id) = {z}
<1>1. PICK z \in secrets : EntryOf(z) = e
  BY DEF Synced
<1>2. e.path = z.path /\ e.id = z.id
  BY <1>1 DEF EntryOf
<1> QED
  BY <1>1, <1>2 DEF RowsAt, RowsWithId, TableInv, TypeOK

LEMMA SearchSecretsCalm ==
    ASSUME ReadsInv, SearchInv, NEW q \in Reader, SearchSecrets(q)
    PROVE  CalmSearch(q)'
<1>1. PICK d \in Desc :
        /\ Begin(q) /\ query' = [query EXCEPT ![q] = d]
        /\ found' = [found EXCEPT ![q] = Matching(d)]
        /\ \E T \in Hits(Matching(d)) : ids' = [ids EXCEPT ![q] = {e.id : e \in T}]
        /\ UNCHANGED <<paths, clean>>
  BY DEF SearchSecrets
<1>2. PICK T \in Hits(Matching(d)) : ids' = [ids EXCEPT ![q] = {e.id : e \in T}]
  BY <1>1
<1>3. stage[q] = "idle" /\ stage' = [stage EXCEPT ![q] = "reading"]
         /\ UNCHANGED <<vars, page>> /\ calm' = [calm EXCEPT ![q] = InStep]
  BY <1>1 DEF Begin
<1>4. page'[q] = {} /\ paths'[q] = {}
  BY <1>1, <1>3 DEF ReadsInv, ReadInv, Untouched
<1>5. /\ stage'[q] = "reading" /\ query'[q] = d /\ found'[q] = {e \in fts : e.desc = d}
      /\ ids'[q] = {e.id : e \in T} /\ calm'[q] = InStep /\ T \in Hits(found'[q])
  BY <1>1, <1>2, <1>3 DEF ReadsInv, ReadsType, SearchInv, Matching
<1>6. Accounted(q, T)'
  <2>1. \A x \in secrets' : EntryOf(x) \in T => x.id \in ids'[q]
    BY <1>5 DEF EntryOf
  <2>2. \A i \in ids'[q] : \E e \in T : e.id = i
    BY <1>5
  <2> QED
    BY <1>4, <1>5, <2>1, <2>2 DEF Accounted, EntryOf
<1>7. InStep => Synced'
  BY <1>3 DEF InStep, Synced, vars, EntryOf
<1> QED
  BY <1>3, <1>5, <1>6, <1>7 DEF CalmSearch, vars, Hits

LEMMA ReadPathCalm ==
    ASSUME ReadsInv, SearchInv, NEW q \in Reader, ReadPath(q)
    PROVE  CalmSearch(q)'
<1> DEFINE Shown(p) ==
        {x \in RowsAt(p) : Opens(Kek, x.ct, AADSecret(x.path, x.desc, x.version))}
<1>1. PICK p \in paths[q] :
        /\ paths' = [paths EXCEPT ![q] = @ \ {p}]
        /\ page' = [page EXCEPT ![q] = @ \cup Shown(p)]
  BY DEF ReadPath, Show
<1>2. UNCHANGED <<vars, stage, query, scope, ids, clean, found, calm>>
  BY DEF ReadPath, notes
<1>3. Shown(p) = RowsAt(p)
  BY ReadRows DEF ReadsInv
<1> HIDE DEF Shown
<1>4. paths'[q] = paths[q] \ {p} /\ page'[q] = page[q] \cup RowsAt(p)
  BY <1>1, <1>3 DEF ReadsInv, ReadsType
<1>5. ASSUME NEW T \in Hits(found[q]), Accounted(q, T), Synced, T \subseteq fts
      PROVE  Accounted(q, T)'
  <2>1. PICK e \in T : e.path = p
    BY <1>5 DEF Accounted
  <2>2. PICK z \in secrets : EntryOf(z) = e /\ RowsAt(p) = {z}
    BY <1>5, <2>1, EntryLeads DEF ReadsInv, IInv
  <2>3. page'[q] = page[q] \cup {z} /\ \A x \in secrets : x.path = p => x = z
    BY <1>4, <2>2 DEF RowsAt
  <2>4. \A x \in page'[q] : x \in secrets /\ EntryOf(x) \in T
    BY <1>5, <2>1, <2>2, <2>3 DEF Accounted
  <2>5. clean[q] => \A x \in secrets : EntryOf(x) \in T /\ x.path \in scope[q] =>
           x \in page'[q] \/ x.path \in paths'[q] \/ x.id \in ids[q]
    BY <1>4, <1>5, <2>3 DEF Accounted
  <2>6. stage[q] # "ok"
    BY DEF ReadPath
  <2> QED
    BY <1>2, <1>4, <1>5, <2>4, <2>5, <2>6 DEF Accounted, EntryOf, vars
<1> QED
  BY <1>2, <1>5, KeptSearch DEF SearchInv, vars, table

LEMMA ReadIdCalm ==
    ASSUME ReadsInv, SearchInv, NEW q \in Reader, ReadId(q)
    PROVE  CalmSearch(q)'
<1>1. PICK i \in ids[q] :
        /\ ids' = [ids EXCEPT ![q] = @ \ {i}]
        /\ page' = [page EXCEPT ![q] = @ \cup {x \in RowsWithId(i) : x.path \in scope[q]}]
  BY DEF ReadId, Show, CanAccess
<1>2. UNCHANGED <<vars, stage, query, scope, paths, clean, found, calm>>
  BY DEF ReadId, notes
<1>3. /\ ids'[q] = ids[q] \ {i}
      /\ page'[q] = page[q] \cup {x \in RowsWithId(i) : x.path \in scope[q]}
  BY <1>1 DEF ReadsInv, ReadsType
<1>4. ASSUME NEW T \in Hits(found[q]), Accounted(q, T), Synced, T \subseteq fts
      PROVE  Accounted(q, T)'
  <2>1. PICK e \in T : e.id = i
    BY <1>4 DEF Accounted
  <2>2. PICK z \in secrets : EntryOf(z) = e /\ RowsWithId(i) = {z}
    BY <1>4, <2>1, EntryLeads DEF ReadsInv, IInv
  <2>3. \A x \in secrets : x.id = i => x = z
    BY <2>2 DEF RowsWithId
  <2>4. \A x \in page'[q] : x \in secrets /\ EntryOf(x) \in T
    BY <1>3, <1>4, <2>1, <2>2 DEF Accounted
  <2>5. clean[q] => \A x \in secrets : EntryOf(x) \in T /\ x.path \in scope[q] =>
           x \in page'[q] \/ x.path \in paths[q] \/ x.id \in ids'[q]
    BY <1>3, <1>4, <2>2, <2>3 DEF Accounted
  <2>6. stage[q] # "ok"
    BY DEF ReadId
  <2> QED
    BY <1>2, <1>3, <1>4, <2>4, <2>5, <2>6 DEF Accounted, EntryOf, vars
<1> QED
  BY <1>2, <1>4, KeptSearch DEF SearchInv, vars, table

LEMMA ReadPathOfIdCalm ==
    ASSUME ReadsInv, SearchInv, NEW q \in Reader, ReadPathOfId(q)
    PROVE  CalmSearch(q)'
<1>1. PICK i \in ids[q] :
        /\ ids' = [ids EXCEPT ![q] = @ \ {i}]
        /\ paths' = [paths EXCEPT ![q] = @ \cup PathsOf(RowsWithId(i))]
  BY DEF ReadPathOfId
<1>2. UNCHANGED <<vars, stage, query, scope, page, clean, found, calm>>
  BY DEF ReadPathOfId, notes
<1>3. ids'[q] = ids[q] \ {i} /\ paths'[q] = paths[q] \cup PathsOf(RowsWithId(i))
  BY <1>1 DEF ReadsInv, ReadsType
<1>4. ASSUME NEW T \in Hits(found[q]), Accounted(q, T), Synced, T \subseteq fts
      PROVE  Accounted(q, T)'
  <2>1. PICK e \in T : e.id = i
    BY <1>4 DEF Accounted
  <2>2. PICK z \in secrets : EntryOf(z) = e /\ RowsWithId(i) = {z}
    BY <1>4, <2>1, EntryLeads DEF ReadsInv, IInv
  <2>3. PathsOf(RowsWithId(i)) = {z.path} /\ z.path = e.path
    BY <2>2 DEF PathsOf, EntryOf
  <2>4. \A p \in paths'[q] : \E f \in T : f.path = p
    BY <1>3, <1>4, <2>1, <2>3 DEF Accounted
  <2>5. clean[q] => \A x \in secrets : EntryOf(x) \in T /\ x.path \in scope[q] =>
           x \in page[q] \/ x.path \in paths'[q] \/ x.id \in ids'[q]
    BY <1>3, <1>4, <2>2, <2>3 DEF Accounted, RowsWithId
  <2>6. stage[q] # "ok"
    BY DEF ReadPathOfId
  <2> QED
    BY <1>2, <1>3, <1>4, <2>4, <2>5, <2>6 DEF Accounted, EntryOf, vars
<1> QED
  BY <1>2, <1>4, KeptSearch DEF SearchInv, vars, table

LEMMA SkipRowCalm ==
    ASSUME ReadsInv, SearchInv, NEW q \in Reader, SkipRow(q)
    PROVE  CalmSearch(q)'
<1>1. /\ stage[q] = "reading" /\ clean' = [clean EXCEPT ![q] = FALSE]
      /\ UNCHANGED <<vars, stage, query, scope, page, found, calm>>
  BY DEF SkipRow
<1>2. paths'[q] \subseteq paths[q] /\ ids'[q] \subseteq ids[q] /\ ~ clean'[q]
  BY DEF SkipRow, ReadsInv, ReadsType
<1>3. \A T : Accounted(q, T) => Accounted(q, T)'
  BY <1>1, <1>2 DEF Accounted, EntryOf, vars
<1> QED
  BY <1>1, <1>3, KeptSearch DEF SearchInv, vars, table

LEMMA EndsCalm ==
    ASSUME ReadsInv, SearchInv, NEW q \in Reader,
           ListPaths(q) \/ Respond(q) \/ ReadFails(q) \/ BlankPage(q)
    PROVE  CalmSearch(q)'
<1>1. CASE ListPaths(q)
  <2>1. query'[q] = Nil
    BY <1>1 DEF ListPaths, Begin, ReadsInv, ReadInv, Untouched
  <2> QED
    BY <2>1 DEF CalmSearch
<1>2. CASE Respond(q)
  <2>1. /\ stage[q] = "reading" /\ paths[q] = {} /\ ids[q] = {}
        /\ UNCHANGED <<vars, query, scope, paths, ids, page, clean, found, calm>>
    BY <1>2 DEF Respond, notes
  <2>2. \A T : Accounted(q, T) => Accounted(q, T)'
    BY <2>1 DEF Accounted, EntryOf, vars
  <2> QED
    BY <2>1, <2>2, KeptSearch DEF SearchInv, vars, table
<1>3. CASE ReadFails(q)
  BY <1>3 DEF ReadFails, CalmSearch, ReadsInv, ReadsType
<1>4. CASE BlankPage(q)
  <2>1. PICK d \in Query :
          /\ Begin(q) /\ query' = [query EXCEPT ![q] = d]
          /\ found' = [found EXCEPT ![q] = {}]
          /\ clean' = [clean EXCEPT ![q] = FALSE]
          /\ UNCHANGED <<paths, ids>>
    BY <1>4 DEF BlankPage
  <2>2. /\ stage[q] = "idle" /\ UNCHANGED <<vars, page>>
        /\ calm' = [calm EXCEPT ![q] = InStep]
    BY <2>1 DEF Begin
  <2>3. /\ page'[q] = {} /\ paths'[q] = {} /\ ids'[q] = {} /\ found'[q] = {} /\ ~clean'[q]
        /\ calm'[q] = InStep /\ stage'[q] = "reading"
    BY <2>1, <2>2 DEF Begin, ReadsInv, ReadsType, ReadInv, Untouched, SearchInv
  <2>4. {} \in Hits({})
    BY FS_EmptySet, ReadsAssumption DEF Hits
  <2>5. Accounted(q, {})'
    BY <2>3 DEF Accounted
  <2>6. InStep => Synced'
    BY <2>2 DEF InStep, Synced, vars, EntryOf
  <2> QED
    BY <2>3, <2>4, <2>5, <2>6 DEF CalmSearch, Hits
<1> QED
  BY <1>1, <1>2, <1>3, <1>4

\* A step of the requests, or the end of the process, leaves a calm search calm
\* only if it leaves the tables.
LEMMA RequestsCalm ==
    ASSUME ReadsInv, SearchInv, Requests \/ Dies
    PROVE  SearchInv'
<1>1. Next
  BY DEF Requests, Dies, Next
<1>2. TablesFinite'
  BY <1>1, TablesFiniteStep DEF ReadsInv, IInv, SearchInv
<1>3. UNCHANGED <<query, scope, paths, ids, page, found, clean>>
  BY DEF Requests, Dies, Watch, progress, notes
<1>4. DOMAIN found' = Reader /\ DOMAIN calm' = Reader
  BY <1>3 DEF SearchInv, Requests, Dies, Watch, notes
<1>5. ASSUME NEW q \in Reader PROVE CalmSearch(q)'
  <2>1. stage'[q] = stage[q] \/ stage'[q] = "failed"
    BY DEF Requests, Dies, progress, ReadsInv, ReadsType
  <2>2. calm'[q] => calm[q] /\ UNCHANGED table
    BY DEF Requests, Dies, Watch, notes, Crash
  <2>3. CASE calm'[q] /\ stage'[q] = stage[q]
    <3>1. \A T : Accounted(q, T) => Accounted(q, T)'
      BY <1>3, <2>2, <2>3 DEF Accounted, EntryOf, table
    <3> QED
      BY <1>3, <2>2, <2>3, <3>1, KeptSearch DEF SearchInv
  <2>4. CASE ~ calm'[q] \/ stage'[q] = "failed"
    BY <2>4 DEF CalmSearch
  <2> QED
    BY <2>1, <2>3, <2>4
<1> QED
  BY <1>2, <1>4, <1>5 DEF SearchInv

LEMMA SearchStep == ASSUME ReadsInv, SearchInv, [ReadsNext]_allvars PROVE SearchInv'
<1>1. CASE UNCHANGED allvars
  BY <1>1 DEF allvars, vars, readvars, progress, notes, SearchInv, TablesFinite, CalmSearch,
     Accounted, Synced, EntryOf, Hits
<1>2. ASSUME NEW q \in Reader, ReadStep(q) PROVE SearchInv'
  <2>1. /\ UNCHANGED <<table>> /\ DOMAIN found' = Reader /\ DOMAIN calm' = Reader
    BY <1>2, ReadDomains DEF vars, table
  <2>2. TablesFinite'
    BY <2>1 DEF TablesFinite, SearchInv, table
  <2>3. CalmSearch(q)'
    BY <1>2, SearchSecretsCalm, ReadPathCalm, ReadIdCalm, ReadPathOfIdCalm, SkipRowCalm, EndsCalm
       DEF ReadStep
  <2>4. ASSUME NEW o \in Reader, o # q PROVE CalmSearch(o)'
    <3>1. /\ stage'[o] = stage[o] /\ query'[o] = query[o] /\ calm'[o] = calm[o]
          /\ found'[o] = found[o] /\ ids'[o] = ids[o] /\ paths'[o] = paths[o]
          /\ page'[o] = page[o] /\ clean'[o] = clean[o] /\ scope'[o] = scope[o]
      BY <1>2, <2>4, OthersRead
    <3>2. \A T : Accounted(o, T) => Accounted(o, T)'
      BY <2>1, <3>1 DEF Accounted, EntryOf, table
    <3> QED
      BY <2>1, <3>1, <3>2, KeptSearch DEF SearchInv
  <2> QED
    BY <2>1, <2>2, <2>3, <2>4 DEF SearchInv
<1> QED
  BY <1>1, <1>2, RequestsCalm DEF ReadsNext

\* A set of rows whose entries are among those of T is no larger than T.
LEMMA RowsOfEntries ==
    ASSUME TableInv, NEW S \in SUBSET secrets, NEW T, IsFiniteSet(T), \A x \in S : EntryOf(x) \in T
    PROVE  Cardinality(S) <= Cardinality(T)
<1> DEFINE f == [x \in S |-> EntryOf(x)]
<1>1. \A x, y \in S : f[x] = f[y] => x = y
  BY DEF EntryOf, TableInv, TypeOK
<1>2. f \in Injection(S, T)
  BY <1>1 DEF Injection, IsInjective
<1> QED
  BY <1>2, FS_Injection

\* A search of an index in step, with no write meanwhile, answers with matching
\* rows, at most Limit, and with all of them in scope when the LIMIT cut
\* nothing off.
THEOREM SearchesFind == ReadsSpec => []SearchesAnswer
<1>1. ReadsInit => SearchInv
  BY FS_EmptySet DEF ReadsInit, Init, SearchInv, TablesFinite, CalmSearch
<1>2. ReadsInv /\ SearchInv /\ [ReadsNext]_allvars => SearchInv'
  BY SearchStep
<1>3. ASSUME ReadsInv, SearchInv, NEW q \in Reader, stage[q] = "ok", query[q] # Nil, calm[q]
      PROVE  /\ \A x \in page[q] : x.desc = query[q]
             /\ Cardinality(page[q]) <= Limit
             /\ clean[q] /\ Cardinality(found[q]) <= Limit =>
                   {x \in secrets : x.desc = query[q] /\ x.path \in scope[q]} \subseteq page[q]
  <2>1. TableInv
    BY <1>3 DEF ReadsInv, IInv
  <2>2. /\ Synced /\ IsFiniteSet(found[q])
        /\ found[q] \subseteq {e \in fts : e.desc = query[q]}
        /\ clean[q] => found[q] = {e \in fts : e.desc = query[q]}
    BY <1>3, FS_Subset DEF SearchInv, CalmSearch, TablesFinite
  <2>3. PICK T \in Hits(found[q]) : Accounted(q, T)
    BY <1>3 DEF SearchInv, CalmSearch
  <2>4. /\ T \subseteq found[q] /\ IsFiniteSet(T)
        /\ Cardinality(T) = IF Cardinality(found[q]) > Limit THEN Limit ELSE Cardinality(found[q])
    BY <2>2, FS_Subset DEF Hits
  <2>5. Cardinality(found[q]) \in Nat /\ Limit \in Nat
    BY <2>2, FS_CardinalityType, ReadsAssumption
  <2>6. \A x \in page[q] : x \in secrets /\ EntryOf(x) \in T
    BY <2>3 DEF Accounted
  <2>7. \A x \in page[q] : x.desc = query[q]
    BY <2>2, <2>4, <2>6 DEF EntryOf
  <2>8. Cardinality(page[q]) <= Limit
    <3>1. Cardinality(page[q]) <= Cardinality(T) /\ IsFiniteSet(page[q])
      BY <2>1, <2>4, <2>6, RowsOfEntries, <1>3, FS_Subset DEF SearchInv, TablesFinite
    <3>2. Cardinality(page[q]) \in Nat
      BY <3>1, FS_CardinalityType
    <3> QED
      BY <2>4, <2>5, <3>1, <3>2
  <2>9. ASSUME clean[q], Cardinality(found[q]) <= Limit,
               NEW x \in secrets, x.desc = query[q], x.path \in scope[q]
        PROVE  x \in page[q]
    <3>1. T = found[q]
      BY <2>2, <2>4, <2>5, <2>9, FS_Subset
    <3>2. EntryOf(x) \in T
      BY <2>2, <2>9, <3>1 DEF Synced, EntryOf
    <3> QED
      BY <1>3, <2>3, <2>9, <3>2 DEF Accounted
  <2> QED
    BY <2>7, <2>8, <2>9
<1>4. ReadsInv /\ SearchInv => SearchesAnswer
  BY <1>3 DEF SearchesAnswer
<1> QED
  BY <1>1, <1>2, <1>4, ReadsInvariance, PTL DEF ReadsSpec

-----------------------------------------------------------------------------
(* The index under many writers, while nothing is deleted and none fails:  *)
(* an entry is that of a row, by rowid and path, and a row without one has *)
(* a writer that is about to sync it.                                      *)

NoFailure == \A r \in Req : reply[r] \notin {"error", "lost"}

RowFor(i, p) == \E x \in secrets : x.id = i /\ x.path = p

Covers ==
    /\ \A e \in fts : RowFor(e.id, e.path)
    /\ \A e, f \in fts : e.id = f.id => e = f
    /\ \A x \in secrets :
          \/ \E e \in fts : e.id = x.id
          \/ \E r \in Req : pc[r] \in {"selectid", "sync"} /\ row[r].path = x.path
    /\ \A r \in Req : pc[r] = "sync" => RowFor(row[r].id, row[r].path)

CoverInv == SoFar(Lasting) /\ NoFailure => Covers

\* A row keeps its rowid as long as nothing is deleted.
LEMMA RowsKeepIds ==
    ASSUME TableInv, Tracked, SoFar(Lasting), [Next]_vars, NEW i, NEW p, RowFor(i, p)
    PROVE  RowFor(i, p)'
<1>1. PICK x \in secrets : x.id = i /\ x.path = p
  BY DEF RowFor
<1>2. ASSUME NEW r \in Req, Upsert(r) PROVE RowFor(i, p)'
  <2>1. row[r] \in Row
    BY <1>2 DEF Upsert, TableInv, Held, Running
  <2>2. PICK k \in Nat : /\ secrets' = {z \in secrets : z.path # row[r].path}
                                           \cup {[row[r] EXCEPT !.id = k]}
                         /\ \A z \in secrets : z.path = row[r].path <=> z.id = k
    BY <1>2, <2>1, UpsertedRow DEF Upsert
  <2>3. [row[r] EXCEPT !.id = k].id = k /\ [row[r] EXCEPT !.id = k].path = row[r].path
    BY <2>1 DEF Row
  <2> QED
    BY <1>1, <2>2, <2>3 DEF RowFor
<1>3. ASSUME NEW r \in Req, Remove(r) PROVE FALSE
  BY <1>3, ConstantsAssumption
     DEF Remove, Tracked, OnItsWay, SoFar, Lasting, TableInv, TypeOK, Held, Running
<1>4. CASE UNCHANGED secrets
  BY <1>4 DEF RowFor
<1> QED
  BY <1>2, <1>3, <1>4 DEF Next, Handle, Crash, Arrive, Abort, PutUnread, HandleGet, HandlePut,
     HandleSave, HandleAnnotate, HandleDelete, SelectId, SyncFTS, Unindex, Reading, table, vars

\* A reply stands.
LEMMA NoFailureBefore ==
    ASSUME TableInv, Tracked, [Next]_vars, NoFailure'
    PROVE  NoFailure
<1>1. CASE UNCHANGED vars
  BY <1>1 DEF vars, NoFailure
<1>2. CASE Crash
  BY <1>2 DEF Crash, Active, Running, Tracked, OnItsWay, NoFailure
<1>3. ASSUME NEW r \in Req, Arrive(r) \/ Abort(r) \/ PutUnread(r) \/ Handle(r)
      PROVE  NoFailure
  <2>1. \A q \in Req \ {r} : reply[q] = reply'[q]
    BY <1>3, OneRequest
  <2>2. pc[r] # "done"
    BY <1>3 DEF Arrive, Abort, PutUnread, Handle, HandleGet, HandlePut, HandleSave, HandleAnnotate,
       HandleDelete, Upsert, SelectId, SyncFTS, Remove, Unindex, Reading, Running
  <2> QED
    BY <2>1, <2>2 DEF Tracked, OnItsWay, NoFailure
<1> QED
  BY <1>1, <1>2, <1>3 DEF Next

LEMMA UpsertCovers ==
    ASSUME TableInv, Tracked, SoFar(Lasting), Covers, NEW r \in Req, Upsert(r)
    PROVE  Covers'
<1>1. row[r] \in Row /\ UNCHANGED <<fts, row>> /\ pc' = [pc EXCEPT ![r] = "selectid"] /\ pc[r] = "upsert"
  BY DEF Upsert, Goto, TableInv, Held, Running
<1>2. PICK k \in Nat : secrets' = {z \in secrets : z.path # row[r].path}
                                      \cup {[row[r] EXCEPT !.id = k]}
  BY <1>1, UpsertedRow DEF Upsert
<1>3. [row[r] EXCEPT !.id = k].path = row[r].path
  BY <1>1 DEF Row
<1>4. \A i, p : RowFor(i, p) => RowFor(i, p)'
  BY RowsKeepIds DEF Next, Handle
<1>5. \A q \in Req : q # r => pc'[q] = pc[q]
  BY <1>1 DEF TableInv, TypeOK
<1>6. pc'[r] = "selectid"
  BY <1>1 DEF TableInv, TypeOK
<1>7. ASSUME NEW x \in secrets'
      PROVE  \/ \E e \in fts' : e.id = x.id
             \/ \E q \in Req : pc'[q] \in {"selectid", "sync"} /\ row'[q].path = x.path
  <2>1. CASE x \in secrets
    BY <1>1, <1>5, <2>1 DEF Covers
  <2>2. CASE x = [row[r] EXCEPT !.id = k]
    BY <1>1, <1>3, <1>6, <2>2
  <2> QED
    BY <1>2, <2>1, <2>2
<1>8. \A q \in Req : pc'[q] = "sync" => RowFor(row[q].id, row[q].path)'
  <2> SUFFICES ASSUME NEW q \in Req, pc'[q] = "sync" PROVE RowFor(row[q].id, row[q].path)'
    OBVIOUS
  <2>1. RowFor(row[q].id, row[q].path) /\ row'[q] = row[q]
    BY <1>1, <1>5, <1>6 DEF Covers
  <2> QED
    BY <1>4, <2>1 DEF RowFor
<1>9. \A e \in fts' : RowFor(e.id, e.path)'
  BY <1>1, <1>4 DEF Covers
<1> QED
  BY <1>1, <1>7, <1>8, <1>9 DEF Covers

LEMMA SelectIdCovers ==
    ASSUME TableInv, Covers, NEW r \in Req, SelectId(r), RowsAt(row[r].path) # {}
    PROVE  Covers'
<1>1. PICK x \in RowsAt(row[r].path) : Hold(r, [row[r] EXCEPT !.id = x.id]) /\ Goto(r, "sync")
  BY DEF SelectId
<1>2. row[r] \in Row /\ UNCHANGED table /\ pc[r] = "selectid"
  BY DEF SelectId, TableInv, Held, Running
<1>3. /\ pc'[r] = "sync" /\ row'[r].id = x.id /\ row'[r].path = row[r].path
      /\ \A q \in Req : q # r => pc'[q] = pc[q] /\ row'[q] = row[q]
  BY <1>1, <1>2 DEF Hold, Goto, TableInv, TypeOK, Row
<1>4. \A i, p : RowFor(i, p) => RowFor(i, p)'
  BY <1>2 DEF RowFor, table
<1>5. RowFor(row[r].id, row[r].path)'
  BY <1>1, <1>2, <1>3 DEF RowsAt, RowFor, table
<1>6. \A q \in Req : pc'[q] = "sync" => RowFor(row[q].id, row[q].path)'
  <2> SUFFICES ASSUME NEW q \in Req, q # r, pc'[q] = "sync" PROVE RowFor(row[q].id, row[q].path)'
    BY <1>5
  <2>1. RowFor(row[q].id, row[q].path) /\ row'[q] = row[q]
    BY <1>3 DEF Covers
  <2> QED
    BY <1>4, <2>1 DEF RowFor
<1>7. \A z \in secrets' :
         \/ \E e \in fts' : e.id = z.id
         \/ \E q \in Req : pc'[q] \in {"selectid", "sync"} /\ row'[q].path = z.path
  <2> SUFFICES ASSUME NEW z \in secrets, NEW q \in Req,
                      pc[q] \in {"selectid", "sync"}, row[q].path = z.path
               PROVE  pc'[q] \in {"selectid", "sync"} /\ row'[q].path = z.path
    BY <1>2 DEF Covers, table
  <2> QED
    BY <1>3
<1> QED
  BY <1>2, <1>4, <1>6, <1>7 DEF Covers, table

LEMMA SyncFTSCovers ==
    ASSUME TableInv, Covers, NEW r \in Req, SyncFTS(r)
    PROVE  Covers'
<1>1. /\ pc[r] = "sync" /\ fts' = {e \in fts : e.id # row[r].id} \cup {EntryOf(row[r])}
      /\ UNCHANGED <<secrets, row>> /\ pc' = [pc EXCEPT ![r] = "done"]
  BY DEF SyncFTS, Indexed, Answer
<1>2. /\ EntryOf(row[r]).id = row[r].id /\ EntryOf(row[r]).path = row[r].path
      /\ RowFor(row[r].id, row[r].path)
  BY <1>1 DEF EntryOf, Covers
<1>3. \A q \in Req : q # r => pc'[q] = pc[q]
  BY <1>1 DEF TableInv, TypeOK
<1>4. pc'[r] = "done"
  BY <1>1 DEF TableInv, TypeOK
<1>5. \A i, p : RowFor(i, p)' <=> RowFor(i, p)
  BY <1>1 DEF RowFor
<1>6. \A e \in fts' : RowFor(e.id, e.path)'
  BY <1>1, <1>2, <1>5 DEF Covers
<1>7. \A e, f \in fts' : e.id = f.id => e = f
  BY <1>1, <1>2 DEF Covers
<1>8. ASSUME NEW x \in secrets'
      PROVE  \/ \E e \in fts' : e.id = x.id
             \/ \E q \in Req : pc'[q] \in {"selectid", "sync"} /\ row'[q].path = x.path
  <2>1. CASE \E e \in fts : e.id = x.id
    BY <1>1, <1>2, <2>1
  <2>2. CASE \E q \in Req : pc[q] \in {"selectid", "sync"} /\ row[q].path = x.path
    <3>1. CASE row[r].path = x.path
      BY <1>1, <1>2, <3>1 DEF RowFor, TableInv, TypeOK
    <3>2. CASE row[r].path # x.path
      BY <1>1, <1>3, <2>2, <3>2
    <3> QED
      BY <3>1, <3>2
  <2> QED
    BY <1>1, <2>1, <2>2 DEF Covers
<1>9. \A q \in Req : pc'[q] = "sync" => RowFor(row[q].id, row[q].path)'
  <2> SUFFICES ASSUME NEW q \in Req, pc'[q] = "sync" PROVE RowFor(row[q].id, row[q].path)'
    OBVIOUS
  <2>1. RowFor(row[q].id, row[q].path) /\ row'[q] = row[q]
    BY <1>1, <1>3, <1>4 DEF Covers
  <2> QED
    BY <1>5, <2>1 DEF RowFor
<1> QED
  BY <1>6, <1>7, <1>8, <1>9 DEF Covers

\* A step that leaves the tables and neither awaits nor gives up an entry.
LEMMA ElseCovers ==
    ASSUME TableInv, Covers, UNCHANGED table,
           \A q \in Req :
              \/ pc'[q] = pc[q] /\ row'[q] = row[q]
              \/ pc[q] \notin {"selectid", "sync"} /\ pc'[q] \notin {"selectid", "sync"}
    PROVE  Covers'
<1>1. \A i, p : RowFor(i, p) => RowFor(i, p)'
  BY DEF RowFor, table
<1>2. \A q \in Req : pc'[q] = "sync" => RowFor(row[q].id, row[q].path)'
  <2> SUFFICES ASSUME NEW q \in Req, pc'[q] = "sync" PROVE RowFor(row[q].id, row[q].path)'
    OBVIOUS
  <2>1. RowFor(row[q].id, row[q].path) /\ row'[q] = row[q]
    BY DEF Covers
  <2> QED
    BY <1>1, <2>1 DEF RowFor
<1>3. \A x \in secrets :
         \/ \E e \in fts : e.id = x.id
         \/ \E q \in Req : pc'[q] \in {"selectid", "sync"} /\ row'[q].path = x.path
  BY DEF Covers
<1> QED
  BY <1>1, <1>2, <1>3 DEF Covers, table

LEMMA CoverStep == ASSUME TableInv, Tracked, NoGap, CoverInv, [Next]_vars PROVE CoverInv'
<1> SUFFICES ASSUME SoFar(Lasting)', NoFailure' PROVE Covers'
  BY DEF CoverInv
<1>1. SoFar(Lasting) /\ Covers
  BY SoFarBefore, NoFailureBefore DEF CoverInv
<1>2. CASE UNCHANGED vars
  BY <1>1, <1>2, ElseCovers DEF vars, table
<1>3. CASE Crash
  BY <1>3 DEF Crash, Active, NoFailure
<1>4. ASSUME NEW r \in Req,
             \/ Arrive(r) \/ HandleGet(r) \/ HandlePut(r) \/ HandleSave(r)
             \/ HandleAnnotate(r) \/ HandleDelete(r) \/ PutUnread(r)
      PROVE  Covers'
  <2>1. UNCHANGED table /\ pc[r] \in {"idle", "read"} /\ pc'[r] \in {"read", "upsert", "remove", "done"}
    BY <1>4, ReadLeavesTables DEF PutUnread, Reading, Goto, TableInv, TypeOK
  <2>2. \A q \in Req : q # r => pc'[q] = pc[q] /\ row'[q] = row[q]
    BY <1>4, OneRequest DEF Handle
  <2> QED
    BY <1>1, <2>1, <2>2, ElseCovers
<1>5. ASSUME NEW r \in Req, Abort(r) PROVE Covers'
  <2>1. UNCHANGED table /\ pc'[r] = "done" /\ reply'[r] # "error"
    BY <1>5 DEF Abort, Answer, TableInv, TypeOK, NoFailure
  <2>2. pc[r] = "read"
    BY <1>5, <2>1 DEF Abort, Answer, TableInv, TypeOK
  <2>3. \A q \in Req : q # r => pc'[q] = pc[q] /\ row'[q] = row[q]
    BY <1>5, OneRequest
  <2> QED
    BY <1>1, <2>1, <2>2, <2>3, ElseCovers
<1>6. ASSUME NEW r \in Req, Upsert(r) PROVE Covers'
  BY <1>1, <1>6, UpsertCovers
<1>7. ASSUME NEW r \in Req, SelectId(r) PROVE Covers'
  BY <1>1, <1>7, SelectIdCovers DEF NoGap, SelectId
<1>8. ASSUME NEW r \in Req, SyncFTS(r) PROVE Covers'
  BY <1>1, <1>8, SyncFTSCovers
<1>9. ASSUME NEW r \in Req, Remove(r) \/ Unindex(r) PROVE FALSE
  BY <1>1, <1>9, ConstantsAssumption
     DEF Remove, Unindex, Tracked, OnItsWay, SoFar, Lasting, TableInv, TypeOK, Held, Running
<1> QED
  BY <1>2, <1>3, <1>4, <1>5, <1>6, <1>7, <1>8, <1>9 DEF Next, Handle

\* Entries and rows match one to one when each entry has a row and each row an
\* entry.
LEMMA OneToOne ==
    ASSUME TableInv, TablesFinite, Covers, \A x \in secrets : \E e \in fts : e.id = x.id
    PROVE  /\ {<<e.id, e.path>> : e \in fts} = {<<x.id, x.path>> : x \in secrets}
           /\ Cardinality(fts) = Cardinality(secrets)
<1>1. \A e \in fts : \E x \in secrets : x.id = e.id /\ x.path = e.path
  BY DEF Covers, RowFor
<1>2. \A x \in secrets : \E e \in fts : e.id = x.id /\ e.path = x.path
  BY <1>1 DEF TableInv, TypeOK
<1>3. {<<e.id, e.path>> : e \in fts} = {<<x.id, x.path>> : x \in secrets}
  BY <1>1, <1>2
<1> DEFINE f == [e \in fts |-> CHOOSE x \in secrets : x.id = e.id]
           g == [x \in secrets |-> CHOOSE e \in fts : e.id = x.id]
<1>4. f \in Injection(fts, secrets)
  <2>1. \A e \in fts : f[e] \in secrets /\ f[e].id = e.id
    BY <1>1
  <2>2. \A d, e \in fts : f[d] = f[e] => d = e
    BY <2>1 DEF Covers
  <2> QED
    BY <2>1, <2>2 DEF Injection, IsInjective
<1>5. g \in Injection(secrets, fts)
  <2>1. \A x \in secrets : g[x] \in fts /\ g[x].id = x.id
    BY <1>2
  <2>2. \A x, y \in secrets : g[x] = g[y] => x = y
    BY <2>1 DEF TableInv, TypeOK
  <2> QED
    BY <2>1, <2>2 DEF Injection, IsInjective
<1> HIDE DEF f, g
<1>6. Cardinality(fts) <= Cardinality(secrets) /\ Cardinality(secrets) <= Cardinality(fts)
  BY <1>4, <1>5, FS_Injection DEF TablesFinite
<1>7. Cardinality(fts) \in Nat /\ Cardinality(secrets) \in Nat
  BY FS_CardinalityType DEF TablesFinite
<1> QED
  BY <1>3, <1>6, <1>7

\* As long as nothing is deleted, each row has one index entry, under its own
\* path, once every writer is done and none has failed, whatever the order of
\* their upserts and syncs.
THEOREM NothingUnindexed == Spec => []IndexCovers
<1>1. Init => TablesFinite /\ CoverInv
  BY FS_EmptySet DEF Init, TablesFinite, CoverInv, Covers
<1>2. TableInv /\ Tracked /\ NoGap /\ TablesFinite /\ CoverInv /\ [Next]_vars
         => (TablesFinite /\ CoverInv)'
  BY CoverStep, TablesFiniteStep
<1>3. TableInv /\ TablesFinite /\ CoverInv => IndexCovers
  <2> SUFFICES ASSUME TableInv, TablesFinite, CoverInv, Active = {}, SoFar(Lasting), NoFailure
               PROVE  /\ {<<e.id, e.path>> : e \in fts} = {<<x.id, x.path>> : x \in secrets}
                      /\ Cardinality(fts) = Cardinality(secrets)
    BY DEF IndexCovers, Lasting, NoFailure
  <2>1. Covers /\ \A r \in Req : pc[r] \notin {"selectid", "sync"}
    BY DEF CoverInv, Active, Running
  <2>2. \A x \in secrets : \E e \in fts : e.id = x.id
    BY <2>1 DEF Covers
  <2> QED
    BY <2>1, <2>2, OneToOne
<1>4. Spec => []TableInv
  BY Invariance, PTL DEF IInv
<1> QED
  BY <1>1, <1>2, <1>3, <1>4, RequestsTracked, PTL DEF Spec
=============================================================================
