----------------------------- MODULE BootProofs -----------------------------
(***************************************************************************)
(* What holds of Boot for any set of rowids, and so for any number of rows *)
(* an old volume may have, and any number of boots and crashes.            *)
(***************************************************************************)
EXTENDS Boot, TLAPS

(***************************************************************************)
(* The inductive invariant: what is on disk by the time the process is at  *)
(* a label, which is what makes it harmless to be killed there.            *)
(***************************************************************************)

\* No row is written before the salts it depends on, and a salt is drawn only
\* while there is none.
SaltsFirst ==
    /\ salt = 0 => content["secrets"] = {}
    /\ pc \notin {"salt", "down"} => salt # 0
    /\ seed = 0 => macs = {} /\ ~ done
    /\ pc \in {"params", "fresh", "bootstrap", "mark", "print", "serving"} => seed # 0

\* The operator is written before the first boot is marked done, and the token
\* in memory is the one written.
OperatorFirst ==
    /\ operator = 0 => printed = {} /\ ~ done
    /\ pc \in {"mark", "print"} => operator # 0 /\ token = operator

\* Unless its migration was cut short, a table's index is complete, or it is
\* being rebuilt, and data holds what is missing.
Rebuilding(t) == pc \in Migrating /\ table = t

IndexKept ==
    \A t \in Table \ interrupted :
        /\ ~ Rebuilding(t) => /\ fts[t].schema = "fts5" => fts[t].ids = content[t]
                              /\ fts[t].schema = "none" => content[t] = {}
        /\ Rebuilding(t) /\ pc \in {"recreate", "select"} => fts[t].ids = {}
        /\ Rebuilding(t) /\ pc \in {"close", "reindex"} => fts[t].ids \cup data = content[t]
        /\ fts[t].schema = "none" =>
              pc \in {"down", "salt", "schema"} \/ (Rebuilding(t) /\ pc = "recreate")

IInv == TypeOK /\ SaltsFirst /\ OldRowsStayValid /\ OperatorFirst /\ PrintedTokenWorks /\ IndexKept

-----------------------------------------------------------------------------
\* Both volumes a process may find satisfy the invariant.
LEMMA InitInv == Init => IInv
<1> SUFFICES ASSUME Init PROVE IInv
  OBVIOUS
<1>0. EmptyVolume \/ OldVolume
  BY DEF Init
<1> USE DEF Table, Migrating, Booting
<1>1. CASE EmptyVolume
  <2> USE <1>1 DEF Init, EmptyVolume
  <2>1. TypeOK
    <3>1. {params, done} \subseteq BOOLEAN
      BY Zenon
    <3> QED
      BY <3>1 DEF TypeOK
  <2>2. SaltsFirst /\ OldRowsStayValid
    BY DEF SaltsFirst, OldRowsStayValid
  <2>3. OperatorFirst /\ PrintedTokenWorks
    <3>1. printed = {} /\ ~ done /\ pc = "down"
      BY Zenon
    <3> QED
      BY <3>1 DEF OperatorFirst, PrintedTokenWorks
  <2>4. IndexKept
    BY DEF IndexKept, Rebuilding
  <2> QED
    BY <2>1, <2>2, <2>3, <2>4 DEF IInv
<1>2. CASE OldVolume
  BY <1>2
     DEF Init, OldVolume, IInv, TypeOK, SaltsFirst, OldRowsStayValid, OperatorFirst,
              PrintedTokenWorks, IndexKept, Rebuilding
<1> QED
  BY <1>0, <1>1, <1>2

\* Every step keeps the types.
LEMMA TypeStep ==
    ASSUME TypeOK, [Next]_vars
    PROVE  TypeOK'
<1> USE DEF TypeOK, Table, Migrating, Booting, disk, memory
<1>1. CASE Start
  BY <1>1 DEF Start
<1>2. CASE LoadSalt
  BY <1>2 DEF LoadSalt, SaltMissing
<1>3. CASE CreateSalt
  BY <1>3 DEF CreateSalt, SaltMissing
<1>4. CASE CreateSchema
  BY <1>4 DEF CreateSchema
<1>5. CASE Probe
  BY <1>5 DEF Probe, NextTable
<1>6. CASE DropIndex
  BY <1>6 DEF DropIndex
<1>7. CASE RecreateIndex
  BY <1>7 DEF RecreateIndex
<1>8. CASE SelectRows
  BY <1>8 DEF SelectRows, SourceRows
<1>9. CASE CloseRows
  BY <1>9 DEF CloseRows, Released
<1>10. CASE ReindexRow
  BY <1>10 DEF ReindexRow
<1>11. CASE Migrated
  BY <1>11 DEF Migrated, NextTable
<1>12. CASE SeedMeta
  <2>1. seed' \in Nat /\ drawn' \in Nat
    BY <1>12 DEF SeedMeta
  <2>2. pc' \in Booting
    BY <1>12 DEF SeedMeta
  <2>3. UNCHANGED <<salt, content, sealed, fts, params, done, macs, operator, kek,
                    table, data, conn, token, printed, interrupted>> /\ pc # "close" /\ pc' # "close"
    BY <1>12 DEF SeedMeta
  <2> QED
    BY <2>1, <2>2, <2>3
<1>13. CASE SeedParams
  BY <1>13 DEF SeedParams
<1>14. CASE IsFresh
  BY <1>14 DEF IsFresh
<1>15. CASE CreateOperator
  BY <1>15 DEF CreateOperator, Exit
<1>16. CASE MarkFirstBootDone
  BY <1>16 DEF MarkFirstBootDone
<1>17. CASE PrintToken
  BY <1>17 DEF PrintToken
<1>18. ASSUME NEW t \in Table, NEW i \in Id, Write(t, i) PROVE TypeOK'
  BY <1>18 DEF Write
<1>19. CASE Crash
  BY <1>19 DEF Crash
<1>20. CASE UNCHANGED vars
  BY <1>20 DEF vars
<1> QED
  BY <1>1, <1>2, <1>3, <1>4, <1>5, <1>6, <1>7, <1>8, <1>9, <1>10, <1>11, <1>12, <1>13,
     <1>14, <1>15, <1>16, <1>17, <1>18, <1>19, <1>20
     DEF Next, BootStep

\* Every step keeps the salts of what was sealed or signed under them.
LEMMA SaltStep ==
    ASSUME TypeOK, SaltsFirst, OldRowsStayValid, [Next]_vars
    PROVE  (SaltsFirst /\ OldRowsStayValid)'
<1> USE
    DEF TypeOK, SaltsFirst, OldRowsStayValid, Table, Migrating, Booting, disk,
        memory
<1>1. CASE Start
  BY <1>1 DEF Start
<1>2. CASE LoadSalt
  BY <1>2 DEF LoadSalt, SaltMissing
<1>3. CASE CreateSalt
  BY <1>3 DEF CreateSalt, SaltMissing
<1>4. CASE CreateSchema
  BY <1>4 DEF CreateSchema
<1>5. CASE Probe
  BY <1>5 DEF Probe, NextTable
<1>6. CASE DropIndex
  BY <1>6 DEF DropIndex
<1>7. CASE RecreateIndex
  BY <1>7 DEF RecreateIndex
<1>8. CASE SelectRows
  BY <1>8 DEF SelectRows, SourceRows
<1>9. CASE CloseRows
  BY <1>9 DEF CloseRows, Released
<1>10. CASE ReindexRow
  BY <1>10 DEF ReindexRow
<1>11. CASE Migrated
  BY <1>11 DEF Migrated, NextTable
<1>12. CASE SeedMeta
  BY <1>12 DEF SeedMeta, MetaEmpty
<1>13. CASE SeedParams
  BY <1>13 DEF SeedParams
<1>14. CASE IsFresh
  BY <1>14 DEF IsFresh
<1>15. CASE CreateOperator
  BY <1>15 DEF CreateOperator, Exit
<1>16. CASE MarkFirstBootDone
  BY <1>16 DEF MarkFirstBootDone
<1>17. CASE PrintToken
  BY <1>17 DEF PrintToken
<1>18. ASSUME NEW t \in Table, NEW i \in Id, Write(t, i) PROVE (SaltsFirst /\ OldRowsStayValid)'
  BY <1>18 DEF Write
<1>19. CASE Crash
  BY <1>19 DEF Crash
<1>20. CASE UNCHANGED vars
  BY <1>20 DEF vars
<1> QED
  BY <1>1, <1>2, <1>3, <1>4, <1>5, <1>6, <1>7, <1>8, <1>9, <1>10, <1>11, <1>12, <1>13,
     <1>14, <1>15, <1>16, <1>17, <1>18, <1>19, <1>20
     DEF Next, BootStep

\* Every step keeps the token shown the token stored.
LEMMA OperatorStep ==
    ASSUME TypeOK, OperatorFirst, PrintedTokenWorks, [Next]_vars
    PROVE  (OperatorFirst /\ PrintedTokenWorks)'
<1> USE
    DEF TypeOK, OperatorFirst, PrintedTokenWorks, Table, Migrating, Booting, disk,
        memory
<1>1. CASE Start
  BY <1>1 DEF Start
<1>2. CASE LoadSalt
  BY <1>2 DEF LoadSalt, SaltMissing
<1>3. CASE CreateSalt
  BY <1>3 DEF CreateSalt, SaltMissing
<1>4. CASE CreateSchema
  BY <1>4 DEF CreateSchema
<1>5. CASE Probe
  BY <1>5 DEF Probe, NextTable
<1>6. CASE DropIndex
  BY <1>6 DEF DropIndex
<1>7. CASE RecreateIndex
  BY <1>7 DEF RecreateIndex
<1>8. CASE SelectRows
  BY <1>8 DEF SelectRows, SourceRows
<1>9. CASE CloseRows
  BY <1>9 DEF CloseRows, Released
<1>10. CASE ReindexRow
  BY <1>10 DEF ReindexRow
<1>11. CASE Migrated
  BY <1>11 DEF Migrated, NextTable
<1>12. CASE SeedMeta
  BY <1>12 DEF SeedMeta, MetaEmpty
<1>13. CASE SeedParams
  BY <1>13 DEF SeedParams
<1>14. CASE IsFresh
  BY <1>14 DEF IsFresh
<1>15. CASE CreateOperator
  BY <1>15 DEF CreateOperator, Exit
<1>16. CASE MarkFirstBootDone
  BY <1>16 DEF MarkFirstBootDone
<1>17. CASE PrintToken
  BY <1>17 DEF PrintToken
<1>18. ASSUME NEW t \in Table, NEW i \in Id, Write(t, i) PROVE (OperatorFirst /\ PrintedTokenWorks)'
  BY <1>18 DEF Write
<1>19. CASE Crash
  BY <1>19 DEF Crash
<1>20. CASE UNCHANGED vars
  BY <1>20 DEF vars
<1> QED
  BY <1>1, <1>2, <1>3, <1>4, <1>5, <1>6, <1>7, <1>8, <1>9, <1>10, <1>11, <1>12, <1>13,
     <1>14, <1>15, <1>16, <1>17, <1>18, <1>19, <1>20
     DEF Next, BootStep

\* Every step keeps an index complete or on its way to be.
LEMMA IndexStep ==
    ASSUME TypeOK, IndexKept, [Next]_vars
    PROVE  IndexKept'
<1> USE DEF TypeOK, IndexKept, Rebuilding, Table, Migrating, Booting, disk, memory
<1>1. CASE Start
  BY <1>1 DEF Start
<1>2. CASE LoadSalt
  BY <1>2 DEF LoadSalt, SaltMissing
<1>3. CASE CreateSalt
  BY <1>3 DEF CreateSalt, SaltMissing
<1>4. CASE CreateSchema
  BY <1>4 DEF CreateSchema
<1>5. CASE Probe
  BY <1>5 DEF Probe, NextTable
<1>6. CASE DropIndex
  BY <1>6 DEF DropIndex
<1>7. CASE RecreateIndex
  BY <1>7 DEF RecreateIndex
<1>8. CASE SelectRows
  BY <1>8 DEF SelectRows, SourceRows
<1>9. CASE CloseRows
  BY <1>9 DEF CloseRows, Released
<1>10. CASE ReindexRow
  BY <1>10 DEF ReindexRow
<1>11. CASE Migrated
  BY <1>11 DEF Migrated, NextTable
<1>12. CASE SeedMeta
  BY <1>12 DEF SeedMeta, MetaEmpty
<1>13. CASE SeedParams
  BY <1>13 DEF SeedParams
<1>14. CASE IsFresh
  BY <1>14 DEF IsFresh
<1>15. CASE CreateOperator
  BY <1>15 DEF CreateOperator, Exit
<1>16. CASE MarkFirstBootDone
  BY <1>16 DEF MarkFirstBootDone
<1>17. CASE PrintToken
  BY <1>17 DEF PrintToken
<1>18. ASSUME NEW t \in Table, NEW i \in Id, Write(t, i) PROVE IndexKept'
  <2> SUFFICES ASSUME NEW u \in Table \ interrupted'
               PROVE  /\ fts'[u].schema = "fts5" => fts'[u].ids = content'[u]
                      /\ fts'[u].schema # "none"
    BY <1>18 DEF Write
  <2>1. /\ fts[u].schema = "fts5" => fts[u].ids = content[u]
        /\ fts[u].schema # "none"
        /\ u \in Table
    BY <1>18 DEF Write
  <2>2. CASE u # t
    <3>1. fts'[u] = fts[u] /\ content'[u] = content[u]
      BY <1>18, <2>1, <2>2 DEF Write
    <3> QED
      BY <2>1, <3>1
  <2>3. CASE u = t
    <3>1. /\ fts'[u].schema = fts[u].schema
          /\ fts[u].schema = "fts5" => fts'[u].ids = fts[u].ids \cup {i}
          /\ content'[u] = content[u] \cup {i}
      BY <1>18, <2>1, <2>3 DEF Write
    <3> QED
      BY <2>1, <3>1
  <2> QED
    BY <2>2, <2>3
<1>19. CASE Crash
  BY <1>19 DEF Crash
<1>20. CASE UNCHANGED vars
  BY <1>20 DEF vars
<1> QED
  BY <1>1, <1>2, <1>3, <1>4, <1>5, <1>6, <1>7, <1>8, <1>9, <1>10, <1>11, <1>12, <1>13,
     <1>14, <1>15, <1>16, <1>17, <1>18, <1>19, <1>20
     DEF Next, BootStep

\* The invariant holds of every reachable state.
THEOREM Invariance == Spec => []IInv
<1>1. IInv /\ [Next]_vars => IInv'
  BY TypeStep, SaltStep, OperatorStep, IndexStep DEF IInv
<1> QED
  BY <1>1, InitInv, PTL DEF Spec

\* Every variable keeps its type through any number of boots and crashes.
THEOREM TypeCorrect == Spec => []TypeOK
BY Invariance, PTL DEF IInv

\* The keys derived at a boot are those the stored rows were sealed and signed
\* under, however many boots were cut short before it.
THEOREM RowsSurviveRestarts == Spec => []OldRowsStayValid
BY Invariance, PTL DEF IInv

\* A token that was shown is the one in the database, and a server that
\* answers has one.
THEOREM TokenShownIsStored == Spec => []PrintedTokenWorks
BY Invariance, PTL DEF IInv

\* A server whose migration was not cut short finds every row in its index.
THEOREM MigratedIndexIsComplete == Spec => []MigrationIndexes
<1>1. IInv => MigrationIndexes
  BY DEF IInv, IndexKept, Rebuilding, Migrating, MigrationIndexes
<1> QED
  BY <1>1, Invariance, PTL
=============================================================================
