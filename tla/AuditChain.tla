----------------------------- MODULE AuditChain -----------------------------
(***************************************************************************)
(* The audit table of internal/audit/audit.go: rows chained by hashes and  *)
(* signed with an HMAC, the walk that verifies them, and the pages the web *)
(* UI cuts them into while rows are being added.                           *)
(*                                                                         *)
(* Append is one transaction, and Verify and Query one statement each, on  *)
(* the only connection, so each is one atomic step.  Besides them, rows    *)
(* are changed or removed behind the logger's back: SQL on the file, as in *)
(* audit_test.go, or an older backup put back in its place.                *)
(*                                                                         *)
(* SHA-256 is taken to be injective, so a hash is represented by what it   *)
(* commits to: the entries of the chain so far.  An HMAC is represented by *)
(* the hash it signs, and only Append makes new ones.                      *)
(***************************************************************************)
EXTENDS Naturals, Sequences, FiniteSetsExt

CONSTANTS
    Entry,      \* what is logged: time, actor, action, path, result
    Short,      \* stands for a column value of the wrong length
    PageSize,   \* uiAuditPageSize
    MaxRows,    \* bound: rows in the table
    MaxEdits    \* bound: changes behind the logger's back

ASSUME ConstantsAssumption ==
    /\ Short \notin Entry
    /\ PageSize \in Nat \ {0}
    /\ MaxRows \in Nat
    /\ MaxEdits \in Nat

VARIABLES
    audit,     \* the rows in id order
    signed,    \* the hashes Append has signed (auxiliary)
    history,   \* the entries Append has logged (auxiliary)
    edits,     \* how often the table was changed otherwise (auxiliary)
    tampered,  \* where the last such change shows, 0 if nowhere (auxiliary)
    pager      \* a reader of the audit page who asks for older rows

vars == <<audit, signed, history, edits, tampered, pager>>

Hash == Seq(Entry \cup {Short})
ZeroHash == <<>>
Malformed == <<Short>>

Row == [id : Nat, entry : Entry, prev : Hash, hash : Hash, hmac : Hash]

Pager == [state : {"closed", "more", "end"}, next : Nat, top : Nat, shown : Seq(Nat)]

TypeOK ==
    /\ audit \in Seq(Row)
    /\ signed \subseteq Hash
    /\ history \in Seq(Entry)
    /\ edits \in 0 .. MaxEdits
    /\ tampered \in Nat
    /\ pager \in Pager

Init ==
    /\ audit = <<>>
    /\ signed = {}
    /\ history = <<>>
    /\ edits = 0
    /\ tampered = 0
    /\ pager = [state |-> "closed", next |-> 0, top |-> 0, shown |-> <<>>]

-----------------------------------------------------------------------------
SHA256(prev, e) == Append(prev, e)

\* ORDER BY id DESC LIMIT 1
LastHash == IF audit = <<>> THEN ZeroHash ELSE audit[Len(audit)].hash

\* INTEGER PRIMARY KEY: one more than the largest id.
NextId == IF audit = <<>> THEN 1 ELSE audit[Len(audit)].id + 1

RowUnsigned(e) ==   \* mutant: the HMAC never computed
    [id |-> NextId, entry |-> e, prev |-> LastHash, hash |-> SHA256(LastHash, e),
     hmac |-> Short]
FirstHashAgain(e) ==   \* mutant: the last hash is not read
    [id |-> NextId, entry |-> e, prev |-> ZeroHash, hash |-> SHA256(ZeroHash, e),
     hmac |-> SHA256(ZeroHash, e)]
NewRow(e) ==
    [id |-> NextId, entry |-> e, prev |-> LastHash, hash |-> SHA256(LastHash, e),
     hmac |-> SHA256(LastHash, e)]

\* Logger.Append, refused while the last hash has the wrong length.
AppendEntry(e) ==
    /\ Len(audit) < MaxRows
    /\ LastHash # Malformed
    /\ audit' = Append(audit, NewRow(e))
    /\ signed' = signed \cup {NewRow(e).hash}
    /\ history' = Append(history, e)
    /\ UNCHANGED <<edits, tampered, pager>>

-----------------------------------------------------------------------------
(* Verify: the first row, in id order, whose prev_hash is not the stored   *)
(* hash before it, whose hash is not that of its columns or whose hmac     *)
(* does not sign its hash.  The id is no part of the hash.                 *)

Expected(rows, i) == IF i = 1 THEN ZeroHash ELSE rows[i - 1].hash

UnlinkedOK(rows, i) ==   \* mutant: prev_hash not compared
    rows[i].hash = SHA256(rows[i].prev, rows[i].entry) /\ rows[i].hmac = rows[i].hash
UnsignedOK(rows, i) ==   \* mutant: hmac not compared
    rows[i].prev = Expected(rows, i) /\ rows[i].hash = SHA256(rows[i].prev, rows[i].entry)
RowOK(rows, i) ==
    /\ rows[i].prev = Expected(rows, i)
    /\ rows[i].hash = SHA256(rows[i].prev, rows[i].entry)
    /\ rows[i].hmac = rows[i].hash

BrokenRows(rows) == {i \in DOMAIN rows : ~ RowOK(rows, i)}

Verified == BrokenRows(audit) = {}

\* brokenID belongs to the row at i.
BrokenAt(rows, i) == i \in BrokenRows(rows) /\ \A k \in BrokenRows(rows) : i <= k

-----------------------------------------------------------------------------
(* Changes behind the logger's back.  Whoever makes them can compute       *)
(* hashes but no HMACs, so an hmac column can only get an old one.         *)

Columns(i) ==
    LET x == audit[i] IN
    {[x EXCEPT !.entry = e] : e \in Entry}
        \cup {[x EXCEPT !.prev = h] : h \in signed \cup {ZeroHash, Expected(audit, i)}}
        \cup {[x EXCEPT !.hash = h] : h \in signed \cup {Malformed, SHA256(x.prev, x.entry)}}
        \cup {[x EXCEPT !.hmac = h] : h \in signed \cup {Malformed}}

EditRow(i) ==
    /\ edits < MaxEdits
    /\ \E x \in Columns(i) \ {audit[i]} : audit' = [audit EXCEPT ![i] = x]
    /\ edits' = edits + 1
    /\ tampered' = i
    /\ UNCHANGED <<signed, history, pager>>

DropRow(i) ==
    /\ edits < MaxEdits
    /\ audit' = SubSeq(audit, 1, i - 1) \o SubSeq(audit, i + 1, Len(audit))
    /\ edits' = edits + 1
    /\ tampered' = IF i < Len(audit) THEN i ELSE 0
    /\ UNCHANGED <<signed, history, pager>>

-----------------------------------------------------------------------------
(* Query pages backwards from a cursor; the UI keeps the last id shown.    *)

\* The rows are in id order: those below the cursor are the first so many.
UpToCursor(before) ==   \* mutant: id <= before
    Max({0} \cup {i \in DOMAIN audit : before = 0 \/ audit[i].id <= before})
CountBefore(before) ==
    Max({0} \cup {i \in DOMAIN audit : before = 0 \/ audit[i].id < before})

\* ORDER BY id DESC LIMIT PageSize
Query(before) ==
    LET n == CountBefore(before)
    IN  [k \in 1 .. IF n < PageSize THEN n ELSE PageSize |-> audit[n + 1 - k].id]

LoadAuditPage(before, top, shown) ==
    LET page == Query(before) IN
    pager' = [state |-> IF Len(page) = PageSize THEN "more" ELSE "end",
              next |-> IF page = <<>> THEN 0 ELSE page[Len(page)],
              top |-> top,
              shown |-> shown \o page]

OpenAuditPage ==
    /\ pager.state # "more"
    /\ LoadAuditPage(0, NextId - 1, <<>>)
    /\ UNCHANGED <<audit, signed, history, edits, tampered>>

OlderAuditPage ==
    /\ pager.state = "more"
    /\ LoadAuditPage(pager.next, pager.top, pager.shown)
    /\ UNCHANGED <<audit, signed, history, edits, tampered>>

-----------------------------------------------------------------------------
Next ==
    \/ \E e \in Entry : AppendEntry(e)
    \/ \E i \in DOMAIN audit : EditRow(i) \/ DropRow(i)
    \/ OpenAuditPage
    \/ OlderAuditPage

Spec == Init /\ [][Next]_vars

-----------------------------------------------------------------------------
(* Properties. *)

Entries(rows) == [i \in DOMAIN rows |-> rows[i].entry]
Prefix(s, n) == [i \in 1 .. n |-> s[i]]

\* A log only Append has written verifies and is the history, in order, so
\* Verify never cries wolf.
HonestChain == edits = 0 => Verified /\ Entries(audit) = history

\* A log that verifies (audit.go:9) was written by Append, whatever was done
\* to the table: each of its prefixes is one that Append has signed.  Nothing
\* in it is invented, changed, reordered or missing from the middle; only rows
\* at the end can be gone.
VerifiedIsSigned ==
    Verified => \A n \in DOMAIN audit : Prefix(Entries(audit), n) \in signed

\* "Tampering anywhere breaks the chain at the first modified row"
\* (audit.go:10): when one column other than the id of an honest log was
\* changed, or one row but the last removed, Verify reports that place, and
\* goes on reporting it however much is appended afterwards.
TamperingShowsThere == edits = 1 /\ tampered # 0 => BrokenAt(audit, tampered)

\* Query's comment (audit.go:195): the cursor avoids "the duplicate/skip edge".
\* While rows are added, the pages show the rows there were when the first
\* page was opened, newest first, none twice and none left out.
PagesComplete ==
    edits = 0 /\ pager.state # "closed" =>
        /\ \A k \in DOMAIN pager.shown : pager.shown[k] = pager.top + 1 - k
        /\ pager.state = "end" => Len(pager.shown) = pager.top
=============================================================================
