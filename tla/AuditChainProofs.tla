-------------------------- MODULE AuditChainProofs --------------------------
(***************************************************************************)
(* What holds of AuditChain for every set of entries, every page size and  *)
(* any number of rows and of changes behind the logger's back.             *)
(***************************************************************************)
EXTENDS AuditChain, MaxLemmas, SequenceTheorems, TLAPS

(***************************************************************************)
(* The inductive invariant: the parts the three properties rest on.        *)
(***************************************************************************)

\* Append signs hashes that end in the entry it logs, so none is malformed.
SignedEndInEntry ==
    \A h \in signed : h # <<>> /\ h[Len(h)] \in Entry

\* An hmac column holds something Append signed, or nothing of the kind.
HmacsSigned ==
    \A i \in DOMAIN audit : audit[i].hmac \in signed \cup {Malformed}

\* While nobody else writes, row i commits to the first i entries.
Exact ==
    edits = 0 =>
        /\ Len(audit) = Len(history)
        /\ \A i \in DOMAIN audit :
              audit[i] = [id |-> i, entry |-> history[i],
                          prev |-> Prefix(history, i - 1),
                          hash |-> Prefix(history, i),
                          hmac |-> Prefix(history, i)]

\* The pages shown so far count down from the top to just above the cursor.
PagerExact ==
    edits = 0 /\ pager.state # "closed" =>
        /\ pager.top <= Len(audit)
        /\ Len(pager.shown) <= pager.top
        /\ \A k \in DOMAIN pager.shown : pager.shown[k] = pager.top + 1 - k
        /\ pager.state = "more" => /\ pager.next = pager.top + 1 - Len(pager.shown)
                                   /\ pager.shown # <<>>
        /\ pager.state = "end" => Len(pager.shown) = pager.top

IInv == TypeOK /\ SignedEndInEntry /\ HmacsSigned /\ Exact /\ TamperingShowsThere /\ PagerExact

-----------------------------------------------------------------------------
(* Lemmas about the rows Append adds and the pages Query returns.          *)

LEMMA RowAt ==
    ASSUME TypeOK
    PROVE  /\ DOMAIN audit = 1 .. Len(audit) /\ Len(audit) \in Nat
           /\ \A i \in 1 .. Len(audit) : audit[i] \in Row
BY ElementOfSeq, LenProperties DEF TypeOK

LEMMA LastHashType == TypeOK => LastHash \in Hash /\ NextId \in Nat \ {0}
<1> SUFFICES ASSUME TypeOK PROVE LastHash \in Hash /\ NextId \in Nat \ {0}
  OBVIOUS
<1>1. CASE audit = <<>>
  BY <1>1 DEF LastHash, NextId, Hash, ZeroHash
<1>2. CASE audit # <<>>
  <2>1. audit[Len(audit)] \in Row
    BY <1>2, ElementOfSeq DEF TypeOK
  <2> QED
    BY <1>2, <2>1 DEF LastHash, NextId, Row
<1> QED
  BY <1>1, <1>2

LEMMA NewRowType ==
    ASSUME TypeOK, NEW e \in Entry
    PROVE  /\ NewRow(e) \in Row
           /\ NewRow(e).hash = Append(LastHash, e)
           /\ NewRow(e).hmac = NewRow(e).hash
BY LastHashType DEF NewRow, Row, SHA256, Hash

LEMMA CountBeforeBound ==
    ASSUME TypeOK, NEW before \in Nat
    PROVE  CountBefore(before) \in 0 .. Len(audit)
<1> DEFINE S == {0} \cup {i \in DOMAIN audit : before = 0 \/ audit[i].id < before}
<1>1. DOMAIN audit = 1 .. Len(audit) /\ Len(audit) \in Nat
  BY DEF TypeOK
<1>2. S \in SUBSET Nat /\ S # {} /\ \A i \in S : i <= Len(audit)
  BY <1>1
<1>3. Max(S) \in S
  BY <1>1, <1>2, MaxOfBounded
<1>4. \A i \in S : i \in 0 .. Len(audit)
  BY <1>1
<1> HIDE DEF S
<1>5. Max(S) \in 0 .. Len(audit)
  BY <1>3, <1>4
<1> QED
  BY <1>5 DEF CountBefore, S

LEMMA QueryType ==
    ASSUME TypeOK, NEW before \in Nat
    PROVE  Query(before) \in Seq(Nat) /\ Len(Query(before)) <= PageSize
<1> DEFINE n == CountBefore(before)
           m == IF n < PageSize THEN n ELSE PageSize
<1>1. n \in 0 .. Len(audit) /\ Len(audit) \in Nat /\ PageSize \in Nat
  BY CountBeforeBound, ConstantsAssumption DEF TypeOK
<1> HIDE DEF n
<1>2. m \in Nat /\ m <= n /\ m <= PageSize
  BY <1>1
<1>3. Query(before) = [k \in 1 .. m |-> audit[n + 1 - k].id]
  BY DEF Query, n
<1> HIDE DEF m
<1>4. \A k \in 1 .. m : n + 1 - k \in 1 .. Len(audit)
  BY <1>1, <1>2
<1>5. \A i \in 1 .. Len(audit) : audit[i].id \in Nat
  BY RowAt DEF Row
<1>6. \A k \in 1 .. m : audit[n + 1 - k].id \in Nat
  BY <1>4, <1>5
<1> QED
  BY <1>2, <1>3, <1>6

-----------------------------------------------------------------------------
(* One lemma per action.                                                   *)

LEMMA InitInv == Init => IInv
<1> SUFFICES ASSUME Init PROVE IInv
  OBVIOUS
<1>1. TypeOK
  BY ConstantsAssumption, EmptySeq DEF Init, TypeOK, Pager
<1>2. SignedEndInEntry /\ HmacsSigned /\ PagerExact
  BY DEF Init, SignedEndInEntry, HmacsSigned, PagerExact
<1>3. Exact /\ TamperingShowsThere
  BY DEF Init, Exact, TamperingShowsThere
<1> QED
  BY <1>1, <1>2, <1>3 DEF IInv

\* Two chains that differ in their last entry differ, and one is longer than
\* its own beginning.
LEMMA AppendDiffers ==
    ASSUME NEW h \in Hash, NEW e \in Entry, NEW f \in Entry
    PROVE  Append(h, e) # h /\ (e # f => Append(h, e) # Append(h, f))
<1>1. h \in Seq(Entry \cup {Short}) /\ Len(h) \in Nat
  BY LenProperties DEF Hash
<1>2. /\ Len(Append(h, e)) = Len(h) + 1 /\ Append(h, e)[Len(h) + 1] = e
      /\ Append(h, f)[Len(h) + 1] = f
  BY <1>1, AppendProperties
<1>3. Append(h, e) # h
  BY <1>1, <1>2
<1>4. e # f => Append(h, e) # Append(h, f)
  BY <1>2
<1> QED
  BY <1>3, <1>4

LEMMA PrefixZero == ASSUME NEW s PROVE Prefix(s, 0) = <<>>
BY DEF Prefix

\* A prefix is the prefix before it with one more element.
LEMMA PrefixAppend ==
    ASSUME NEW S, NEW s \in Seq(S), NEW i \in 1 .. Len(s)
    PROVE  Append(Prefix(s, i - 1), s[i]) = Prefix(s, i)
<1> DEFINE p == Prefix(s, i - 1)
           h == Append(p, s[i])
           g == Prefix(s, i)
<1>1. i \in Nat \ {0} /\ \A k \in 1 .. i : s[k] \in S
  BY LenProperties, ElementOfSeq
<1>2. p \in Seq(S) /\ Len(p) = i - 1 /\ \A k \in 1 .. i - 1 : p[k] = s[k]
  BY <1>1 DEF Prefix
<1>3. g \in Seq(S) /\ Len(g) = i /\ \A k \in 1 .. i : g[k] = s[k]
  BY <1>1 DEF Prefix
<1> HIDE DEF p, g
<1>4. s[i] \in S
  BY <1>1
<1>5. /\ h \in Seq(S) /\ Len(h) = i /\ h[i] = s[i]
      /\ \A k \in 1 .. i - 1 : h[k] = p[k]
  BY <1>1, <1>2, <1>4, AppendProperties
<1> HIDE DEF h
<1>6. \A k \in 1 .. i : h[k] = g[k]
  BY <1>1, <1>2, <1>3, <1>5
<1>7. h = g
  BY <1>3, <1>5, <1>6, SeqEqual
<1> QED
  BY <1>7 DEF h, g, p

\* Every row of an honest log is in order.
LEMMA HonestRows ==
    ASSUME IInv, edits = 0
    PROVE  \A i \in DOMAIN audit : RowOK(audit, i)
<1>1. DOMAIN audit = 1 .. Len(audit) /\ Len(audit) \in Nat /\ Len(audit) = Len(history)
  BY RowAt DEF IInv, Exact
<1>2. \A i \in DOMAIN audit :
         /\ audit[i].entry = history[i]
         /\ audit[i].prev = Prefix(history, i - 1)
         /\ audit[i].hash = Prefix(history, i)
         /\ audit[i].hmac = Prefix(history, i)
  BY DEF IInv, Exact
<1>3. ASSUME NEW i \in DOMAIN audit PROVE RowOK(audit, i)
  <2>1. audit[i].prev = Expected(audit, i)
    <3>1. CASE i = 1
      BY <1>2, <3>1, PrefixZero DEF Expected, ZeroHash
    <3>2. CASE i # 1
      <4>1. i - 1 \in DOMAIN audit
        BY <1>1, <3>2
      <4>2. audit[i - 1].hash = Prefix(history, i - 1)
        BY <1>2, <4>1
      <4> QED
        BY <1>2, <3>2, <4>2 DEF Expected
    <3> QED
      BY <3>1, <3>2
  <2>2. history \in Seq(Entry) /\ i \in 1 .. Len(history)
    BY <1>1 DEF IInv, TypeOK
  <2>3. Append(Prefix(history, i - 1), history[i]) = Prefix(history, i)
    BY <2>2, PrefixAppend
  <2> QED
    BY <1>2, <2>1, <2>3 DEF RowOK, SHA256
<1> QED
  BY <1>3

\* What Append adds leaves the first broken row where it was.
LEMMA AppendKeepsBreak ==
    ASSUME IInv, NEW e \in Entry, AppendEntry(e), NEW i \in DOMAIN audit, BrokenAt(audit, i)
    PROVE  BrokenAt(audit', i)
<1>1. NewRow(e) \in Row /\ audit \in Seq(Row) /\ audit' = Append(audit, NewRow(e))
  BY NewRowType DEF IInv, TypeOK, AppendEntry
<1>2. /\ DOMAIN audit = 1 .. Len(audit) /\ DOMAIN audit' = 1 .. Len(audit) + 1
      /\ Len(audit) \in Nat
      /\ \A k \in 1 .. Len(audit) : audit'[k] = audit[k]
  BY <1>1, RowAt DEF IInv
<1>3. \A k \in 1 .. Len(audit) : RowOK(audit', k) <=> RowOK(audit, k)
  <2> SUFFICES ASSUME NEW k \in 1 .. Len(audit)
               PROVE  RowOK(audit', k) <=> RowOK(audit, k)
    OBVIOUS
  <2>1. Expected(audit', k) = Expected(audit, k)
    <3>1. CASE k = 1
      BY <3>1 DEF Expected
    <3>2. CASE k # 1
      <4>1. k - 1 \in 1 .. Len(audit)
        BY <1>2, <3>2
      <4> QED
        BY <1>2, <3>2, <4>1 DEF Expected
    <3> QED
      BY <3>1, <3>2
  <2> QED
    BY <1>2, <2>1 DEF RowOK
<1>4. i \in 1 .. Len(audit) /\ ~ RowOK(audit, i)
  BY <1>2 DEF BrokenAt, BrokenRows
<1>5. i \in BrokenRows(audit')
  BY <1>2, <1>3, <1>4 DEF BrokenRows
<1>6. ASSUME NEW k \in BrokenRows(audit') PROVE i <= k
  <2>1. k \in 1 .. Len(audit) + 1 /\ ~ RowOK(audit', k)
    BY <1>2, <1>6 DEF BrokenRows
  <2>2. CASE k = Len(audit) + 1
    BY <1>2, <1>4, <2>2
  <2>3. CASE k \in 1 .. Len(audit)
    <3>1. k \in BrokenRows(audit)
      BY <1>2, <1>3, <2>1, <2>3 DEF BrokenRows
    <3> QED
      BY <3>1 DEF BrokenAt
  <2> QED
    BY <1>2, <2>1, <2>2, <2>3
<1> QED
  BY <1>5, <1>6 DEF BrokenAt

LEMMA AppendInv == ASSUME IInv, NEW e \in Entry, AppendEntry(e) PROVE IInv'
<1> DEFINE x == NewRow(e)
<1>1. x \in Row /\ x.hash = Append(LastHash, e) /\ x.hmac = x.hash
  BY NewRowType DEF IInv
<1>2. audit \in Seq(Row) /\ audit' = Append(audit, x)
  BY DEF IInv, TypeOK, AppendEntry
<1>3. /\ Len(audit') = Len(audit) + 1 /\ audit'[Len(audit) + 1] = x
      /\ \A i \in 1 .. Len(audit) : audit'[i] = audit[i]
      /\ Len(audit) \in Nat /\ DOMAIN audit' = 1 .. Len(audit) + 1
  BY <1>1, <1>2
<1>4. TypeOK'
  <2>1. audit' \in Seq(Row) /\ history' \in Seq(Entry)
    BY <1>1, <1>2 DEF IInv, TypeOK, AppendEntry
  <2>2. signed' \subseteq Hash
    BY <1>1 DEF IInv, TypeOK, AppendEntry, Row
  <2>3. edits' \in 0 .. MaxEdits /\ tampered' \in Nat /\ pager' \in Pager
    BY DEF IInv, TypeOK, AppendEntry
  <2> QED
    BY <2>1, <2>2, <2>3 DEF TypeOK
<1>5. SignedEndInEntry'
  <2>1. LastHash \in Hash
    BY LastHashType DEF IInv
  <2>2. x.hash # <<>> /\ x.hash[Len(x.hash)] = e
    BY <1>1, <2>1 DEF Hash
  <2> QED
    BY <2>2 DEF IInv, SignedEndInEntry, AppendEntry
<1>6. HmacsSigned'
  BY <1>1, <1>3, RowAt DEF IInv, HmacsSigned, AppendEntry
<1>7. Exact'
  <2> SUFFICES ASSUME edits = 0 PROVE Exact'
    BY DEF Exact, AppendEntry
  <2>1. /\ history \in Seq(Entry) /\ history' = Append(history, e)
        /\ Len(audit) = Len(history)
    BY DEF IInv, TypeOK, Exact, AppendEntry
  <2>2. /\ Len(history') = Len(audit) + 1 /\ history'[Len(audit) + 1] = e
        /\ \A i \in 1 .. Len(audit) : history'[i] = history[i]
    BY <1>3, <2>1
  <2>3. \A i \in 0 .. Len(audit) : Prefix(history', i) = Prefix(history, i)
    BY <2>2 DEF Prefix
  <2>4. LastHash = Prefix(history, Len(audit)) /\ NextId = Len(audit) + 1
    <3>1. CASE audit = <<>>
      BY <3>1 DEF LastHash, NextId, ZeroHash, Prefix
    <3>2. CASE audit # <<>>
      <4>1. Len(audit) \in DOMAIN audit
        BY <3>2, <1>2, <1>3, RowAt, EmptySeq DEF IInv
      <4>2. audit[Len(audit)].hash = Prefix(history, Len(audit))
            /\ audit[Len(audit)].id = Len(audit)
        BY <4>1 DEF IInv, Exact
      <4> QED
        BY <3>2, <4>2 DEF LastHash, NextId
    <3> QED
      BY <3>1, <3>2
  <2>5. Append(LastHash, e) = Prefix(history', Len(audit) + 1)
    <3>1. LastHash \in Seq(Entry \cup {Short}) /\ Len(LastHash) = Len(audit)
      BY <1>3, <2>4, LastHashType DEF IInv, Hash, Prefix
    <3>2. \A i \in 1 .. Len(audit) : LastHash[i] = history[i]
      BY <2>4 DEF Prefix
    <3>3. e \in Entry \cup {Short}
      OBVIOUS
    <3> DEFINE h == Append(LastHash, e)
               g == Prefix(history', Len(audit) + 1)
    <3>4. /\ h \in Seq(Entry \cup {Short}) /\ Len(h) = Len(audit) + 1
          /\ \A i \in 1 .. Len(audit) : h[i] = LastHash[i]
          /\ h[Len(audit) + 1] = e
      BY <1>3, <3>1, <3>3, AppendProperties
    <3>5. \A i \in 1 .. Len(audit) + 1 : history'[i] \in Entry \cup {Short}
      BY <2>1, <2>2, <1>3
    <3>6. g \in Seq(Entry \cup {Short}) /\ Len(g) = Len(audit) + 1
      BY <1>3, <3>5 DEF Prefix
    <3>7. \A i \in 1 .. Len(audit) + 1 : h[i] = g[i]
      <4> HIDE DEF h
      <4> QED
        BY <1>3, <2>2, <3>2, <3>4 DEF Prefix
    <3> HIDE DEF h, g
    <3>8. h = g
      BY <3>4, <3>6, <3>7, SeqEqual
    <3> QED
      BY <3>8 DEF h, g
  <2>6. x = [id |-> Len(audit) + 1, entry |-> e, prev |-> Prefix(history, Len(audit)),
             hash |-> Prefix(history', Len(audit) + 1),
             hmac |-> Prefix(history', Len(audit) + 1)]
    BY <2>4, <2>5 DEF NewRow, SHA256
  <2>7. \A i \in 1 .. Len(audit) :
           audit[i] = [id |-> i, entry |-> history[i], prev |-> Prefix(history, i - 1),
                       hash |-> Prefix(history, i), hmac |-> Prefix(history, i)]
    BY RowAt DEF IInv, Exact
  <2>8. \A i \in DOMAIN audit' :
           audit'[i] = [id |-> i, entry |-> history'[i], prev |-> Prefix(history', i - 1),
                        hash |-> Prefix(history', i), hmac |-> Prefix(history', i)]
    <3> SUFFICES ASSUME NEW i \in 1 .. Len(audit) + 1
                 PROVE audit'[i] = [id |-> i, entry |-> history'[i],
                                    prev |-> Prefix(history', i - 1),
                                    hash |-> Prefix(history', i),
                                    hmac |-> Prefix(history', i)]
      BY <1>3
    <3>1. CASE i = Len(audit) + 1
      <4>1. Prefix(history', i - 1) = Prefix(history, Len(audit))
        BY <1>3, <2>3, <3>1
      <4> QED
        BY <1>3, <2>2, <2>6, <3>1, <4>1
    <3>2. CASE i # Len(audit) + 1
      <4>1. i \in 1 .. Len(audit) /\ i - 1 \in 0 .. Len(audit) /\ i \in 0 .. Len(audit)
        BY <1>3, <3>2
      <4> QED
        BY <1>3, <2>2, <2>3, <2>7, <4>1
    <3> QED
      BY <3>1, <3>2
  <2> QED
    BY <1>3, <2>2, <2>8 DEF Exact
<1>8. PagerExact'
  BY <1>3 DEF IInv, TypeOK, Pager, PagerExact, AppendEntry
<1>9. TamperingShowsThere'
  <2> SUFFICES ASSUME edits = 1, tampered # 0 PROVE BrokenAt(audit', tampered)
    BY DEF TamperingShowsThere, AppendEntry
  <2>1. BrokenAt(audit, tampered)
    BY DEF IInv, TamperingShowsThere
  <2> QED
    BY <2>1, AppendKeepsBreak DEF BrokenAt, BrokenRows
<1> QED
  BY <1>4, <1>5, <1>6, <1>7, <1>8, <1>9 DEF IInv

LEMMA EditInv == ASSUME IInv, NEW i \in DOMAIN audit, EditRow(i) PROVE IInv'
<1>1. PICK x \in Columns(i) \ {audit[i]} : audit' = [audit EXCEPT ![i] = x]
  BY DEF EditRow
<1>2. i \in 1 .. Len(audit) /\ audit[i] \in Row /\ audit \in Seq(Row)
  BY RowAt DEF IInv, TypeOK
<1>3. /\ signed \subseteq Hash
      /\ ZeroHash \in Hash /\ Malformed \in Hash /\ Expected(audit, i) \in Hash
      /\ SHA256(audit[i].prev, audit[i].entry) \in Hash
  <2>1. Expected(audit, i) \in Hash
    <3>1. CASE i = 1
      BY <3>1 DEF Expected, ZeroHash, Hash
    <3>2. CASE i # 1
      <4>1. audit[i - 1] \in Row
        BY <1>2, <3>2, RowAt DEF IInv
      <4> QED
        BY <3>2, <4>1 DEF Expected, Row
    <3> QED
      BY <3>1, <3>2
  <2>2. ZeroHash \in Hash /\ Malformed \in Hash /\ signed \subseteq Hash
    BY EmptySeq DEF IInv, TypeOK, ZeroHash, Malformed, Hash
  <2>3. audit[i].prev \in Seq(Entry \cup {Short}) /\ audit[i].entry \in Entry \cup {Short}
    BY <1>2 DEF Row, Hash
  <2>4. SHA256(audit[i].prev, audit[i].entry) \in Hash
    BY <2>3, AppendProperties DEF SHA256, Hash
  <2> QED
    BY <2>1, <2>2, <2>4
<1>4. x \in Row /\ (x.hmac = audit[i].hmac \/ x.hmac \in signed \cup {Malformed})
  BY <1>1, <1>2, <1>3 DEF Columns, Row
<1>5. /\ audit' \in Seq(Row) /\ DOMAIN audit' = DOMAIN audit
      /\ \A k \in DOMAIN audit : audit'[k] = IF k = i THEN x ELSE audit[k]
  BY <1>1, <1>2, <1>4, ExceptSeq, RowAt DEF IInv
<1>6. TypeOK'
  <2>1. edits' \in 0 .. MaxEdits
    BY ConstantsAssumption DEF IInv, TypeOK, EditRow
  <2> QED
    BY <1>5, <2>1 DEF IInv, TypeOK, EditRow
<1>7. HmacsSigned'
  BY <1>4, <1>5 DEF IInv, HmacsSigned, EditRow
<1>8. edits' # 0
  BY DEF IInv, TypeOK, EditRow
<1>9. SignedEndInEntry' /\ Exact' /\ PagerExact'
  BY <1>8 DEF IInv, SignedEndInEntry, Exact, PagerExact, EditRow
<1>10. TamperingShowsThere'
  <2> SUFFICES ASSUME edits = 0 PROVE BrokenAt(audit', i)
    BY DEF IInv, TypeOK, TamperingShowsThere, EditRow
  <2>1. \A k \in DOMAIN audit : RowOK(audit, k)
    BY HonestRows
  <2>2. ASSUME NEW k \in 1 .. i PROVE Expected(audit', k) = Expected(audit, k)
    <3>1. CASE k = 1
      BY <3>1 DEF Expected
    <3>2. CASE k # 1
      <4>1. k - 1 \in DOMAIN audit /\ k - 1 # i
        BY <1>2, <2>2, <3>2, RowAt DEF IInv
      <4> QED
        BY <1>5, <3>2, <4>1 DEF Expected
    <3> QED
      BY <3>1, <3>2
  <2>3. ASSUME NEW k \in DOMAIN audit, k < i PROVE RowOK(audit', k)
    <3>1. k \in 1 .. i /\ k # i
      BY <1>2, <2>3, RowAt DEF IInv
    <3> QED
      BY <1>5, <2>1, <2>2, <3>1 DEF RowOK
  <2>4. /\ audit'[i] = x /\ Expected(audit', i) = Expected(audit, i)
        /\ audit[i].prev = Expected(audit, i) /\ audit[i].hmac = audit[i].hash
        /\ audit[i].hash = Append(audit[i].prev, audit[i].entry)
    BY <1>2, <1>5, <2>1, <2>2, RowAt DEF RowOK, SHA256, IInv
  <2>5. ~ RowOK(audit', i)
    <3>1. CASE \E e \in Entry : x = [audit[i] EXCEPT !.entry = e]
      <4>1. x.entry \in Entry /\ x.entry # audit[i].entry
            /\ x.prev = audit[i].prev /\ x.hash = audit[i].hash
        BY <1>1, <1>2, <3>1 DEF Row
      <4>2. Append(x.prev, x.entry) # Append(x.prev, audit[i].entry)
        BY <1>2, <4>1, AppendDiffers DEF Row
      <4> QED
        BY <2>4, <4>1, <4>2 DEF RowOK, SHA256
    <3>2. CASE x.prev # audit[i].prev
      BY <2>4, <3>2 DEF RowOK
    <3>3. CASE x.entry = audit[i].entry /\ x.prev = audit[i].prev /\ x.hash # audit[i].hash
      BY <2>4, <3>3 DEF RowOK, SHA256
    <3>4. CASE x.hash = audit[i].hash /\ x.hmac # audit[i].hmac
      BY <2>4, <3>4 DEF RowOK
    <3>5. \/ \E e \in Entry : x = [audit[i] EXCEPT !.entry = e]
          \/ x.prev # audit[i].prev
          \/ x.entry = audit[i].entry /\ x.prev = audit[i].prev /\ x.hash # audit[i].hash
          \/ x.hash = audit[i].hash /\ x.hmac # audit[i].hmac
      BY <1>1, <1>2 DEF Columns, Row
    <3> QED
      BY <3>1, <3>2, <3>3, <3>4, <3>5
  <2>6. DOMAIN audit' = 1 .. Len(audit) /\ Len(audit) \in Nat
    BY <1>5, RowAt DEF IInv
  <2>7. ASSUME NEW k \in BrokenRows(audit') PROVE i <= k
    BY <1>2, <2>3, <2>6, RowAt DEF BrokenRows, IInv
  <2> QED
    BY <1>2, <2>5, <2>6, <2>7 DEF BrokenAt, BrokenRows
<1> QED
  BY <1>6, <1>7, <1>9, <1>10 DEF IInv

LEMMA DropInv == ASSUME IInv, NEW i \in DOMAIN audit, DropRow(i) PROVE IInv'
<1>1. i \in 1 .. Len(audit) /\ audit \in Seq(Row) /\ Len(audit) \in Nat
  BY RowAt DEF IInv, TypeOK
<1> DEFINE s == SubSeq(audit, 1, i - 1)
           t == SubSeq(audit, i + 1, Len(audit))
<1>2. s \in Seq(Row) /\ \A k \in 1 .. Len(s) : \E j \in DOMAIN audit : s[k] = audit[j]
  BY <1>1, SubSeqProperties
<1>3. t \in Seq(Row) /\ \A k \in 1 .. Len(t) : \E j \in DOMAIN audit : t[k] = audit[j]
  BY <1>1, SubSeqProperties
<1>4. audit' = s \o t
  BY DEF DropRow
<1> HIDE DEF s, t
<1>5. audit' \in Seq(Row) /\ \A k \in DOMAIN audit' : \E j \in DOMAIN audit : audit'[k] = audit[j]
  <2>1. /\ audit' \in Seq(Row)
        /\ DOMAIN audit' = 1 .. Len(s) + Len(t)
        /\ \A k \in 1 .. Len(s) + Len(t) :
              audit'[k] = IF k <= Len(s) THEN s[k] ELSE t[k - Len(s)]
    BY <1>2, <1>3, <1>4, ConcatProperties, LenProperties
  <2>2. Len(s) \in Nat /\ Len(t) \in Nat
    BY <1>2, <1>3, LenProperties
  <2>3. ASSUME NEW k \in 1 .. Len(s) + Len(t)
        PROVE  \E j \in DOMAIN audit : audit'[k] = audit[j]
    <3>1. CASE k <= Len(s)
      BY <1>2, <2>1, <2>2, <3>1
    <3>2. CASE ~ (k <= Len(s))
      <4>1. k - Len(s) \in 1 .. Len(t)
        BY <2>2, <3>2
      <4> QED
        BY <1>3, <2>1, <3>2, <4>1
    <3> QED
      BY <3>1, <3>2
  <2> QED
    BY <2>1, <2>3
<1>6. TypeOK'
  <2>1. edits' \in 0 .. MaxEdits
    BY ConstantsAssumption DEF IInv, TypeOK, DropRow
  <2> QED
    BY <1>5, <2>1 DEF IInv, TypeOK, DropRow
<1>7. HmacsSigned'
  BY <1>5 DEF IInv, HmacsSigned, DropRow
<1>8. edits' # 0
  BY DEF IInv, TypeOK, DropRow
<1>9. SignedEndInEntry' /\ Exact' /\ PagerExact'
  BY <1>8 DEF IInv, SignedEndInEntry, Exact, PagerExact, DropRow
<1>10. TamperingShowsThere'
  <2> SUFFICES ASSUME edits = 0, i < Len(audit) PROVE BrokenAt(audit', i)
    BY DEF IInv, TypeOK, TamperingShowsThere, DropRow
  <2>1. /\ DOMAIN audit' = 1 .. Len(audit) - 1
        /\ \A k \in 1 .. i - 1 : audit'[k] = audit[k]
        /\ audit'[i] = audit[i + 1]
    <3>1. /\ Len(s) = i - 1 /\ \A k \in 1 .. i - 1 : s[k] = audit[k]
          /\ Len(t) = Len(audit) - i /\ t[1] = audit[i + 1]
      BY <1>1, SubSeqProperties DEF s, t
    <3>2. /\ DOMAIN audit' = 1 .. Len(s) + Len(t)
          /\ \A k \in 1 .. Len(s) + Len(t) :
                audit'[k] = IF k <= Len(s) THEN s[k] ELSE t[k - Len(s)]
      BY <1>2, <1>3, <1>4, ConcatProperties, LenProperties
    <3>3. Len(s) + Len(t) = Len(audit) - 1 /\ i \in 1 .. Len(s) + Len(t)
      <4>1. Len(s) = i - 1 /\ Len(t) = Len(audit) - i
        BY <3>1
      <4> QED
        BY <1>1, <4>1
    <3>4. audit'[i] = t[1]
      <4>1. ~ (i <= Len(s)) /\ i - Len(s) = 1
        BY <1>1, <3>1
      <4> QED
        BY <3>2, <3>3, <4>1
    <3>5. ASSUME NEW k \in 1 .. i - 1 PROVE audit'[k] = audit[k]
      <4>1. k <= Len(s) /\ k \in 1 .. Len(s) + Len(t)
        BY <1>1, <3>1, <3>3
      <4> QED
        BY <3>1, <3>2, <4>1
    <3> QED
      BY <3>1, <3>2, <3>3, <3>4, <3>5
  <2>2. \A k \in DOMAIN audit : RowOK(audit, k)
    BY HonestRows
  <2>3. i \in DOMAIN audit /\ i + 1 \in DOMAIN audit /\ DOMAIN audit = 1 .. Len(audit)
    BY <1>1, RowAt DEF IInv
  <2>4. ASSUME NEW k \in 1 .. i PROVE Expected(audit', k) = Expected(audit, k)
    <3>1. CASE k = 1
      BY <3>1 DEF Expected
    <3>2. CASE k # 1
      <4>1. k - 1 \in 1 .. i - 1
        BY <1>1, <3>2
      <4> QED
        BY <2>1, <3>2, <4>1 DEF Expected
    <3> QED
      BY <3>1, <3>2
  <2>5. ASSUME NEW k \in 1 .. i - 1 PROVE RowOK(audit', k)
    <3>1. k \in 1 .. i /\ k \in DOMAIN audit
      BY <1>1, <2>3
    <3> QED
      BY <2>1, <2>2, <2>4, <3>1 DEF RowOK
  <2>6. ~ RowOK(audit', i)
    <3>1. audit[i + 1].prev = audit[i].hash
      <4>1. i + 1 # 1 /\ (i + 1) - 1 = i
        BY <1>1
      <4> QED
        BY <2>2, <2>3, <4>1 DEF RowOK, Expected
    <3>2. audit[i].prev = Expected(audit, i)
          /\ audit[i].hash = Append(audit[i].prev, audit[i].entry)
      BY <2>2, <2>3 DEF RowOK, SHA256
    <3>3. audit[i].hash # audit[i].prev
      <4>1. audit[i].prev \in Hash /\ audit[i].entry \in Entry
        BY <1>1, RowAt DEF IInv, Row
      <4> QED
        BY <3>2, <4>1, AppendDiffers
    <3>4. Expected(audit', i) = Expected(audit, i) /\ audit'[i].prev = audit[i + 1].prev
      BY <1>1, <2>1, <2>4
    <3> QED
      BY <3>1, <3>2, <3>3, <3>4 DEF RowOK
  <2>7. ASSUME NEW k \in BrokenRows(audit') PROVE i <= k
    BY <1>1, <2>1, <2>5 DEF BrokenRows
  <2>8. i \in DOMAIN audit'
    BY <1>1, <2>1
  <2> QED
    BY <2>6, <2>7, <2>8 DEF BrokenAt, BrokenRows
<1> QED
  BY <1>6, <1>7, <1>9, <1>10 DEF IInv

-----------------------------------------------------------------------------
(* The pages.                                                              *)

LEMMA IdsArePositions ==
    ASSUME IInv, edits = 0
    PROVE  \A i \in 1 .. Len(audit) : audit[i].id = i
BY RowAt DEF IInv, Exact

\* The maximum of an initial segment of the naturals is its end.
LEMMA MaxOfSegment == ASSUME NEW n \in Nat PROVE Max(0 .. n) = n
<1> DEFINE S == 0 .. n
<1>1. S \in SUBSET Nat /\ S # {} /\ \A i \in S : i <= n
  OBVIOUS
<1>2. n \in S
  OBVIOUS
<1> HIDE DEF S
<1>3. Max(S) \in S /\ \A i \in S : Max(S) >= i
  BY <1>1, MaxOfBounded
<1>4. Max(S) \in Nat /\ Max(S) <= n /\ Max(S) >= n
  BY <1>1, <1>2, <1>3
<1> QED
  BY <1>4 DEF S

\* While nobody else writes, ids are positions, and n rows are older than a
\* cursor at n + 1, or than none when there are n rows.
LEMMA CountExact ==
    ASSUME IInv, edits = 0, NEW n \in Nat, n <= Len(audit), NEW before \in Nat,
           before = n + 1 \/ (before = 0 /\ n = Len(audit))
    PROVE  CountBefore(before) = n
<1>1. DOMAIN audit = 1 .. Len(audit) /\ Len(audit) \in Nat
  BY RowAt DEF IInv
<1>2. n \in Nat /\ n <= Len(audit)
  OBVIOUS
<1>3. \A i \in 1 .. Len(audit) : audit[i].id = i
  BY IdsArePositions
<1> DEFINE S == {0} \cup {i \in DOMAIN audit : before = 0 \/ audit[i].id < before}
<1>4. S = 0 .. n
  <2>1. {i \in DOMAIN audit : before = 0 \/ audit[i].id < before} = 1 .. n
    <3>1. CASE before = 0
      BY <1>1, <1>2, <3>1
    <3>2. CASE before = n + 1
      BY <1>1, <1>2, <1>3, <3>2
    <3> QED
      BY <3>1, <3>2
  <2> QED
    BY <1>2, <2>1
<1> QED
  BY <1>2, <1>4, MaxOfSegment DEF CountBefore

\* What was shown counts down from the top, and the cursor is next below it.
CursorRight(before, top, shown) ==
    /\ top <= Len(audit) /\ Len(shown) <= top
    /\ \A k \in DOMAIN shown : shown[k] = top + 1 - k
    /\ \/ before = top - Len(shown) + 1
       \/ before = 0 /\ top - Len(shown) = Len(audit)

\* Loading the page below a correct cursor leaves a correct cursor.
LEMMA LoadInv ==
    ASSUME IInv, NEW before \in Nat, NEW top \in Nat, NEW shown \in Seq(Nat),
           LoadAuditPage(before, top, shown), UNCHANGED <<audit, signed, history, edits, tampered>>,
           edits = 0 => CursorRight(before, top, shown)
    PROVE  IInv'
<1> DEFINE page == Query(before)
           all == shown \o page
<1>1. /\ page \in Seq(Nat) /\ Len(page) \in Nat /\ DOMAIN page = 1 .. Len(page)
      /\ Len(shown) \in Nat /\ DOMAIN shown = 1 .. Len(shown)
      /\ PageSize \in Nat \ {0} /\ Len(audit) \in Nat
  BY QueryType, LenProperties, RowAt, ConstantsAssumption DEF IInv
<1>2. /\ all \in Seq(Nat) /\ Len(all) = Len(shown) + Len(page)
      /\ DOMAIN all = 1 .. Len(shown) + Len(page)
      /\ \A k \in 1 .. Len(shown) + Len(page) :
            all[k] = IF k <= Len(shown) THEN shown[k] ELSE page[k - Len(shown)]
  BY <1>1, ConcatProperties, LenProperties
<1>3. pager' = [state |-> IF Len(page) = PageSize THEN "more" ELSE "end",
                next |-> IF page = <<>> THEN 0 ELSE page[Len(page)],
                top |-> top, shown |-> all]
  BY DEF LoadAuditPage
<1>4. page # <<>> => page[Len(page)] \in Nat
  BY <1>1, EmptySeq, ElementOfSeq
<1> HIDE DEF page, all
<1>5. pager' \in Pager
  BY <1>2, <1>3, <1>4 DEF Pager
<1>6. TypeOK'
  BY <1>5 DEF IInv, TypeOK
<1>7. SignedEndInEntry' /\ HmacsSigned'
  BY DEF IInv, SignedEndInEntry, HmacsSigned
<1>8. Exact' /\ TamperingShowsThere'
  BY DEF IInv, Exact, TamperingShowsThere, BrokenAt, BrokenRows, RowOK, Expected
<1>9. PagerExact'
  <2> SUFFICES ASSUME edits = 0 PROVE PagerExact'
    BY DEF PagerExact
  <2>0. CursorRight(before, top, shown)
    OBVIOUS
  <2> DEFINE n == top - Len(shown)
             m == IF n < PageSize THEN n ELSE PageSize
  <2>1. n \in 0 .. Len(audit) /\ n \in Nat /\ CountBefore(before) = n
    <3>1. n \in 0 .. Len(audit) /\ n \in Nat /\ n <= Len(audit)
      BY <1>1, <2>0 DEF CursorRight
    <3>2. before = n + 1 \/ (before = 0 /\ n = Len(audit))
      BY <2>0 DEF CursorRight
    <3> HIDE DEF n
    <3> QED
      BY <3>1, <3>2, CountExact
  <2>2. m \in Nat /\ m <= n
    BY <1>1, <2>1
  <2>3. page = [k \in 1 .. m |-> audit[n + 1 - k].id]
    BY <2>1 DEF Query, page
  <2>4. \A i \in 1 .. Len(audit) : audit[i].id = i
    BY IdsArePositions
  <2>5. \A k \in 1 .. m : page[k] = n + 1 - k
    <3> HIDE DEF n, m
    <3>1. \A k \in 1 .. m : n + 1 - k \in 1 .. Len(audit)
      BY <1>1, <2>1, <2>2
    <3> QED
      BY <2>3, <2>4, <3>1
  <2>6. Len(page) = m
    <3> HIDE DEF n, m
    <3> QED
      BY <1>1, <2>2, <2>3
  <2>7. \A k \in DOMAIN all : all[k] = top + 1 - k
    <3> SUFFICES ASSUME NEW k \in 1 .. Len(shown) + m PROVE all[k] = top + 1 - k
      BY <1>2, <2>6
    <3> HIDE DEF m
    <3>1. CASE k <= Len(shown)
      <4>1. k \in DOMAIN shown /\ all[k] = shown[k]
        BY <1>1, <1>2, <2>2, <2>6, <3>1
      <4> QED
        BY <2>0, <4>1 DEF CursorRight
    <3>2. CASE ~ (k <= Len(shown))
      <4>1. k - Len(shown) \in 1 .. m
        BY <1>1, <2>2, <3>2
      <4>2. all[k] = page[k - Len(shown)]
        BY <1>2, <2>6, <3>2
      <4>3. page[k - Len(shown)] = n + 1 - (k - Len(shown))
        BY <2>5, <4>1
      <4>4. n + 1 - (k - Len(shown)) = top + 1 - k
        BY <1>1
      <4> QED
        BY <4>2, <4>3, <4>4
    <3> QED
      BY <3>1, <3>2
  <2>8. Len(all) = Len(shown) + m
    BY <1>2, <2>6
  <2>9. Len(all) <= top /\ (m # PageSize => Len(all) = top)
    BY <1>1, <2>1, <2>8
  <2>10. m = PageSize => /\ page # <<>> /\ all # <<>>
                         /\ page[Len(page)] = top + 1 - Len(all)
    <3> SUFFICES ASSUME m = PageSize
                 PROVE page # <<>> /\ all # <<>> /\ page[Len(page)] = top + 1 - Len(all)
      OBVIOUS
    <3>1. m \in 1 .. m
      BY <1>1
    <3>2. page[m] = n + 1 - m
      BY <2>5, <3>1
    <3>3. page # <<>> /\ all # <<>>
      BY <1>1, <1>2, <2>6, <2>8
    <3> QED
      BY <1>1, <2>6, <2>8, <3>2, <3>3
  <2> HIDE DEF m, n
  <2>11. top <= Len(audit)'
    BY <2>0 DEF CursorRight
  <2> QED
    BY <1>3, <2>6, <2>7, <2>9, <2>10, <2>11 DEF PagerExact
<1> QED
  BY <1>6, <1>7, <1>8, <1>9 DEF IInv

LEMMA OpenInv == ASSUME IInv, OpenAuditPage PROVE IInv'
<1>1. NextId - 1 \in Nat
  BY LastHashType DEF IInv
<1>2. edits = 0 => NextId - 1 = Len(audit)
  <2> SUFFICES ASSUME edits = 0 PROVE NextId - 1 = Len(audit)
    OBVIOUS
  <2>1. CASE audit = <<>>
    BY <2>1 DEF NextId
  <2>2. CASE audit # <<>>
    <3>1. Len(audit) \in DOMAIN audit /\ Len(audit) \in Nat
      BY <2>2, RowAt, EmptySeq DEF IInv, TypeOK
    <3>2. audit[Len(audit)].id = Len(audit)
      BY <3>1 DEF IInv, Exact
    <3> QED
      BY <2>2, <3>1, <3>2 DEF NextId
  <2> QED
    BY <2>1, <2>2
<1>3. <<>> \in Seq(Nat) /\ Len(<<>>) = 0 /\ DOMAIN <<>> = {} /\ Len(audit) \in Nat
  BY EmptySeq, RowAt DEF IInv
<1> DEFINE none == <<>>
<1>4. /\ none \in Seq(Nat) /\ Len(none) = 0 /\ \A k \in DOMAIN none : FALSE
      /\ LoadAuditPage(0, NextId - 1, none)
  BY <1>3 DEF OpenAuditPage
<1> HIDE DEF none
<1>5. edits = 0 => CursorRight(0, NextId - 1, none)
  BY <1>1, <1>2, <1>3, <1>4 DEF CursorRight
<1>6. UNCHANGED <<audit, signed, history, edits, tampered>>
  BY DEF OpenAuditPage
<1>7. 0 \in Nat /\ none \in Seq(Nat) /\ LoadAuditPage(0, NextId - 1, none)
  BY <1>4
<1> DEFINE top == NextId - 1
<1>8. top \in Nat /\ LoadAuditPage(0, top, none) /\ (edits = 0 => CursorRight(0, top, none))
  BY <1>1, <1>5, <1>7
<1> HIDE DEF top
<1> QED
  BY <1>6, <1>7, <1>8, LoadInv

LEMMA OlderInv == ASSUME IInv, OlderAuditPage PROVE IInv'
<1>1. pager.next \in Nat /\ pager.top \in Nat /\ pager.shown \in Seq(Nat)
  BY DEF IInv, TypeOK, Pager
<1>2. Len(pager.shown) \in Nat
  BY <1>1, LenProperties
<1>3. edits = 0 => CursorRight(pager.next, pager.top, pager.shown)
  BY <1>1, <1>2 DEF IInv, PagerExact, OlderAuditPage, CursorRight
<1> QED
  BY <1>1, <1>3, LoadInv DEF OlderAuditPage

-----------------------------------------------------------------------------
(* The theorems.                                                           *)

THEOREM Invariance == Spec => []IInv
<1>1. IInv /\ [Next]_vars => IInv'
  <2> SUFFICES ASSUME IInv, [Next]_vars PROVE IInv'
    OBVIOUS
  <2>1. CASE UNCHANGED vars
    BY <2>1 DEF vars, IInv, TypeOK, SignedEndInEntry, HmacsSigned, Exact, PagerExact,
                TamperingShowsThere, BrokenAt, BrokenRows, RowOK, Expected
  <2>2. ASSUME NEW e \in Entry, AppendEntry(e) PROVE IInv'
    BY <2>2, AppendInv
  <2>3. ASSUME NEW i \in DOMAIN audit, EditRow(i) \/ DropRow(i) PROVE IInv'
    BY <2>3, EditInv, DropInv
  <2>4. CASE OpenAuditPage
    BY <2>4, OpenInv
  <2>5. CASE OlderAuditPage
    BY <2>5, OlderInv
  <2> QED
    BY <2>1, <2>2, <2>3, <2>4, <2>5 DEF Next
<1> QED
  BY <1>1, InitInv, PTL DEF Spec

THEOREM TypeCorrect == Spec => []TypeOK
BY Invariance, PTL DEF IInv

\* A log only Append has written verifies and is the history.
THEOREM HonestLogVerifies == Spec => []HonestChain
<1>1. IInv => HonestChain
  <2> SUFFICES ASSUME IInv, edits = 0 PROVE Verified /\ Entries(audit) = history
    BY DEF HonestChain
  <2>1. DOMAIN audit = 1 .. Len(audit) /\ Len(audit) \in Nat /\ Len(audit) = Len(history)
    BY RowAt DEF IInv, Exact
  <2>2. \A i \in DOMAIN audit :
           /\ audit[i].entry = history[i]
           /\ audit[i].prev = Prefix(history, i - 1)
           /\ audit[i].hash = Prefix(history, i)
           /\ audit[i].hmac = Prefix(history, i)
    BY DEF IInv, Exact
  <2>3. \A i \in DOMAIN audit : RowOK(audit, i)
    BY HonestRows
  <2>4. Entries(audit) = history
    <3>1. history \in Seq(Entry)
      BY DEF IInv, TypeOK
    <3>2. history = [i \in 1 .. Len(history) |-> history[i]]
      BY <3>1, LenProperties
    <3> QED
      BY <2>1, <2>2, <3>2 DEF Entries
  <2> QED
    BY <2>3, <2>4 DEF Verified, BrokenRows
<1> QED
  BY <1>1, Invariance, PTL

\* A log that verifies has only prefixes Append has signed.  By the least
\* row whose hash does not commit to the entries up to it: there is none.
THEOREM VerifiedLogIsGenuine == Spec => []VerifiedIsSigned
<1>1. IInv => VerifiedIsSigned
  <2> SUFFICES ASSUME IInv, Verified, NEW n \in DOMAIN audit
               PROVE  Prefix(Entries(audit), n) \in signed
    BY DEF VerifiedIsSigned
  <2> DEFINE s == Entries(audit)
             T == {i \in DOMAIN audit : audit[i].hash # Prefix(s, i)}
  <2>1. DOMAIN audit = 1 .. Len(audit) /\ Len(audit) \in Nat
        /\ \A i \in DOMAIN audit : audit[i] \in Row
    BY RowAt DEF IInv
  <2>2. s \in Seq(Entry) /\ Len(s) = Len(audit) /\ \A i \in DOMAIN audit : s[i] = audit[i].entry
    BY <2>1 DEF Entries, Row
  <2>3. \A i \in DOMAIN audit : RowOK(audit, i)
    BY DEF Verified, BrokenRows
  <2> HIDE DEF s
  <2>4. T = {}
    <3> SUFFICES ASSUME T # {} PROVE FALSE
      OBVIOUS
    <3>1. T \in SUBSET Nat
      BY <2>1
    <3>2. PICK i \in T : \A k \in T : i <= k
      BY <3>1, LeastNat
    <3>3. i \in 1 .. Len(audit) /\ i \in DOMAIN audit
      BY <2>1
    <3>4. audit[i].prev = Prefix(s, i - 1)
      <4>1. CASE i = 1
        BY <2>3, <3>3, <4>1 DEF RowOK, Expected, ZeroHash, Prefix
      <4>2. CASE i # 1
        <5>1. i - 1 \in DOMAIN audit /\ ~ (i <= i - 1)
          BY <2>1, <3>3, <4>2
        <5>2. audit[i - 1].hash = Prefix(s, i - 1)
          BY <3>2, <5>1
        <5> QED
          BY <2>3, <3>3, <4>2, <5>2 DEF RowOK, Expected
      <4> QED
        BY <4>1, <4>2
    <3>5. audit[i].hash = Append(Prefix(s, i - 1), s[i])
      BY <2>2, <2>3, <3>3, <3>4 DEF RowOK, SHA256
    <3>6. Append(Prefix(s, i - 1), s[i]) = Prefix(s, i)
      BY <2>2, <3>3, PrefixAppend
    <3> QED
      BY <3>5, <3>6
  <2>5. audit[n].hash = Prefix(s, n) /\ audit[n].hmac = audit[n].hash
    BY <2>3, <2>4 DEF RowOK
  <2>6. audit[n].hmac \in signed \cup {Malformed}
    BY DEF IInv, HmacsSigned
  <2>7. Prefix(s, n) # Malformed
    <3>1. n \in 1 .. Len(audit) /\ s[1] \in Entry
      BY <2>1, <2>2, ElementOfSeq
    <3>2. Prefix(s, n)[1] = s[1]
      BY <2>1, <3>1 DEF Prefix
    <3> QED
      BY <3>1, <3>2, ConstantsAssumption DEF Malformed
  <2> QED
    BY <2>5, <2>6, <2>7 DEF s
<1> QED
  BY <1>1, Invariance, PTL

\* The pages of a growing log are complete.
THEOREM PagingIsComplete == Spec => []PagesComplete
<1>1. IInv => PagesComplete
  BY DEF IInv, PagerExact, PagesComplete
<1> QED
  BY <1>1, Invariance, PTL


\* One change behind the logger's back, if it leaves a trace, is reported
\* where it was made for as long as rows are only appended.
THEOREM TamperingIsLocated == Spec => []TamperingShowsThere
BY Invariance, PTL DEF IInv
=============================================================================
