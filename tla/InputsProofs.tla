---------------------------- MODULE InputsProofs ----------------------------
(***************************************************************************)
(* What holds of a key's lifetime for every width of the integers, every   *)
(* clock and every lifetime asked for; of its scope for all patterns and   *)
(* paths; and of a secret's tags and metadata for all texts and limits;    *)
(* whatever sequence of creates, updates, saves and annotations sets them. *)
(***************************************************************************)
EXTENDS Inputs, MaxLemmas, SequenceTheorems

-----------------------------------------------------------------------------
(* The inductive invariant.  The stored expiry is the sum of what was asked *)
(* and of when, as long as the product of days did not overflow.            *)

KeyTypeOK ==
    /\ scope \in Seq(Part) \cup {Nil}
    /\ expires \in Int \cup {Nil}
    /\ born \in Nat /\ asked \in Int
    /\ now \in Nat

SumStored == expires # Nil /\ asked < Half => expires = born + asked

IInv == KeyTypeOK /\ SumStored

\* What fits into an int64 is not wrapped.
LEMMA WrapIsIdentity ==
    ASSUME NEW n \in Nat, n < Half
    PROVE  Wrap(n) = n
<1>1. Half \in Nat \ {0}
  BY InputsAssumption
<1>2. n + Half \in Nat /\ n + Half < 2 * Half /\ 2 * Half \in Nat
  BY <1>1
<1>3. \A a, b \in Nat : a < b => a % b = a
  OBVIOUS
<1>4. (n + Half) % (2 * Half) = n + Half
  BY <1>2, <1>3
<1> QED
  BY <1>1, <1>4 DEF Wrap

\* A lifetime that is set is an int64, and what was meant unless that is longer.
LEMMA LivesInv ==
    ASSUME IInv, NEW lifetime \in ParseDurationLoose, Lives(lifetime), now' = now,
           scope' \in Seq(Part)
    PROVE  IInv'
<1>1. /\ lifetime.as \in Int /\ lifetime.meant \in Int
      /\ lifetime.meant < Half => lifetime.as = lifetime.meant
  <2>1. CASE lifetime \in ParseDuration
    BY <2>1, InputsAssumption DEF ParseDuration
  <2>2. ASSUME NEW d \in Days,
               lifetime = [as |-> Parsed(d, DayTicks), meant |-> d * DayTicks]
        PROVE  /\ lifetime.as \in Int /\ lifetime.meant \in Int
               /\ lifetime.meant < Half => lifetime.as = lifetime.meant
    <3>1. d * DayTicks \in Nat
      BY InputsAssumption
    <3>2. Wrap(d * DayTicks) \in Int
      BY <3>1, InputsAssumption DEF Wrap
    <3> QED
      BY <2>2, <3>1, <3>2, WrapIsIdentity DEF Parsed
  <2> QED
    BY <2>1, <2>2 DEF ParseDurationLoose
<1>2. expires' = now + lifetime.as /\ asked' = lifetime.meant /\ born' = now
  BY DEF Lives, Add
<1> QED
  BY <1>1, <1>2 DEF IInv, KeyTypeOK, SumStored

LEMMA KeptInv ==
    ASSUME IInv, scope' \in Seq(Part) \cup {Nil}, now' \in Nat,
           UNCHANGED <<asked, born>>, expires' \in {expires, Nil}
    PROVE  IInv'
BY DEF IInv, KeyTypeOK, SumStored

\* What the form stores is a scope.
LEMMA TrimmedScope ==
    ASSUME NEW csv \in Csvs
    PROVE  TrimScope(csv) \in Seq(Part)
<1> DEFINE before(i) == csv[i].before /\ i > 1 /\ ~(i = Len(csv) /\ IsEmpty(csv[i]))
           after(i) == csv[i].after /\ i < Len(csv)
           c(i) == [pattern |-> csv[i].pattern, before |-> before(i), after |-> after(i)]
<1>1. csv \in Seq(Part)
  BY InputsAssumption
<1>2. ASSUME NEW i \in DOMAIN csv PROVE c(i) \in Part
  <2>1. csv[i] \in Part
    BY <1>1
  <2>2. /\ csv[i].pattern \in Seq(Glob) \ {<<>>}
        /\ csv[i].pattern = <<{Blank}>> => ~csv[i].after
    BY <2>1 DEF Part
  <2>3. before(i) \in BOOLEAN /\ after(i) \in BOOLEAN
    OBVIOUS
  <2>4. csv[i].pattern = <<{Blank}>> => ~after(i)
    BY <2>2
  <2> HIDE DEF before, after
  <2> QED
    BY <2>2, <2>3, <2>4 DEF Part
<1>3. TrimScope(csv) = [i \in DOMAIN csv |-> c(i)]
  BY DEF TrimScope
<1> HIDE DEF c
<1> QED
  BY <1>1, <1>2, <1>3

\* The strengthened invariant holds in every reachable state.
THEOREM Invariance == Spec => []IInv
<1>1. Init => IInv
  BY InputsAssumption DEF Init, IInv, KeyTypeOK, SumStored
<1>2. IInv /\ [Next]_vars => IInv'
  <2> SUFFICES ASSUME IInv, [Next]_vars PROVE IInv'
    OBVIOUS
  <2>1. scope \in Seq(Part) \cup {Nil} /\ now \in Nat /\ Csvs \subseteq Seq(Part)
    BY InputsAssumption DEF IInv, KeyTypeOK
  <2>2. CASE UNCHANGED vars \/ PutSecret \/ SaveForm \/ HandleAnnotate \/ DeleteSecret
    BY <2>1, <2>2, KeptInv DEF vars, key, PutSecret, SaveForm, HandleAnnotate, DeleteSecret,
                               Store, OfSecret
  <2>3. CASE Tick
    BY <2>1, <2>3, KeptInv DEF Tick, key
  <2>4. CASE CreateKey
    BY <2>1, <2>4, LivesInv, KeptInv DEF CreateKey, ForEver, OfKey, ParseDurationLoose
  <2>5. CASE UpdateKey
    BY <2>1, <2>5, LivesInv, KeptInv DEF UpdateKey, OfKey, ParseDurationLoose
  <2>6. CASE SaveKeyForm
    BY <2>1, <2>6, TrimmedScope, LivesInv, KeptInv DEF SaveKeyForm, ForEver, OfKey
  <2> QED
    BY <2>2, <2>3, <2>4, <2>5, <2>6 DEF Next
<1> QED
  BY <1>1, <1>2, PTL DEF Spec

\* Authenticate refuses a key exactly from the end of the lifetime it was given
\* last, for all lifetimes that fit and end after the epoch.
THEOREM LifetimesEnd == Spec => []ExpiresWhenAsked
<1>1. IInv => ExpiresWhenAsked
  BY InputsAssumption DEF IInv, KeyTypeOK, SumStored, ExpiresWhenAsked, Expired
<1> QED
  BY <1>1, Invariance, PTL

-----------------------------------------------------------------------------
(* Scopes. *)

\* Trimming leaves a sequence of the same elements.
LEMMA TrimTyped ==
    ASSUME NEW S, NEW e \in S, NEW s \in Seq(S)
    PROVE  Trim(s, e) \in Seq(S)
<1> DEFINE inner == {i \in DOMAIN s : s[i] # e}
<1>1. CASE inner = {}
  BY <1>1 DEF Trim
<1>2. CASE inner # {}
  <2>1. /\ inner \in SUBSET Nat /\ Len(s) \in Nat
        /\ \A i \in inner : i \in Nat /\ 1 <= i /\ i <= Len(s)
    OBVIOUS
  <2> HIDE DEF inner
  <2>2. Max(inner) \in inner /\ \A i \in inner : Max(inner) >= i
    BY <1>2, <2>1, MaxOfBounded
  <2>3. Min(inner) \in inner
    <3>1. PICK m \in inner : \A k \in inner : m <= k
      BY <1>2, <2>1, LeastNat
    <3> QED
      BY <3>1 DEF Min
  <2>4. SubSeq(s, Min(inner), Max(inner)) \in Seq(S)
    <3>1. /\ Min(inner) \in Int /\ Max(inner) \in Int
          /\ 1 <= Min(inner) /\ Max(inner) <= Len(s)
      <4>1. \A i \in inner : i \in Int /\ 1 <= i /\ i <= Len(s)
        BY <2>1
      <4>2. Min(inner) \in inner /\ Max(inner) \in inner
        BY <2>2, <2>3
      <4> QED
        BY <4>1, <4>2
    <3>2. \A i \in Min(inner) .. Max(inner) : i \in 1 .. Len(s)
      BY <2>1, <3>1
    <3>3. \A i \in Min(inner) .. Max(inner) : s[i] \in S
      BY <3>2
    <3> QED
      BY <3>1, <3>3, SubSeqProperties
  <2> QED
    BY <1>2, <2>4 DEF Trim, inner
<1> QED
  BY <1>1, <1>2

\* Match accepts the paths a pattern means and no others.
LEMMA MatchMeans ==
    ASSUME NEW pattern \in Seq(Glob), NEW p \in Seq(Segment)
    PROVE  Match(pattern, p) <=> TrimPath(p) \in Language(pattern)
<1> DEFINE pat == TrimPattern(pattern)
           path == TrimPath(p)
<1>1. pat \in Seq(Glob)
  BY TrimTyped, ScopeAssumption DEF TrimPattern, Glob
<1>2. path \in Seq(Segment)
  BY TrimTyped, ScopeAssumption DEF TrimPath
<1>3. Match(pattern, p) <=> Len(pat) = Len(path) /\ \A i \in DOMAIN pat : path[i] \in pat[i]
  BY DEF Match, PathMatch
<1>4. Language(pattern) =
        {s \in [DOMAIN pat -> Segment] : \A i \in DOMAIN pat : s[i] \in pat[i]}
  BY DEF Language
<1> HIDE DEF pat, path
<1>5. Len(pat) = Len(path) <=> path \in [DOMAIN pat -> Segment]
  BY <1>1, <1>2
<1> QED
  BY <1>3, <1>4, <1>5 DEF path

\* Trimming slashes takes nothing else from the ends.
LEMMA TrimKeepsEnds ==
    ASSUME NEW S, NEW e \in S, NEW s \in Seq(S), s # <<>>
    PROVE  LET t == Trim(s, e)
           IN  /\ Len(t) >= 1
               /\ s[1] # e => t[1] = s[1]
               /\ s[Len(s)] # e => t[Len(t)] = s[Len(s)]
<1> DEFINE inner == {i \in DOMAIN s : s[i] # e}
           low == Min(inner)
           high == Max(inner)
<1>1. /\ inner \in SUBSET Nat /\ Len(s) \in Nat /\ Len(s) >= 1
      /\ \A i \in inner : i \in Nat /\ 1 <= i /\ i <= Len(s)
  OBVIOUS
<1>2. (s[1] # e => 1 \in inner) /\ (s[Len(s)] # e => Len(s) \in inner)
  OBVIOUS
<1>3. Trim(s, e) = IF inner = {} THEN <<e>> ELSE SubSeq(s, low, high)
  BY DEF Trim
<1> HIDE DEF inner
<1>4. CASE inner = {}
  <2>1. s[1] = e /\ s[Len(s)] = e /\ Trim(s, e) = <<e>>
    BY <1>2, <1>3, <1>4
  <2> QED
    BY <2>1
<1>5. CASE inner # {}
  <2>1. high \in inner /\ \A i \in inner : high >= i
    BY <1>1, <1>5, MaxOfBounded
  <2>2. low \in inner /\ \A i \in inner : low <= i
    <3>1. PICK m \in inner : \A k \in inner : m <= k
      BY <1>1, <1>5, LeastNat
    <3> QED
      BY <3>1 DEF Min
  <2> HIDE DEF low, high
  <2>3. /\ low \in Nat /\ high \in Nat /\ 1 <= low /\ low <= high /\ high <= Len(s)
        /\ s[1] # e => low = 1
        /\ s[Len(s)] # e => high = Len(s)
    <3>1. low \in Nat /\ high \in Nat /\ 1 <= low /\ high <= Len(s) /\ high >= low
      BY <1>1, <2>1, <2>2
    <3>2. s[1] # e => 1 >= low
      BY <1>2, <2>2
    <3>3. s[Len(s)] # e => high >= Len(s)
      BY <1>2, <2>1
    <3> QED
      BY <1>1, <3>1, <3>2, <3>3
  <2>4. /\ Len(SubSeq(s, low, high)) = high - low + 1
        /\ \A i \in 1 .. high - low + 1 : SubSeq(s, low, high)[i] = s[low + i - 1]
    BY <2>3, SubSeqProperties
  <2>5. SubSeq(s, low, high)[1] = s[low]
    BY <2>3, <2>4
  <2>6. SubSeq(s, low, high)[high - low + 1] = s[high]
    BY <2>3, <2>4
  <2> QED
    BY <1>3, <1>5, <2>3, <2>4, <2>5, <2>6
<1> QED
  BY <1>4, <1>5

\* Only a space at an end of a path lets a part with a space there match it.
LEMMA SpacedPart ==
    ASSUME NEW c \in Part
    PROVE  LET w == AsWritten(c)
           IN  /\ w \in Seq(Glob) \ {<<>>}
               /\ c.before => w[1] \subseteq DOMAIN AfterSpace \/ c.after
               /\ c.after => w[Len(w)] \subseteq DOMAIN BeforeSpace
               /\ ~Spaced(c) => w = c.pattern
<1> DEFINE f == Spread(c)
           n == Len(c.pattern)
           w == AsWritten(c)
<1>1. c.pattern \in Seq(Glob) /\ c.pattern # <<>> /\ n \in Nat /\ n >= 1
  BY DEF Part
<1>2. DOMAIN AfterSpace \subseteq Segment /\ DOMAIN BeforeSpace \subseteq Segment
  BY ScopeAssumption
<1>3. /\ f \in Seq(Glob) /\ Len(f) = n
      /\ c.before => f[1] \subseteq DOMAIN AfterSpace
      /\ ~c.before => f = c.pattern
  <2> DEFINE g == IF c.before THEN {s \in DOMAIN AfterSpace : AfterSpace[s] \in c.pattern[1]}
                  ELSE c.pattern[1]
  <2>1. f = [c.pattern EXCEPT ![1] = g]
    BY DEF Spread
  <2>2. c.pattern[1] \in Glob
    BY <1>1
  <2>3. g \in Glob /\ (c.before => g \subseteq DOMAIN AfterSpace) /\ (~c.before => g = c.pattern[1])
    BY <1>2, <2>2 DEF Glob
  <2> HIDE DEF f, g
  <2> QED
    BY <1>1, <2>1, <2>3
<1> HIDE DEF f
<1>4. /\ w \in Seq(Glob) /\ Len(w) = n
      /\ c.after => w[n] \subseteq DOMAIN BeforeSpace
      /\ ~c.after => w = f
  <2> DEFINE g == IF c.after THEN {s \in DOMAIN BeforeSpace : BeforeSpace[s] \in f[n]} ELSE f[n]
  <2>1. w = [f EXCEPT ![n] = g]
    BY DEF AsWritten, f
  <2>2. f[n] \in Glob
    BY <1>1, <1>3
  <2>3. g \in Glob /\ (c.after => g \subseteq DOMAIN BeforeSpace) /\ (~c.after => g = f[n])
    BY <1>2, <2>2 DEF Glob
  <2> HIDE DEF w, g
  <2> QED
    BY <1>1, <1>3, <2>1, <2>3
<1> HIDE DEF w
<1>5. w # <<>>
  BY <1>1, <1>4
<1> QED
  BY <1>3, <1>4, <1>5 DEF Spaced, w

\* A part lets in a path without spaces at its ends only if it has none itself.
LEMMA UnspacedPath ==
    ASSUME NEW c \in Part, NEW p \in Seq(Segment), Match(AsWritten(c), p),
           ~SpaceAtAnEnd(TrimPath(p))
    PROVE  ~Spaced(c)
<1> DEFINE w == AsWritten(c)
           pat == TrimPattern(w)
           path == TrimPath(p)
<1>1. w \in Seq(Glob) /\ w # <<>> /\ {Blank} \in Glob
  BY SpacedPart, ScopeAssumption DEF Glob
<1>2. /\ pat \in Seq(Glob) /\ path \in Seq(Segment)
      /\ Len(pat) = Len(path) /\ \A i \in DOMAIN pat : path[i] \in pat[i]
  BY <1>1, TrimTyped, ScopeAssumption DEF TrimPattern, TrimPath, Match, PathMatch
<1>3. /\ Len(pat) >= 1
      /\ w[1] # {Blank} => pat[1] = w[1]
      /\ w[Len(w)] # {Blank} => pat[Len(pat)] = w[Len(w)]
  BY <1>1, TrimKeepsEnds DEF TrimPattern
<1>4. Blank \notin DOMAIN AfterSpace /\ Blank \notin DOMAIN BeforeSpace
  BY ScopeAssumption
<1>5. path[1] \notin DOMAIN AfterSpace /\ path[Len(path)] \notin DOMAIN BeforeSpace
  BY DEF SpaceAtAnEnd
<1> HIDE DEF w, pat, path
<1>7. path[1] \in pat[1] /\ path[Len(path)] \in pat[Len(pat)]
  BY <1>2, <1>3
<1>8. ~c.after
  BY <1>3, <1>4, <1>5, <1>7, SpacedPart DEF w
<1>9. ~c.before
  BY <1>3, <1>4, <1>5, <1>7, <1>8, SpacedPart DEF w
<1> QED
  BY <1>8, <1>9 DEF Spaced

\* A stored scope covers the paths its parts mean with their spaces and no
\* others; of paths without outer spaces only what its trimmed patterns mean, and
\* all of that if no part has a space at an end.
THEOREM ScopesCoverTheirPatterns == Spec => []ScopeMeansItsPatterns
<1>1. IInv => ScopeMeansItsPatterns
  <2> SUFFICES ASSUME IInv, scope # Nil, NEW p \in Paths
               PROVE  LET path == TrimPath(p)
                          allowed == AnyMatch(ParseScope(scope), p)
                          written == \E pattern \in ParseScope(scope) : path \in Language(pattern)
                          meant == \E pattern \in Parse(scope) : path \in Language(pattern)
                      IN  /\ allowed <=> written
                          /\ allowed /\ ~SpaceAtAnEnd(path) => meant
                          /\ (\A i \in DOMAIN scope : ~Spaced(scope[i])) => (allowed <=> meant)
    BY DEF ScopeMeansItsPatterns
  <2>1. p \in Seq(Segment) /\ \A i \in DOMAIN scope : scope[i] \in Part
    BY InputsAssumption DEF IInv, KeyTypeOK
  <2>2. \A pattern \in ParseScope(scope) : pattern \in Seq(Glob)
    BY <2>1, SpacedPart DEF ParseScope
  <2>3. \A pattern \in Parse(scope) : pattern \in Seq(Glob)
    BY <2>1 DEF Parse, Part
  <2>4. \A pattern \in ParseScope(scope) \cup Parse(scope) :
           Match(pattern, p) <=> TrimPath(p) \in Language(pattern)
    BY <2>1, <2>2, <2>3, MatchMeans
  <2>5. ASSUME NEW i \in DOMAIN scope, ~Spaced(scope[i])
        PROVE  /\ AsWritten(scope[i]) = scope[i].pattern
               /\ ~IsEmpty(scope[i]) \/ scope[i].before <=> ~IsEmpty(scope[i])
    BY <2>1, <2>5, SpacedPart DEF Spaced
  <2>6. ASSUME AnyMatch(ParseScope(scope), p), ~SpaceAtAnEnd(TrimPath(p))
        PROVE  AnyMatch(Parse(scope), p)
    <3>1. PICK i \in DOMAIN scope : /\ ~IsEmpty(scope[i]) \/ scope[i].before
                                    /\ Match(AsWritten(scope[i]), p)
      BY <2>6 DEF AnyMatch, ParseScope
    <3>2. ~Spaced(scope[i])
      BY <2>1, <2>6, <3>1, UnspacedPath
    <3> QED
      BY <2>5, <3>1, <3>2 DEF AnyMatch, Parse
  <2>7. ASSUME \A i \in DOMAIN scope : ~Spaced(scope[i])
        PROVE  ParseScope(scope) = Parse(scope)
    BY <2>5, <2>7 DEF ParseScope, Parse
  <2> QED
    BY <2>4, <2>6, <2>7 DEF AnyMatch
<1> QED
  BY <1>1, Invariance, PTL

-----------------------------------------------------------------------------
(* Tags.  What the loop over them returns, by least counterexample: a      *)
(* function that folds a prefix extends to one that folds the next.        *)

Kept(seen, e, skipped) == IF e \in skipped \cup ToSet(seen) THEN seen ELSE Append(seen, e)

\* The value of a fold h at the set u of positions.
Folded(h, u, s, skipped) ==
    IF u = {} THEN <<>> ELSE Kept(h[u \ {Max(u)}], s[Max(u)], skipped)

IsFold(h, D, s, skipped) == h = [u \in D |-> Folded(h, u, s, skipped)]

LEMMA MaxPosition ==
    ASSUME NEW n \in Nat, NEW u \in SUBSET (1 .. n), u # {}
    PROVE  /\ Max(u) \in u /\ \A i \in u : i <= Max(u)
           /\ n \in u => Max(u) = n
<1>1. u \in SUBSET Nat /\ \A i \in u : i <= n
  OBVIOUS
<1>2. Max(u) \in u /\ \A i \in u : Max(u) >= i
  BY <1>1, MaxOfBounded
<1>3. \A i \in u : i \in Nat /\ i <= n
  OBVIOUS
<1>4. Max(u) \in Nat /\ Max(u) <= n
  BY <1>2, <1>3
<1>5. \A i \in u : i <= Max(u)
  BY <1>2, <1>3, <1>4
<1>6. n \in u => Max(u) = n
  BY <1>4, <1>5
<1> QED
  BY <1>2, <1>5, <1>6

LEMMA PrefixFolds ==
    ASSUME NEW s, NEW skipped, NEW N \in Nat
    PROVE  \E h : IsFold(h, SUBSET (1 .. N), s, skipped)
<1> DEFINE T == {n \in Nat : ~ \E h : IsFold(h, SUBSET (1 .. n), s, skipped)}
<1> SUFFICES ASSUME T # {} PROVE FALSE
  OBVIOUS
<1>1. PICK m \in T : \A k \in T : m <= k
  BY LeastNat
<1>2. m # 0
  <2> DEFINE h == [u \in SUBSET (1 .. 0) |-> <<>>]
  <2>1. IsFold(h, SUBSET (1 .. 0), s, skipped)
    BY DEF IsFold, Folded
  <2> HIDE DEF h
  <2> QED
    BY <2>1, <1>1
<1>3. m - 1 \in Nat /\ m - 1 \notin T
  <2>1. m \in Nat /\ m - 1 \in Nat /\ ~(m <= m - 1)
    BY <1>1, <1>2
  <2> HIDE DEF T
  <2> QED
    BY <1>1, <2>1
<1>4. PICK g : IsFold(g, SUBSET (1 .. m - 1), s, skipped)
  BY <1>3
<1> DEFINE Below(u) == u \ {m}
           h == [u \in SUBSET (1 .. m) |->
                   IF m \in u THEN Kept(g[u \ {m}], s[m], skipped) ELSE g[u]]
<1>5. \A u \in SUBSET (1 .. m) : h[u] = Folded(h, u, s, skipped)
  <2> SUFFICES ASSUME NEW u \in SUBSET (1 .. m) PROVE h[u] = Folded(h, u, s, skipped)
    OBVIOUS
  <2>1. CASE m \in u
    <3>1. Max(u) = m /\ u # {}
      BY <2>1, <1>1, MaxPosition
    <3>2. h[u \ {m}] = g[u \ {m}]
      OBVIOUS
    <3> HIDE DEF h
    <3>3. h[u] = Kept(g[u \ {m}], s[m], skipped)
      BY <2>1 DEF h
    <3> QED
      BY <3>1, <3>2, <3>3 DEF Folded
  <2>2. CASE m \notin u
    <3>1. u \in SUBSET (1 .. m - 1)
      BY <2>2, <1>1
    <3>2. g[u] = Folded(g, u, s, skipped)
      BY <3>1, <1>4 DEF IsFold
    <3>3. h[u] = g[u] /\ \A i : h[u \ {i}] = g[u \ {i}]
      BY <2>2
    <3> HIDE DEF h
    <3> QED
      BY <3>2, <3>3 DEF Folded
  <2> QED
    BY <2>1, <2>2
<1>6. IsFold(h, SUBSET (1 .. m), s, skipped)
  <2>1. h = [u \in SUBSET (1 .. m) |-> h[u]]
    OBVIOUS
  <2> HIDE DEF h
  <2> QED
    BY <1>5, <2>1 DEF IsFold
<1> HIDE DEF h
<1> QED
  BY <1>1, <1>6

\* Distinct goes through the positions one by one.
LEMMA DistinctLoops ==
    ASSUME NEW S, NEW s \in Seq(S), NEW skipped
    PROVE  \E D : /\ D[0] = <<>>
                  /\ \A n \in 1 .. Len(s) : D[n] = Kept(D[n - 1], s[n], skipped)
                  /\ Distinct(s, skipped) = D[Len(s)]
<1> DEFINE N == Len(s)
           h == CHOOSE g : IsFold(g, SUBSET DOMAIN s, s, skipped)
           D == [n \in 0 .. N |-> h[1 .. n]]
<1>1. DOMAIN s = 1 .. N /\ N \in Nat
  OBVIOUS
<1>2. Distinct(s, skipped) = h[DOMAIN s]
  BY DEF Distinct, FoldLeft, MapThenFoldSet, Kept, Folded, IsFold
<1> HIDE DEF N
<1>3. IsFold(h, SUBSET (1 .. N), s, skipped)
  BY <1>1, PrefixFolds
<1> HIDE DEF h
<1>4. \A u \in SUBSET (1 .. N) : h[u] = Folded(h, u, s, skipped)
  BY <1>3 DEF IsFold
<1>5. D[0] = <<>>
  <2>1. 1 .. 0 = {} /\ {} \in SUBSET (1 .. N)
    OBVIOUS
  <2>2. h[1 .. 0] = <<>>
    BY <2>1, <1>4 DEF Folded
  <2> QED
    BY <1>1, <2>2
<1>6. ASSUME NEW n \in 1 .. N
      PROVE  D[n] = Kept(D[n - 1], s[n], skipped)
  <2>1. n \in Nat /\ 1 .. n \in SUBSET (1 .. N) /\ 1 .. n # {} /\ n \in 1 .. n
    BY <1>1
  <2>2. Max(1 .. n) = n
    BY <2>1, MaxPosition
  <2>3. (1 .. n) \ {n} = 1 .. n - 1
    BY <2>1
  <2>4. h[1 .. n] = Kept(h[1 .. n - 1], s[n], skipped)
    BY <2>1, <2>2, <2>3, <1>4 DEF Folded
  <2>5. n \in 0 .. N /\ n - 1 \in 0 .. N
    BY <1>1
  <2> QED
    BY <2>4, <2>5
<1>7. D[N] = h[1 .. N]
  BY <1>1
<1> HIDE DEF D
<1> QED
  BY <1>1, <1>2, <1>5, <1>6, <1>7 DEF N

\* What Distinct keeps: elements that are not skipped, each once.
OnceOf(d, s, S, skipped) ==
    /\ d \in Seq(S)
    /\ \A i \in DOMAIN d : d[i] \in ToSet(s) \ skipped
    /\ \A i, j \in DOMAIN d : d[i] = d[j] => i = j

LEMMA KeptOnce ==
    ASSUME NEW S, NEW s \in Seq(S), NEW skipped, NEW d, OnceOf(d, s, S, skipped),
           NEW n \in 1 .. Len(s)
    PROVE  OnceOf(Kept(d, s[n], skipped), s, S, skipped)
<1> DEFINE e == s[n]
<1>1. e \in S /\ e \in ToSet(s)
  BY DEF ToSet
<1> HIDE DEF e
<1>2. CASE e \in skipped \cup ToSet(d)
  BY <1>2 DEF Kept, e
<1>3. CASE e \notin skipped \cup ToSet(d)
  <2> DEFINE a == Append(d, e)
  <2>1. /\ d \in Seq(S) /\ a \in Seq(S) /\ Len(a) = Len(d) + 1 /\ a[Len(d) + 1] = e
        /\ \A i \in 1 .. Len(d) : a[i] = d[i]
        /\ DOMAIN d = 1 .. Len(d) /\ DOMAIN a = 1 .. Len(d) + 1 /\ Len(d) \in Nat
    BY <1>1 DEF OnceOf
  <2>2. \A i \in DOMAIN d : d[i] # e
    BY <1>3 DEF ToSet
  <2>3. Kept(d, e, skipped) = a
    BY <1>3 DEF Kept
  <2> HIDE DEF a
  <2>4. \A i \in DOMAIN a : i \in DOMAIN d \/ i = Len(d) + 1
    BY <2>1
  <2>5. \A i \in DOMAIN a : a[i] \in ToSet(s) \ skipped
    BY <1>1, <1>3, <2>1, <2>4 DEF OnceOf
  <2>6. ASSUME NEW i \in DOMAIN a, NEW j \in DOMAIN a, a[i] = a[j] PROVE i = j
    BY <2>1, <2>2, <2>4, <2>6 DEF OnceOf
  <2> QED
    BY <2>1, <2>3, <2>5, <2>6 DEF OnceOf, e
<1> QED
  BY <1>2, <1>3

LEMMA DistinctOnce ==
    ASSUME NEW S, NEW s \in Seq(S), NEW skipped
    PROVE  OnceOf(Distinct(s, skipped), s, S, skipped)
<1>1. PICK D : /\ D[0] = <<>>
               /\ \A n \in 1 .. Len(s) : D[n] = Kept(D[n - 1], s[n], skipped)
               /\ Distinct(s, skipped) = D[Len(s)]
  BY DistinctLoops
<1> DEFINE T == {n \in 0 .. Len(s) : ~OnceOf(D[n], s, S, skipped)}
<1>2. T = {}
  <2> SUFFICES ASSUME T # {} PROVE FALSE
    OBVIOUS
  <2>1. T \in SUBSET Nat
    OBVIOUS
  <2>2. PICK m \in T : \A k \in T : m <= k
    BY <2>1, LeastNat
  <2>3. m # 0
    <3>1. OnceOf(<<>>, s, S, skipped)
      BY DEF OnceOf
    <3> QED
      BY <1>1, <2>2, <3>1
  <2>4. m \in 1 .. Len(s) /\ m - 1 \in 0 .. Len(s) /\ ~(m <= m - 1)
    BY <2>2, <2>3
  <2>5. OnceOf(D[m - 1], s, S, skipped)
    BY <2>2, <2>4
  <2>6. OnceOf(D[m], s, S, skipped)
    BY <1>1, <2>4, <2>5, KeptOnce
  <2> QED
    BY <2>2, <2>6
<1>3. Len(s) \in 0 .. Len(s)
  OBVIOUS
<1> QED
  BY <1>1, <1>2, <1>3

LEMMA PrefixGrows ==
    ASSUME NEW S, NEW s \in Seq(S), NEW m \in 1 .. Len(s)
    PROVE  Append([i \in 1 .. m - 1 |-> s[i]], s[m]) = [i \in 1 .. m |-> s[i]]
<1> DEFINE Prefix(n) == [i \in 1 .. n |-> s[i]]
           a == Append(Prefix(m - 1), s[m])
<1>1. Prefix(m - 1) \in Seq(S) /\ Len(Prefix(m - 1)) = m - 1
  OBVIOUS
<1>2. /\ a \in Seq(S) /\ Len(a) = m /\ a[m] = s[m]
      /\ \A i \in 1 .. m - 1 : a[i] = Prefix(m - 1)[i]
  BY <1>1
<1>3. Prefix(m) \in Seq(S) /\ Len(Prefix(m)) = m
  OBVIOUS
<1> HIDE DEF a
<1>4. \A i \in 1 .. m : a[i] = Prefix(m)[i]
  BY <1>2
<1> HIDE DEF Prefix
<1>5. a = Prefix(m)
  BY <1>2, <1>3, <1>4, SeqEqual
<1> QED
  BY <1>5 DEF a, Prefix

\* A sequence without repetitions, none of which is skipped, stays as it is.
LEMMA DistinctStays ==
    ASSUME NEW S, NEW s \in Seq(S), NEW skipped,
           \A i \in DOMAIN s : s[i] \notin skipped,
           \A i, j \in DOMAIN s : s[i] = s[j] => i = j
    PROVE  Distinct(s, skipped) = s
<1>1. DOMAIN s = 1 .. Len(s) /\ Len(s) \in Nat
  OBVIOUS
<1>2. PICK D : /\ D[0] = <<>>
               /\ \A n \in 1 .. Len(s) : D[n] = Kept(D[n - 1], s[n], skipped)
               /\ Distinct(s, skipped) = D[Len(s)]
  BY DistinctLoops
<1> DEFINE Prefix(n) == [i \in 1 .. n |-> s[i]]
           T == {n \in 0 .. Len(s) : D[n] # Prefix(n)}
<1>3. T = {}
  <2> SUFFICES ASSUME T # {} PROVE FALSE
    OBVIOUS
  <2>1. T \in SUBSET Nat
    OBVIOUS
  <2>2. PICK m \in T : \A k \in T : m <= k
    BY <2>1, LeastNat
  <2>3. m # 0
    <3>1. Prefix(0) = <<>>
      OBVIOUS
    <3> QED
      BY <1>2, <2>2, <3>1
  <2>4. m \in 1 .. Len(s) /\ m - 1 \in 0 .. Len(s) /\ ~(m <= m - 1)
    BY <2>2, <2>3
  <2>5. D[m - 1] = Prefix(m - 1)
    BY <2>2, <2>4
  <2>6. /\ Prefix(m - 1) \in Seq(S) /\ Len(Prefix(m - 1)) = m - 1
        /\ s[m] \in S /\ m \in DOMAIN s
    BY <1>1, <2>4
  <2>7. s[m] \notin skipped \cup ToSet(Prefix(m - 1))
    <3> SUFFICES ASSUME NEW i \in 1 .. m - 1, s[m] = s[i] PROVE FALSE
      BY <2>6 DEF ToSet
    <3>1. i \in DOMAIN s /\ i # m
      BY <1>1, <2>4
    <3> QED
      BY <2>6, <3>1
  <2>8. D[m] = Append(Prefix(m - 1), s[m])
    BY <1>2, <2>4, <2>5, <2>7 DEF Kept
  <2>9. Append(Prefix(m - 1), s[m]) = Prefix(m)
    BY <1>1, <2>4, PrefixGrows
  <2> QED
    BY <2>2, <2>8, <2>9
<1>4. D[Len(s)] = Prefix(Len(s))
  <2>1. Len(s) \in 0 .. Len(s)
    BY <1>1
  <2> HIDE DEF Prefix
  <2> QED
    BY <1>3, <2>1
<1>5. Prefix(Len(s)) = s
  BY <1>1
<1> HIDE DEF Prefix
<1> QED
  BY <1>2, <1>4, <1>5

-----------------------------------------------------------------------------
(* FlattenSeq, in the same way.                                            *)

Flattens(f, n, seqs) ==
    f = [i \in 1 .. n |-> IF i = 1 THEN seqs[i] ELSE f[i - 1] \o seqs[i]]

LEMMA FlattenExists ==
    ASSUME NEW seqs, NEW N \in Nat
    PROVE  \E f : Flattens(f, N, seqs)
<1> DEFINE T == {n \in Nat : ~ \E f : Flattens(f, n, seqs)}
<1> SUFFICES ASSUME T # {} PROVE FALSE
  OBVIOUS
<1>1. PICK m \in T : \A k \in T : m <= k
  BY LeastNat
<1>2. m # 0
  <2> DEFINE f == [i \in 1 .. 0 |-> seqs[i]]
  <2>1. Flattens(f, 0, seqs)
    BY DEF Flattens
  <2> HIDE DEF f
  <2> QED
    BY <2>1, <1>1
<1>3. m \in Nat /\ m - 1 \in Nat /\ m - 1 \notin T
  <2>1. m \in Nat /\ m - 1 \in Nat /\ ~(m <= m - 1)
    BY <1>1, <1>2
  <2> HIDE DEF T
  <2> QED
    BY <1>1, <2>1
<1>4. PICK g : Flattens(g, m - 1, seqs)
  BY <1>3
<1> DEFINE f == [i \in 1 .. m |->
                   IF i = 1 THEN seqs[i] ELSE g[i - 1] \o seqs[i]]
<1>5. \A i \in 1 .. m - 1 : f[i] = g[i]
  <2> SUFFICES ASSUME NEW i \in 1 .. m - 1 PROVE f[i] = g[i]
    OBVIOUS
  <2>1. g[i] = IF i = 1 THEN seqs[i] ELSE g[i - 1] \o seqs[i]
    BY <1>4 DEF Flattens
  <2>2. i \in 1 .. m
    BY <1>3
  <2> QED
    BY <2>1, <2>2
<1>6. \A i \in 1 .. m : f[i] = IF i = 1 THEN seqs[i] ELSE f[i - 1] \o seqs[i]
  <2> SUFFICES ASSUME NEW i \in 1 .. m
               PROVE  f[i] = IF i = 1 THEN seqs[i] ELSE f[i - 1] \o seqs[i]
    OBVIOUS
  <2>1. f[i] = IF i = 1 THEN seqs[i] ELSE g[i - 1] \o seqs[i]
    OBVIOUS
  <2>2. i # 1 => i - 1 \in 1 .. m - 1
    BY <1>3
  <2> HIDE DEF f
  <2> QED
    BY <1>5, <2>1, <2>2
<1>7. f = [i \in 1 .. m |-> f[i]]
  OBVIOUS
<1> HIDE DEF f
<1>8. Flattens(f, m, seqs)
  BY <1>6, <1>7 DEF Flattens
<1> QED
  BY <1>1, <1>8

LEMMA FlattenLoops ==
    ASSUME NEW seqs, NEW N \in Nat \ {0}, Len(seqs) = N
    PROVE  \E f : /\ f[1] = seqs[1]
                  /\ \A i \in 2 .. N : f[i] = f[i - 1] \o seqs[i]
                  /\ FlattenSeq(seqs) = f[N]
<1> DEFINE f == CHOOSE g : Flattens(g, N, seqs)
<1>1. FlattenSeq(seqs) = f[N]
  BY DEF FlattenSeq, Flattens
<1>2. Flattens(f, N, seqs)
  BY FlattenExists
<1> HIDE DEF f
<1>3. \A i \in 1 .. N : f[i] = IF i = 1 THEN seqs[i] ELSE f[i - 1] \o seqs[i]
  BY <1>2 DEF Flattens
<1>4. 1 \in 1 .. N /\ \A i \in 2 .. N : i \in 1 .. N /\ i # 1
  OBVIOUS
<1> QED
  BY <1>1, <1>3, <1>4

LEMMA FlattenTyped ==
    ASSUME NEW S, NEW seqs \in Seq(Seq(S))
    PROVE  FlattenSeq(seqs) \in Seq(S)
<1>1. CASE seqs = <<>>
  BY <1>1 DEF FlattenSeq
<1>2. CASE seqs # <<>>
  <2> DEFINE N == Len(seqs)
  <2>1. N \in Nat \ {0} /\ \A i \in 1 .. N : seqs[i] \in Seq(S)
    BY <1>2
  <2> HIDE DEF N
  <2>2. PICK f : /\ f[1] = seqs[1]
                 /\ \A i \in 2 .. N : f[i] = f[i - 1] \o seqs[i]
                 /\ FlattenSeq(seqs) = f[N]
    BY <2>1, FlattenLoops DEF N
  <2> DEFINE T == {n \in 1 .. N : f[n] \notin Seq(S)}
  <2>3. T = {}
    <3> SUFFICES ASSUME T # {} PROVE FALSE
      OBVIOUS
    <3>0. T \in SUBSET Nat
      BY <2>1
    <3>1. PICK m \in T : \A k \in T : m <= k
      BY <3>0, LeastNat
    <3>2. m # 1
      BY <2>1, <2>2, <3>1
    <3>3. m \in 2 .. N /\ m \in 1 .. N /\ m - 1 \in 1 .. N /\ ~(m <= m - 1)
      BY <2>1, <3>1, <3>2
    <3>4. f[m - 1] \in Seq(S)
      BY <3>1, <3>3
    <3>5. seqs[m] \in Seq(S)
      BY <2>1, <3>3
    <3>6. f[m] \in Seq(S)
      <4>1. f[m] = f[m - 1] \o seqs[m]
        BY <2>2, <3>3
      <4> QED
        BY <3>4, <3>5, <4>1, ConcatProperties
    <3> QED
      BY <3>1, <3>6
  <2>4. N \in 1 .. N
    BY <2>1
  <2> QED
    BY <2>2, <2>3, <2>4
<1> QED
  BY <1>1, <1>2

LEMMA FlattenSingles ==
    ASSUME NEW S, NEW q \in Seq(S),
           NEW seqs \in Seq(Seq(S)), Len(seqs) = Len(q),
           \A i \in 1 .. Len(q) : seqs[i] = <<q[i]>>
    PROVE  FlattenSeq(seqs) = q
<1>1. CASE q = <<>>
  <2>1. seqs = <<>>
    BY <1>1
  <2> QED
    BY <1>1, <2>1 DEF FlattenSeq
<1>2. CASE q # <<>>
  <2> DEFINE N == Len(q)
             Prefix(n) == [i \in 1 .. n |-> q[i]]
  <2>1. /\ N \in Nat \ {0} /\ Len(seqs) = N /\ DOMAIN q = 1 .. N
        /\ \A i \in 1 .. N : q[i] \in S /\ seqs[i] = <<q[i]>>
    <3>1. N \in Nat \ {0} /\ Len(seqs) = N /\ DOMAIN q = 1 .. N
      BY <1>2
    <3>2. \A i \in 1 .. N : q[i] \in S
      OBVIOUS
    <3> QED
      BY <3>1, <3>2
  <2>2. \A n \in 1 .. N : Prefix(n) \in Seq(S) /\ Len(Prefix(n)) = n
    BY <2>1
  <2>3. Prefix(N) = q
    BY <2>1
  <2> HIDE DEF N
  <2>4. PICK f : /\ f[1] = seqs[1]
                 /\ \A i \in 2 .. N : f[i] = f[i - 1] \o seqs[i]
                 /\ FlattenSeq(seqs) = f[N]
    <3>1. N \in Nat \ {0} /\ Len(seqs) = N
      BY <2>1
    <3> QED
      BY <3>1, FlattenLoops
  <2> DEFINE T == {n \in 1 .. N : f[n] # Prefix(n)}
  <2>5. T = {}
    <3> SUFFICES ASSUME T # {} PROVE FALSE
      OBVIOUS
    <3>0. T \in SUBSET Nat
      BY <2>1
    <3>1. PICK m \in T : \A k \in T : m <= k
      BY <3>0, LeastNat
    <3>2. m # 1
      <4>1. 1 \in 1 .. N
        BY <2>1
      <4>2. Prefix(1) = <<q[1]>>
        OBVIOUS
      <4> QED
        BY <2>1, <2>4, <3>1, <4>1, <4>2
    <3>3. m \in 2 .. N /\ m \in 1 .. N /\ m - 1 \in 1 .. N /\ ~(m <= m - 1)
      BY <2>1, <3>1, <3>2
    <3>4. f[m] = Prefix(m - 1) \o <<q[m]>>
      <4>1. f[m - 1] = Prefix(m - 1)
        BY <3>1, <3>3
      <4>2. seqs[m] = <<q[m]>> /\ f[m] = f[m - 1] \o seqs[m]
        BY <2>1, <2>4, <3>3
      <4> HIDE DEF Prefix
      <4> QED
        BY <4>1, <4>2
    <3>5. Prefix(m - 1) \o <<q[m]>> = Prefix(m)
      <4>1. Prefix(m - 1) \in Seq(S) /\ q[m] \in S /\ m \in 1 .. Len(q)
        <5>1. Prefix(m - 1) \in Seq(S)
          BY <2>1, <3>3
        <5> QED
          BY <2>1, <3>3, <5>1 DEF N
      <4>2. Append(Prefix(m - 1), q[m]) = Prefix(m)
        BY <4>1, PrefixGrows
      <4> HIDE DEF Prefix
      <4> QED
        BY <4>1, <4>2, AppendIsConcat
    <3> QED
      BY <3>1, <3>4, <3>5
  <2>6. N \in 1 .. N
    BY <2>1
  <2> HIDE DEF Prefix
  <2> QED
    BY <2>3, <2>4, <2>5, <2>6
<1> QED
  BY <1>1, <1>2
-----------------------------------------------------------------------------
(* What stored tags are like.                                              *)

\* Tags that NormalizeTags leaves as they are.
NormalTags(t) ==
    /\ t \in Seq(Text \ TooLong) /\ Len(t) <= MaxTags
    /\ \A i, j \in DOMAIN t : t[i] = t[j] => i = j

LEMMA TextsTyped ==
    ASSUME NEW string \in Seq(Piece)
    PROVE  /\ Texts(string) \in Seq(Text \cup {Empty})
           /\ Len(Texts(string)) = Len(string)
<1>1. \A i \in DOMAIN string : string[i].text \in Text \cup {Empty}
  <2> SUFFICES ASSUME NEW i \in DOMAIN string PROVE string[i].text \in Text \cup {Empty}
    OBVIOUS
  <2>1. string[i] \in Piece
    OBVIOUS
  <2> QED
    BY <2>1 DEF Piece
<1> QED
  BY <1>1 DEF Texts

LEMMA AsStringTyped ==
    ASSUME NEW t \in Seq(Text \cup {Empty})
    PROVE  AsString(t) \in Seq(Piece)
<1>1. \A x \in Text \cup {Empty} : Unspaced(x) \in Piece
  BY DEF Piece, Unspaced
<1>2. EmptyString \in Seq(Piece)
  BY <1>1 DEF EmptyString
<1>3. [i \in DOMAIN t |-> Unspaced(t[i])] \in Seq(Piece)
  BY <1>1
<1> QED
  BY <1>2, <1>3 DEF AsString

LEMMA NormalizedIsNormal ==
    ASSUME NEW string \in Seq(Piece), NormalizeTags(string) # Rejected
    PROVE  NormalTags(NormalizeTags(string))
<1> DEFINE s == Texts(string)
           d == Distinct(s, {Empty})
<1>1. s \in Seq(Text \cup {Empty})
  BY TextsTyped
<1>2. OnceOf(d, s, Text \cup {Empty}, {Empty})
  BY <1>1, DistinctOnce
<1>3. NormalizeTags(string) = d /\ ~(Len(d) > MaxTags) /\ ToSet(d) \cap TooLong = {}
  BY DEF NormalizeTags, Limited
<1> HIDE DEF d, s
<1>4. d \in Seq(Text \cup {Empty}) /\ Len(d) \in Nat /\ DOMAIN d = 1 .. Len(d)
  BY <1>2 DEF OnceOf
<1>5. \A i \in DOMAIN d : d[i] \in Text \ TooLong
  BY <1>2, <1>3, <1>4 DEF OnceOf, ToSet
<1>6. d \in Seq(Text \ TooLong)
  BY <1>4, <1>5
<1>7. Len(d) <= MaxTags
  BY <1>3, <1>4, MetadataAssumption
<1> QED
  BY <1>2, <1>3, <1>6, <1>7 DEF NormalTags, OnceOf

LEMMA NormalStays ==
    ASSUME NEW t, NormalTags(t)
    PROVE  NormalizeTags(AsString(t)) = t
<1>1. /\ t \in Seq(Text \ TooLong) /\ Len(t) \in Nat
      /\ \A i \in DOMAIN t : t[i] \in Text /\ t[i] \notin TooLong
  BY DEF NormalTags
<1>2. Limited(t) = t
  BY <1>1, MetadataAssumption DEF Limited, NormalTags, ToSet
<1>3. CASE t = <<>>
  <2> DEFINE s == Texts(EmptyString)
             d == Distinct(s, {Empty})
  <2>1. s \in Seq({Empty}) /\ \A i \in DOMAIN s : s[i] = Empty
    BY DEF Texts, EmptyString, Unspaced
  <2>2. OnceOf(d, s, {Empty}, {Empty})
    BY <2>1, DistinctOnce
  <2>3. NormalizeTags(AsString(t)) = Limited(d)
    BY <1>3 DEF NormalizeTags, AsString
  <2> HIDE DEF d, s
  <2>4. d = <<>>
    <3>1. DOMAIN d = {}
      BY <2>1, <2>2 DEF OnceOf, ToSet
    <3>2. d \in Seq({Empty})
      BY <2>2 DEF OnceOf
    <3> QED
      BY <3>1, <3>2
  <2> QED
    BY <1>2, <1>3, <2>3, <2>4
<1>4. CASE t # <<>>
  <2>1. Texts(AsString(t)) = t
    BY <1>1, <1>4 DEF Texts, AsString, Unspaced
  <2>2. \A i \in DOMAIN t : t[i] \notin {Empty}
    BY <1>1, MetadataAssumption
  <2>3. Distinct(t, {Empty}) = t
    BY <1>1, <2>2, DistinctStays DEF NormalTags
  <2> QED
    BY <1>2, <2>1, <2>3 DEF NormalizeTags
<1> QED
  BY <1>3, <1>4

-----------------------------------------------------------------------------
(* Merging.  A string that is one tag is determined by its text.           *)

OneTag == {<<Unspaced(x)>> : x \in (Text \cup {Empty}) \ TooLong}

LEMMA TrimSpaceTyped ==
    ASSUME NEW string \in Seq(Piece)
    PROVE  TrimSpace(string) \in Seq(Piece)
<1> DEFINE before(i) == string[i].before /\ i > 1 /\ ~(i = Len(string) /\ string[i].text = Empty)
           after(i) == string[i].after /\ i < Len(string)
           p(i) == [text |-> string[i].text, before |-> before(i), after |-> after(i)]
<1>1. ASSUME NEW i \in DOMAIN string PROVE p(i) \in Piece
  <2>1. string[i] \in Piece
    OBVIOUS
  <2>2. /\ string[i].text \in Text \cup {Empty}
        /\ string[i].text = Empty => ~string[i].after
    BY <2>1 DEF Piece
  <2>3. before(i) \in BOOLEAN /\ after(i) \in BOOLEAN
    OBVIOUS
  <2>4. string[i].text = Empty => ~after(i)
    BY <2>2
  <2> HIDE DEF before, after
  <2> QED
    BY <2>2, <2>3, <2>4 DEF Piece
<1>2. TrimSpace(string) = [i \in DOMAIN string |-> p(i)]
  BY DEF TrimSpace
<1> HIDE DEF p
<1> QED
  BY <1>1, <1>2

LEMMA PlainIsOneTag ==
    ASSUME NEW string \in Seq(Piece), Plain(string)
    PROVE  TrimSpace(string) \in OneTag
<1>1. Len(string) = 1 /\ string[1] \in Piece /\ string[1].text \notin TooLong
  BY DEF Plain
<1>2. string[1].text \in (Text \cup {Empty}) \ TooLong
  BY <1>1 DEF Piece
<1> DEFINE before == string[1].before /\ 1 > 1 /\ ~(1 = Len(string) /\ string[1].text = Empty)
           after == string[1].after /\ 1 < Len(string)
<1>3. before = FALSE /\ after = FALSE
  BY <1>1
<1>4. TrimSpace(string)
        = [i \in {1} |-> [text |-> string[1].text, before |-> before, after |-> after]]
  <2>1. DOMAIN string = {1}
    BY <1>1
  <2> QED
    BY <2>1 DEF TrimSpace
<1> HIDE DEF before, after
<1>5. TrimSpace(string) = <<Unspaced(string[1].text)>>
  <2> DEFINE p == Unspaced(string[1].text)
  <2>1. [text |-> string[1].text, before |-> before, after |-> after] = p
    BY <1>3 DEF Unspaced
  <2>2. TrimSpace(string) = [i \in {1} |-> p]
    BY <1>4, <2>1, Zenon
  <2> HIDE DEF p
  <2>3. [i \in {1} |-> p] = <<p>>
    OBVIOUS
  <2> QED
    BY <2>2, <2>3 DEF p
<1> QED
  BY <1>2, <1>5 DEF OneTag

LEMMA MergedTyped ==
    ASSUME NEW base \in Seq(Text \cup {Empty}), NEW add \in Seq(Seq(Piece)), NEW remove,
           MergeTags(base, add, remove) # Rejected
    PROVE  MergeTags(base, add, remove) \in Seq(Text \cup {Empty})
<1> DEFINE s == Elements(base) \o Trimmed(add)
           skipped == {EmptyString} \cup ToSet(remove)
           d == Distinct(s, skipped)
<1>1. Elements(base) \in Seq(Seq(Piece))
  <2>1. \A x \in Text \cup {Empty} : <<Unspaced(x)>> \in Seq(Piece)
    BY DEF Piece, Unspaced
  <2> QED
    <3>1. DOMAIN base = 1 .. Len(base) /\ Len(base) \in Nat
      OBVIOUS
    <3>2. \A i \in 1 .. Len(base) : <<Unspaced(base[i])>> \in Seq(Piece)
      BY <2>1
    <3> QED
      BY <3>1, <3>2 DEF Elements
<1>2. Trimmed(add) \in Seq(Seq(Piece))
  <2>1. \A i \in DOMAIN add : TrimSpace(add[i]) \in Seq(Piece)
    BY TrimSpaceTyped
  <2> QED
    BY <2>1 DEF Trimmed
<1>3. s \in Seq(Seq(Piece))
  BY <1>1, <1>2
<1>4. d \in Seq(Seq(Piece))
  BY <1>3, DistinctOnce DEF OnceOf
<1>5. MergeTags(base, add, remove) = Texts(FlattenSeq(d))
  BY DEF MergeTags, Merged
<1> HIDE DEF d
<1> QED
  BY <1>4, <1>5, FlattenTyped, TextsTyped

LEMMA MergedIsNormal ==
    ASSUME NEW base, NormalTags(base), NEW add \in Seq(Seq(Piece)), NEW remove,
           \A i \in DOMAIN add : Plain(add[i]),
           MergeTags(base, add, remove) # Rejected
    PROVE  NormalTags(MergeTags(base, add, remove))
<1> DEFINE s == Elements(base) \o Trimmed(add)
           skipped == {EmptyString} \cup ToSet(remove)
           d == Distinct(s, skipped)
<1>1. Elements(base) \in Seq(OneTag)
  <2>1. base \in Seq(Text \ TooLong) /\ \A i \in DOMAIN base : base[i] \in Text \ TooLong
    BY DEF NormalTags
  <2>2. \A i \in DOMAIN base : <<Unspaced(base[i])>> \in OneTag
    BY <2>1 DEF OneTag
  <2> QED
    BY <2>1, <2>2 DEF Elements
<1>2. Trimmed(add) \in Seq(OneTag)
  <2>1. \A i \in DOMAIN add : TrimSpace(add[i]) \in OneTag
    BY PlainIsOneTag
  <2> QED
    <3>1. DOMAIN add = 1 .. Len(add) /\ Len(add) \in Nat
      OBVIOUS
    <3> QED
      BY <2>1, <3>1 DEF Trimmed
<1>3. s \in Seq(OneTag)
  BY <1>1, <1>2
<1>4. OnceOf(d, s, OneTag, skipped)
  BY <1>3, DistinctOnce
<1>5. MergeTags(base, add, remove) = Texts(FlattenSeq(d)) /\ ~(Len(d) > MaxTags)
  BY DEF MergeTags, Merged
<1>6. EmptyString \in skipped
  OBVIOUS
<1> HIDE DEF d, s, skipped
<1>7. d \in Seq(OneTag) /\ Len(d) \in Nat /\ DOMAIN d = 1 .. Len(d) /\ Len(d) <= MaxTags
  BY <1>4, <1>5, MetadataAssumption DEF OnceOf
<1> DEFINE q == [i \in DOMAIN d |-> d[i][1]]
           t == [i \in DOMAIN d |-> d[i][1].text]
<1>8. ASSUME NEW i \in DOMAIN d
      PROVE  /\ d[i] = <<Unspaced(t[i])>>
             /\ t[i] \in Text \ TooLong /\ q[i] \in Piece /\ q[i].text = t[i]
             /\ d[i] = <<q[i]>> /\ d[i] \in Seq(Piece)
  <2>1. d[i] \in OneTag /\ d[i] # EmptyString
    BY <1>4, <1>6, <1>7 DEF OnceOf
  <2>2. PICK x \in (Text \cup {Empty}) \ TooLong : d[i] = <<Unspaced(x)>>
    BY <2>1 DEF OneTag
  <2>3. x # Empty /\ x \in Text \ TooLong
    BY <2>1, <2>2 DEF EmptyString
  <2>4. d[i][1] = Unspaced(x) /\ d[i][1].text = x
    BY <2>2 DEF Unspaced
  <2>5. Unspaced(x) \in Piece
    BY <2>3 DEF Piece, Unspaced
  <2>6. q[i] = Unspaced(x) /\ t[i] = x
    BY <2>4
  <2> HIDE DEF q, t
  <2> QED
    BY <2>2, <2>3, <2>5, <2>6 DEF Unspaced
<1>9. q \in Seq(Piece) /\ Len(q) = Len(d) /\ DOMAIN q = DOMAIN d
  BY <1>7, <1>8
<1>10. t \in Seq(Text \ TooLong) /\ Len(t) = Len(d) /\ DOMAIN t = DOMAIN d
  BY <1>7, <1>8
<1>11. \A i, j \in DOMAIN d : t[i] = t[j] => i = j
  <2> SUFFICES ASSUME NEW i \in DOMAIN d, NEW j \in DOMAIN d, t[i] = t[j] PROVE i = j
    OBVIOUS
  <2> HIDE DEF t
  <2>1. d[i] = d[j]
    BY <1>8
  <2> QED
    BY <1>4, <2>1 DEF OnceOf
<1>12. d \in Seq(Seq(Piece))
  BY <1>7, <1>8
<1>13. Texts(q) = t
  BY <1>9, <1>8 DEF Texts
<1> HIDE DEF q, t
<1>14. FlattenSeq(d) = q
  BY <1>7, <1>8, <1>9, <1>12, FlattenSingles
<1> QED
  BY <1>5, <1>7, <1>10, <1>11, <1>13, <1>14 DEF NormalTags

-----------------------------------------------------------------------------
(* What is stored stays normal: an annotation starts from normal tags and  *)
(* adds none that is too long or has a comma, unless clean is FALSE.       *)

SecretInv ==
    /\ clean \in BOOLEAN
    /\ \/ tags = Nil /\ metadata = Nil
       \/ /\ tags \in Seq(Text \cup {Empty})
          /\ metadata \in Object
          /\ clean => NormalTags(tags)
          /\ NormalizeMetadata(metadata) = metadata

LEMMA NormalMetadataStays ==
    ASSUME NEW object, NormalizeMetadata(object) # Rejected
    PROVE  NormalizeMetadata(NormalizeMetadata(object)) = NormalizeMetadata(object)
<1>1. NormalizeMetadata(object) = object
  BY DEF NormalizeMetadata
<1> QED
  BY <1>1

LEMMA MergedObject ==
    ASSUME NEW base \in Object, NEW set \in Object, NEW unset
    PROVE  \E object \in Object : MergeMetadata(base, set, unset) = NormalizeMetadata(object)
<1> DEFINE keys == (DOMAIN base \ unset) \cup DOMAIN set
           object == [k \in keys |-> IF k \in DOMAIN set THEN set[k] ELSE base[k]]
<1>1. PICK kb \in SUBSET MetaKey : base \in [kb -> MetaValue]
  BY DEF Object
<1>2. PICK ks \in SUBSET MetaKey : set \in [ks -> MetaValue]
  BY DEF Object
<1>3. keys \in SUBSET MetaKey /\ object \in [keys -> MetaValue]
  BY <1>1, <1>2
<1>4. object \in Object
  BY <1>3 DEF Object
<1>5. MergeMetadata(base, set, unset) = NormalizeMetadata(object)
  BY DEF MergeMetadata
<1> QED
  BY <1>4, <1>5

LEMMA StoreInv ==
    ASSUME NEW newTags, NEW object \in Object, Store(newTags, NormalizeMetadata(object)),
           newTags \in Seq(Text \cup {Empty}), clean' \in BOOLEAN,
           clean' => NormalTags(newTags)
    PROVE  SecretInv'
<1>1. /\ tags' = newTags /\ metadata' = NormalizeMetadata(object)
      /\ NormalizeMetadata(object) # Rejected
  BY DEF Store, Accepted
<1>2. NormalizeMetadata(metadata') = metadata'
  BY <1>1, NormalMetadataStays
<1>3. metadata' \in Object
  BY <1>1 DEF NormalizeMetadata
<1> QED
  BY <1>1, <1>2, <1>3 DEF SecretInv

\* What is normal is a sequence of texts.
LEMMA NormalTyped ==
    ASSUME NEW t, NormalTags(t)
    PROVE  t \in Seq(Text \cup {Empty})
BY DEF NormalTags

LEMMA NormalizedInv ==
    ASSUME NEW string \in Seq(Piece), NEW object \in Object, clean' = TRUE,
           Store(NormalizeTags(string), NormalizeMetadata(object))
    PROVE  SecretInv'
<1>1. NormalizeTags(string) # Rejected
  BY DEF Store, Accepted
<1>2. NormalTags(NormalizeTags(string))
  BY <1>1, NormalizedIsNormal
<1> QED
  BY <1>2, NormalTyped, StoreInv

LEMMA PutSecretInv == ASSUME PutSecret PROVE SecretInv'
<1>1. PICK array \in Arrays, object \in Object :
        /\ Store(NormalizeTags(FlattenSeq(array)), NormalizeMetadata(object))
        /\ clean' = TRUE
  BY DEF PutSecret
<1>2. FlattenSeq(array) \in Seq(Piece)
  BY InputsAssumption, FlattenTyped
<1> QED
  BY <1>1, <1>2, NormalizedInv

LEMMA SaveFormInv == ASSUME SecretInv, SaveForm PROVE SecretInv'
<1>1. PICK object \in Object, csv \in Strings \cup Prefilled :
        /\ Store(NormalizeTags(csv), NormalizeMetadata(object))
        /\ clean' = TRUE
  BY DEF SaveForm
<1>2. csv \in Seq(Piece)
  <2>1. CASE csv \in Strings
    BY <2>1, InputsAssumption
  <2>2. CASE csv \in Prefilled
    BY <2>2, AsStringTyped DEF Prefilled, SecretInv
  <2> QED
    BY <2>1, <2>2
<1> QED
  BY <1>1, <1>2, NormalizedInv

LEMMA HandleAnnotateInv == ASSUME SecretInv, HandleAnnotate PROVE SecretInv'
<1>1. PICK add \in Arrays, remove \in Arrays, set \in Object, unset \in SUBSET MetaKey :
        /\ Store(MergeTags(tags, add, remove), MergeMetadata(metadata, set, unset))
        /\ clean' = (clean /\ \A i \in DOMAIN add : Plain(add[i]))
  BY DEF HandleAnnotate
<1> DEFINE merged == MergeTags(tags, add, remove)
<1>2. /\ add \in Seq(Seq(Piece)) /\ tags \in Seq(Text \cup {Empty}) /\ metadata \in Object
      /\ clean => NormalTags(tags)
  BY InputsAssumption DEF HandleAnnotate, SecretInv
<1>3. merged # Rejected
  BY <1>1 DEF Store, Accepted
<1>4. merged \in Seq(Text \cup {Empty})
  BY <1>2, <1>3, MergedTyped
<1>5. clean' => NormalTags(merged)
  <2> SUFFICES ASSUME clean' PROVE NormalTags(merged)
    OBVIOUS
  <2>1. clean /\ \A i \in DOMAIN add : Plain(add[i])
    BY <1>1
  <2> QED
    BY <1>2, <1>3, <2>1, MergedIsNormal
<1>6. PICK object \in Object :
        MergeMetadata(metadata, set, unset) = NormalizeMetadata(object)
  BY <1>2, MergedObject
<1>7. clean' \in BOOLEAN
  BY <1>1
<1> HIDE DEF merged
<1> QED
  BY <1>1, <1>4, <1>5, <1>6, <1>7, StoreInv DEF merged

LEMMA SecretStep == ASSUME SecretInv, [Next]_vars PROVE SecretInv'
<1>1. CASE UNCHANGED secret
  BY <1>1 DEF secret, SecretInv
<1>2. CASE DeleteSecret
  BY <1>2 DEF DeleteSecret, SecretInv
<1>3. CASE CreateKey \/ UpdateKey \/ SaveKeyForm \/ Tick \/ UNCHANGED vars
  BY <1>1, <1>3 DEF CreateKey, UpdateKey, SaveKeyForm, Tick, OfKey, vars
<1> QED
  BY <1>2, <1>3, PutSecretInv, SaveFormInv, HandleAnnotateInv DEF Next

THEOREM SecretInvariance == Spec => []SecretInv
<1>1. Init => SecretInv
  BY DEF Init, SecretInv
<1> QED
  BY <1>1, SecretStep, PTL DEF Spec

\* Stored tags are in the normal form, so that the form can be saved as it was
\* opened, unless an annotation added a tag that is too long or has a comma;
\* stored metadata is within its limits.
THEOREM TagsAreNormal == Spec => []TagsStayNormal
<1>1. SecretInv => TagsStayNormal
  BY NormalStays DEF SecretInv, TagsStayNormal
<1> QED
  BY <1>1, SecretInvariance, PTL

-----------------------------------------------------------------------------
(* Types. *)

ClockOK == about \in {"secret", "key"} /\ now \in Epoch .. LastTick

LEMMA ClockStep == ASSUME ClockOK, [Next]_vars PROVE ClockOK'
<1>1. CASE UNCHANGED <<about, now>>
  BY <1>1 DEF ClockOK
<1>2. CASE Tick
  BY <1>2, InputsAssumption DEF Tick, ClockOK
<1>3. CASE PutSecret \/ SaveForm \/ HandleAnnotate \/ DeleteSecret \/ UNCHANGED vars
  BY <1>1, <1>3 DEF PutSecret, SaveForm, HandleAnnotate, DeleteSecret, Store, OfSecret, key, vars
<1>4. CASE CreateKey \/ UpdateKey \/ SaveKeyForm
  BY <1>1, <1>4 DEF CreateKey, UpdateKey, SaveKeyForm, OfKey
<1> QED
  BY <1>2, <1>3, <1>4 DEF Next

\* What the columns hold of a secret and of a key has the types of the code.
THEOREM TypeCorrect == Spec => []TypeOK
<1>1. Init => ClockOK
  BY InputsAssumption DEF Init, ClockOK
<1>2. ClockOK /\ SecretInv /\ IInv => TypeOK
  BY InputsAssumption DEF ClockOK, SecretInv, IInv, KeyTypeOK, TypeOK
<1> QED
  BY <1>1, <1>2, ClockStep, SecretInvariance, Invariance, PTL DEF Spec
=============================================================================
