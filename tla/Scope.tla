------------------------------- MODULE Scope -------------------------------
(***************************************************************************)
(* internal/scope and auth.parseScope: which paths a key's scope covers.   *)
(*                                                                         *)
(* Paths and patterns are the sequences of what lies between their         *)
(* slashes.  A segment of a pattern is a glob, known by the segments it    *)
(* matches (path.Match).                                                   *)
(***************************************************************************)
EXTENDS Naturals, SequencesExt

CONSTANTS
    Segment,      \* segments of paths
    Blank,        \* the empty one, on either side of a slash at an end
    AfterSpace,   \* of each that begins with a space, what comes after it
    BeforeSpace   \* of each that ends with a space, what comes before it

ASSUME ScopeAssumption ==
    /\ Blank \in Segment
    /\ \A f \in {AfterSpace, BeforeSpace} :
          f \in [DOMAIN f -> Segment] /\ DOMAIN f \subseteq Segment \ {Blank}

\* path.Match on one segment: a literal matches itself, "*" every segment.
Glob == SUBSET Segment
Star == Segment
PathMatch(glob, s) == s \in glob

\* strings.Trim(s, "/"), where e is what an end slash has outside.
Trim(s, e) ==
    LET inner == {i \in DOMAIN s : s[i] # e}
    IN  IF inner = {} THEN <<e>> ELSE SubSeq(s, Min(inner), Max(inner))

TrimPattern(pattern) == Trim(pattern, {Blank})
TrimPath(p) == Trim(p, Blank)

MatchPrefix(pattern, p) ==       \* mutant: a pattern covers all that lies below
    LET pat == TrimPattern(pattern)  path == TrimPath(p)
    IN  Len(pat) <= Len(path) /\ \A i \in DOMAIN pat : PathMatch(pat[i], path[i])

Match(pattern, p) ==
    LET pat == TrimPattern(pattern)  path == TrimPath(p)
    IN  Len(pat) = Len(path) /\ \A i \in DOMAIN pat : PathMatch(pat[i], path[i])

\* One part of a scope between its commas: a pattern, and whether a space comes
\* before and after it.  (More than one on a side is left out.)
Part == {c \in [pattern : Seq(Glob) \ {<<>>}, before : BOOLEAN, after : BOOLEAN] :
            c.pattern = <<{Blank}>> => ~c.after}
Bare(pattern) == [pattern |-> pattern, before |-> FALSE, after |-> FALSE]

IsEmpty(c) == c.pattern = <<{Blank}>>
Spaced(c) == c.before \/ c.after

\* The part with its spaces, which belong to its first and to its last glob.
Spread(c) == [c.pattern EXCEPT ![1] =
                 IF c.before THEN {s \in DOMAIN AfterSpace : AfterSpace[s] \in @} ELSE @]
AsWritten(c) == [Spread(c) EXCEPT ![Len(c.pattern)] =
                    IF c.after THEN {s \in DOMAIN BeforeSpace : BeforeSpace[s] \in @} ELSE @]

\* scope.Parse trims each part; auth.parseScope, which is what requests are
\* judged by, does not.
Parse(csv) == {csv[i].pattern : i \in {j \in DOMAIN csv : ~IsEmpty(csv[j])}}
ParseScope(csv) ==
    {AsWritten(csv[i]) : i \in {j \in DOMAIN csv : ~IsEmpty(csv[j]) \/ csv[j].before}}

AnyMatch(patterns, p) == \E pattern \in patterns : Match(pattern, p)

\* What a pattern means: the paths one gets by putting one of its segments
\* in the place of each glob, with any slashes at the ends.
Language(pattern) ==
    LET pat == TrimPattern(pattern)
    IN  {s \in [DOMAIN pat -> Segment] : \A i \in DOMAIN pat : s[i] \in pat[i]}

\* A path that begins or ends with a space.
SpaceAtAnEnd(path) ==
    path[1] \in DOMAIN AfterSpace \/ path[Len(path)] \in DOMAIN BeforeSpace
=============================================================================
