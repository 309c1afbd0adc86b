------------------------------ MODULE MCInputs ------------------------------
\* Small instances of Inputs.
EXTENDS Inputs, TLC

CONSTANTS x, y, z, long, k1, k2, v1, big,
          a, b, sb, bs, sp   \* segments; " b", "b " and " "

Texts3 == {x, y, z, long}
LongTexts == {long}
BigValues == {big}
MetaKeys == {k1, k2}
MetaValues == {v1, big}

P(t) == Unspaced(t)
S(t) == [text |-> t, before |-> TRUE, after |-> t # Empty]

SomeStrings ==
    {<<P(x)>>, <<S(x)>>, <<P(y)>>, <<P(long)>>, <<P(Empty)>>, <<P(x), S(z)>>, <<P(x), P(x)>>}
SomeArrays == {<<>>} \cup {<<s>> : s \in SomeStrings}
                \cup {<<s, <<P(z)>> >> : s \in SomeStrings}

Segments == {a, b, sb, bs, sp, Blank}
AfterIts == sb :> b @@ sp :> Blank
BeforeIts == bs :> b @@ sp :> Blank

Before(pattern) == [Bare(pattern) EXCEPT !.before = TRUE]
After(pattern) == [Bare(pattern) EXCEPT !.after = TRUE]
Both(pattern) == [pattern |-> pattern, before |-> TRUE, after |-> TRUE]

SomeCsvs ==
    {NoScope,
     <<Bare(<<Star>>)>>,
     <<Bare(<<{a}, Star>>)>>,
     <<Both(<<{b}>>)>>,
     <<Both(<<{b}, {a}>>), Before(<<{Blank}>>)>>,
     <<After(<<{a}, {b}>>), Before(<<{b}, Star>>)>>,
     <<Bare(<<{Blank}>>), Bare(<<{Blank}, {b}, {Blank}>>)>>}

SomePaths ==
    UNION {[1 .. n -> Segments] : n \in 1 .. 2}
        \cup {<<Blank, s, t>> : s \in Segments, t \in Segments}
        \cup {<<s, t, Blank>> : s \in Segments, t \in Segments}
SomeDurations == {-7, -2, 1, 3}
=============================================================================
