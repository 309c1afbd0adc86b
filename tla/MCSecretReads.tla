--------------------------- MODULE MCSecretReads ---------------------------
(***************************************************************************)
(* An instance of SecretReads for TLC: the paths, descriptions and values  *)
(* of MCSecretStore, one reader that lists or searches beside the requests,*)
(* and a limit of one hit, so that two matching secrets exceed it.         *)
(***************************************************************************)
EXTENDS SecretReads, TLC

CONSTANTS a, b, d1, d2, v1, v2, m1, k1, k2

Paths == {a, b}
Descs == {d1, d2}
Metas == {m1}
AllKeks == {k1, k2}
Values == {v1, v2}
KeyScopes == {{a}}

\* One client's requests, one after the other.
Put(p, v, d, m) == [op |-> "put", path |-> p, value |-> v, desc |-> d, meta |-> m]
Annotate(d, set, unset) ==
    [op |-> "annotate", path |-> a, desc |-> d, set |-> set, unset |-> unset]

ClientJobs ==
    [op : {"get", "delete"}, path : {a}]
        \cup {Put(a, v1, d1, {}), Put(a, v2, d2, {m1}), Put(b, v1, d1, {})}
        \cup [op : {"save"}, path : {a}, desc : {d1}, meta : {{m1}}]
        \cup {Annotate(Keep, {m1}, {}), Annotate(d2, {}, {m1}), Annotate(d1, {}, {})}

Symmetry == Permutations(Req)
=============================================================================
