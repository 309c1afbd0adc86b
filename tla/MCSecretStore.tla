--------------------------- MODULE MCSecretStore ---------------------------
(***************************************************************************)
(* Instances of SecretStore for TLC.  Two paths (two ids to reuse and to   *)
(* confuse), two descriptions (one change to notice), one metadata entry,  *)
(* two values where a value is compared.                                   *)
(***************************************************************************)
EXTENDS SecretStore, TLC

CONSTANTS a, b, d1, d2, v1, v2, m1, k1, k2

Paths == {a, b}
Descs == {d1, d2}
Metas == {m1}
AllKeks == {k1, k2}
OneValue == {v1}
TwoValues == {v1, v2}

Gets(paths) == [op : {"get"}, path : paths]
Deletes(paths) == [op : {"delete"}, path : paths]
Puts(paths, values, descs, metas) ==
    [op : {"put"}, path : paths, value : values, desc : descs, meta : metas]
Saves(paths, descs, metas) == [op : {"save"}, path : paths, desc : descs, meta : metas]
Annotations(paths, descs) ==
    [op : {"annotate"}, path : paths, desc : descs, set : {{}, {m1}}, unset : {{}}]
        \cup [op : {"annotate"}, path : paths, desc : descs, set : {{}}, unset : {{m1}}]

\* Every operation on one path and enough on the other to take its id.
EveryJob ==
    Gets({a}) \cup Deletes({a, b}) \cup Puts({a}, {v1}, Descs, {{}})
        \cup Puts({a}, {v2}, {d2}, {{m1}}) \cup Puts({b}, {v1}, {d1}, {{}})
        \cup Saves({a}, Descs, {{}}) \cup Annotations({a}, {Keep, d2})

DeleteJobs == Deletes({a}) \cup Puts(Paths, {v1}, {d1}, {{}})

Requests == Permutations(Req)
=============================================================================
