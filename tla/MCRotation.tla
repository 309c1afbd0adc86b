----------------------------- MODULE MCRotation -----------------------------
(***************************************************************************)
(* Instances of Rotation for TLC: two paths, so that a rotation can be     *)
(* between two secrets, two rotations that overlap or follow each other,   *)
(* and requests that write, annotate and delete under them.                *)
(***************************************************************************)
EXTENDS Rotation, TLC

CONSTANTS a, b, d1, d2, v1, m1, p1, p2

Paths == {a, b}
Descs == {d1, d2}
Metas == {m1}
Values == {v1}

AllKeks == {BootKEK(p) : p \in Password} \cup {RotateKEK(p) : p \in Password}
MasterKek == BootKEK(p1)

Puts(paths, descs) == [op : {"put"}, path : paths, value : {v1}, desc : descs, meta : {{}}]

EveryJob ==
    Puts({a}, {d2}) \cup [op : {"delete"}, path : {a}]
        \cup [op : {"save"}, path : {a}, desc : {d2}, meta : {{}}]
        \cup [op : {"annotate"}, path : {a}, desc : {Keep}, set : {{m1}}, unset : {{}}]

Symmetric == Permutations(Req) \cup Permutations(Rot)
=============================================================================
