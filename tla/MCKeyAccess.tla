---------------------------- MODULE MCKeyAccess ----------------------------
(***************************************************************************)
(* Instances of KeyAccess for TLC: one key (keys do not interact), a path  *)
(* inside its scope and one outside it, and enough requests at once for a  *)
(* key to be created, read by an update, revoked and used.                 *)
(***************************************************************************)
EXTENDS KeyAccess, TLC

CONSTANTS n1, a, b, m1

OneIssued ==
    {[scope |-> {a}, perm |-> "manage", expires |-> 1, meta |-> {}, revoked |-> FALSE]}

Uses(ops, paths) == [op : ops, key : {n1}, path : paths]

Creates(perms, ttls) ==
    [op : {"create"}, key : {n1}, scope : {{a}}, perm : perms, ttl : ttls, meta : {{}}]

Saves(scopes) ==
    [op : {"save"}, key : {n1}, scope : scopes, perm : {"manage"}, ttl : {Nil}, meta : {{}}]

Updates(names, sets) ==
    [op : {"update"}, key : {n1}, names : names, scope : {{}}, perm : {"read"}, ttl : {0},
     set : sets, unset : {{}}]

\* To annotate a key, and to change what it grants.
Annotates == Updates({{}}, {{m1}})
Regrants == Updates({{"scope", "perm"}, {"scope", "perm", "ttl"}}, {{}})

EveryJob ==
    Uses({"get", "list", "annotate"}, {a})
        \cup Creates({"manage"}, {Nil}) \cup Saves({{b}})
        \cup Updates({{"scope", "perm", "ttl"}}, {{m1}})
        \cup [op : {"revoke"}, key : {n1}]

OperatorJobs == Creates({"manage"}, {Nil}) \cup Annotates \cup Regrants
DenialJobs == Creates(Perms, {Nil}) \cup Uses({"get", "delete", "annotate"}, {a, b})

Requests == Permutations(Req)
=============================================================================
