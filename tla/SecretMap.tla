----------------------------- MODULE SecretMap -----------------------------
(***************************************************************************)
(* What the secrets API promises a client: a map from paths to secrets on  *)
(* which every request takes effect at most once, atomically, at a moment  *)
(* between its arrival and its answer, and is answered "ok" only when it   *)
(* did.  No versions, ciphertexts, rowids or index: SecretStore, which has *)
(* them, is checked against this module where its clients do not get in    *)
(* each other's way (see the README for where they do).                    *)
(***************************************************************************)
CONSTANTS
    Path, Desc, Meta, Value,
    Keep,        \* an annotation that leaves the description alone
    Req, Jobs,   \* the requests, and what they may ask for
    Failures,    \* whether a "request" or the "process" may fail half way
    Nil

VARIABLES
    map,       \* path -> entry, or Nil
    asked,     \* request -> job, or Nil before it arrives
    outcome,   \* request -> how far it got, or how it was answered
    seen       \* request -> the entry a get was given, or Nil

vars == <<map, asked, outcome, seen>>

Entry == [value : Value, desc : Desc, meta : SUBSET Meta]

Init ==
    /\ map = [p \in Path |-> Nil]
    /\ asked = [r \in Req |-> Nil]
    /\ outcome = [r \in Req |-> "none"]
    /\ seen = [r \in Req |-> Nil]

Open(r) == outcome[r] \in {"pending", "applied"}
Become(r, o) == outcome' = [outcome EXCEPT ![r] = o]

Ask(r) ==
    /\ outcome[r] = "none"
    /\ \E j \in Jobs : asked' = [asked EXCEPT ![r] = j]
    /\ Become(r, "pending")
    /\ UNCHANGED <<map, seen>>

(***************************************************************************)
(* The entry a write of job j leaves where e was.                          *)
(***************************************************************************)
Written(j) == [value |-> j.value, desc |-> j.desc, meta |-> j.meta]
Edited(e, j) == [value |-> e.value, desc |-> j.desc, meta |-> j.meta]
Annotated(e, j) ==
    [value |-> e.value,
     desc |-> IF j.desc = Keep THEN e.desc ELSE j.desc,
     meta |-> (e.meta \ j.unset) \cup j.set]

Effect(e, j) ==
    CASE j.op = "put" -> Written(j)
      [] j.op = "save" -> Edited(e, j)
      [] j.op = "annotate" -> Annotated(e, j)
      [] j.op = "delete" -> Nil

Exists(r) == map[asked[r].path] # Nil

Apply(r) ==
    LET j == asked[r] IN
    /\ outcome[r] = "pending"
    /\ j.op # "get"
    /\ j.op = "put" \/ Exists(r)
    /\ map' = [map EXCEPT ![j.path] = Effect(@, j)]
    /\ Become(r, "applied")
    /\ UNCHANGED <<asked, seen>>

Acknowledge(r) ==
    /\ outcome[r] = "applied"
    /\ Become(r, "ok")
    /\ UNCHANGED <<map, asked, seen>>

\* An annotation that changes nothing writes nothing.
Nothing(r) ==
    /\ outcome[r] = "pending"
    /\ asked[r].op = "annotate"
    /\ Exists(r)
    /\ Effect(map[asked[r].path], asked[r]) = map[asked[r].path]
    /\ Become(r, "ok")
    /\ UNCHANGED <<map, asked, seen>>

Fetch(r) ==
    /\ outcome[r] = "pending"
    /\ asked[r].op = "get"
    /\ Exists(r)
    /\ seen' = [seen EXCEPT ![r] = map[asked[r].path]]
    /\ Become(r, "ok")
    /\ UNCHANGED <<map, asked>>

Refuse(r) ==
    /\ outcome[r] = "pending"
    /\ asked[r].op # "put"
    /\ ~ Exists(r)
    /\ Become(r, "not_found")
    /\ UNCHANGED <<map, asked, seen>>

\* A failed read is reported as "not found", every other failure as an error.
Fail(r) ==
    /\ "request" \in Failures
    /\ Open(r)
    /\ \E o \in {"error", "not_found"} : Become(r, o)
    /\ UNCHANGED <<map, asked, seen>>

Crash ==
    /\ "process" \in Failures
    /\ outcome' = [r \in Req |-> IF Open(r) THEN "lost" ELSE outcome[r]]
    /\ UNCHANGED <<map, asked, seen>>

Next ==
    \/ Crash
    \/ \E r \in Req :
          \/ Ask(r) \/ Apply(r) \/ Acknowledge(r) \/ Nothing(r)
          \/ Fetch(r) \/ Refuse(r) \/ Fail(r)

Spec == Init /\ [][Next]_vars
=============================================================================
