------------------------------- MODULE Inputs -------------------------------
(***************************************************************************)
(* What requests may carry, and what becomes of it in the tables: the tags *)
(* and metadata of a secret, and the scope and lifetime of a key, as the   *)
(* API, the CLI and the web form send them.                                *)
(*                                                                         *)
(* A behaviour is about one secret or about one key, which have nothing in *)
(* common here; who may send what, and what happens when requests overlap, *)
(* is in SecretStore and KeyAccess.                                        *)
(***************************************************************************)
EXTENDS Integers, Metadata, Scope

CONSTANTS
    Strings,      \* tags as the API's arrays have them, and the form's field
    Arrays,       \* sequences of them
    Csvs,         \* scopes
    Paths,        \* paths that are asked for
    Durations,    \* what time.ParseDuration reads, in ticks
    Days,         \* what only parseDurationLoose reads: 30d
    DayTicks,     \* 24 * time.Hour
    Half,         \* half the values of an int64
    Epoch,        \* the time in ticks when all begins
    LastTick,     \* the clock stops there (bound)
    Nil

ASSUME InputsAssumption ==
    /\ Half \in Nat \ {0} /\ DayTicks \in Nat \ {0}
    /\ Epoch \in Nat /\ LastTick \in Nat /\ Epoch <= LastTick
    /\ Durations \subseteq -Half .. Half - 1
    /\ Days \subseteq Nat \ {0}
    /\ Strings \subseteq Seq(Piece) /\ Arrays \subseteq Seq(Seq(Piece))
    /\ Csvs \subseteq Seq(Part) \ {<<>>}
    /\ Nil \notin Seq(Part) \cup Seq(Text \cup {Empty}) \cup Object
    /\ Paths \subseteq Seq(Segment) \ {<<>>}

VARIABLES
    about,            \* "secret" or "key"
    tags, metadata,   \* the secret's columns, Nil before it is stored
    clean,            \* nothing was added that MergeTags lets pass (auxiliary)
    scope, expires,   \* the key's columns: Nil before it is stored, or no expiry
    born, asked,      \* when its lifetime was set, and to what (auxiliary)
    now

secret == <<tags, metadata, clean>>
key == <<scope, expires, born, asked>>
vars == <<about, secret, key, now>>

TypeOK ==
    /\ about \in {"secret", "key"}
    /\ tags = Nil <=> metadata = Nil
    /\ tags # Nil => tags \in Seq(Text \cup {Empty}) /\ metadata \in Object
    /\ clean \in BOOLEAN
    /\ scope # Nil => scope \in Seq(Part)
    /\ expires \in Int \cup {Nil}
    /\ born \in Nat /\ asked \in Int
    /\ now \in Epoch .. LastTick

Init ==
    /\ about \in {"secret", "key"}
    /\ tags = Nil /\ metadata = Nil /\ clean = TRUE
    /\ scope = Nil /\ expires = Nil /\ born = Epoch /\ asked = 0
    /\ now = Epoch

(***************************************************************************)
(* A secret.                                                               *)
(***************************************************************************)

OfSecret == about = "secret" /\ UNCHANGED <<about, key, now>>

\* What the handlers store, unless either gave an error: a 400 changes nothing.
Accepted(newTags, newMetadata) == newTags # Rejected /\ newMetadata # Rejected

Store(newTags, newMetadata) ==
    /\ Accepted(newTags, newMetadata)
    /\ tags' = newTags /\ metadata' = newMetadata
    /\ OfSecret

\* handlePutSecret joins the array with commas.
PutSecret ==
    \E array \in Arrays, object \in Object :
        /\ Store(NormalizeTags(FlattenSeq(array)), NormalizeMetadata(object))
        /\ clean' = TRUE

\* handleUISecretSave, with the tags the edit form was opened with or others.
Prefilled == IF tags = Nil THEN {} ELSE {AsString(tags)}

SaveForm ==
    \E object \in Object, csv \in Strings \cup Prefilled :
        /\ Store(NormalizeTags(csv), NormalizeMetadata(object))
        /\ clean' = TRUE

\* A string to add that is one tag of the right length.
Plain(string) == Len(string) = 1 /\ string[1].text \notin TooLong

HandleAnnotate ==
    /\ tags # Nil
    /\ \E add \in Arrays, remove \in Arrays, set \in Object, unset \in SUBSET MetaKey :
        /\ Store(MergeTags(tags, add, remove), MergeMetadata(metadata, set, unset))
        /\ clean' = (clean /\ \A i \in DOMAIN add : Plain(add[i]))

DeleteSecret ==
    /\ tags # Nil
    /\ tags' = Nil /\ metadata' = Nil /\ clean' = TRUE
    /\ OfSecret

(***************************************************************************)
(* A key.                                                                  *)
(***************************************************************************)

OfKey == about = "key" /\ UNCHANGED <<about, secret, now>>

Tick ==
    /\ about = "key" /\ now < LastTick
    /\ now' = now + 1
    /\ UNCHANGED <<about, secret, key>>

\* An int64 that overflows.
Wrap(n) == ((n + Half) % (2 * Half)) - Half

\* What a lifetime is parsed to, and what was meant; the API reads durations,
\* the form days as well, whose product is not checked.
Parsed(d, unit) == Wrap(d * unit)
ParseDuration == {[as |-> d, meant |-> d] : d \in Durations}
ParseDurationLoose ==
    ParseDuration \cup {[as |-> Parsed(d, DayTicks), meant |-> d * DayTicks] : d \in Days}

AddBare(lifetime) == lifetime                       \* mutant: time.Now() is forgotten
Add(lifetime) == now + lifetime

Lives(lifetime) ==
    /\ expires' = Add(lifetime.as)
    /\ asked' = lifetime.meant /\ born' = now

ForEver == expires' = Nil /\ UNCHANGED <<asked, born>>

\* handleCreateKey: the scope as it came, unless it is ""; a key is created once.
NoScope == <<Bare(<<{Blank}>>)>>

CreateKey ==
    /\ scope = Nil
    /\ scope' \in Csvs \ {NoScope}
    /\ ForEver \/ \E lifetime \in ParseDuration : Lives(lifetime)
    /\ OfKey

\* handleUpdateKey: what the request does not have stays.
UpdateKey ==
    /\ scope # Nil
    /\ scope' \in Csvs \cup {scope}
    /\ UNCHANGED <<expires, asked, born>> \/ \E lifetime \in ParseDuration : Lives(lifetime)
    /\ OfKey

\* handleUIKeySave creates or updates, with the scope trimmed at its ends; a
\* blank lifetime is none.
TrimScope(csv) ==
    [i \in DOMAIN csv |->
        [pattern |-> csv[i].pattern,
         before |-> csv[i].before /\ i > 1 /\ ~(i = Len(csv) /\ IsEmpty(csv[i])),
         after |-> csv[i].after /\ i < Len(csv)]]

SaveKeyForm ==
    /\ \E csv \in Csvs : TrimScope(csv) # NoScope /\ scope' = TrimScope(csv)
    /\ ForEver \/ \E lifetime \in ParseDurationLoose : Lives(lifetime)
    /\ OfKey

\* auth.Authenticate: 0 and less is no expiry.
Expired == expires # Nil /\ expires > 0 /\ expires < now

Next ==
    \/ PutSecret \/ SaveForm \/ HandleAnnotate \/ DeleteSecret
    \/ CreateKey \/ UpdateKey \/ SaveKeyForm \/ Tick

Spec == Init /\ [][Next]_vars

(***************************************************************************)
(* Properties.                                                             *)
(***************************************************************************)

\* Whatever puts, saves and annotations made of them, stored tags are within
\* the limits and in the normal form, so that the edit form can be saved as it
\* was opened and changes nothing, unless an annotation added a tag that is too
\* long or has a comma; metadata is within its limits without exception.
TagsStayNormal ==
    tags # Nil =>
        /\ clean => NormalizeTags(AsString(tags)) = tags
        /\ NormalizeMetadata(metadata) = metadata

\* A key is refused exactly from the end of the lifetime it was given last, for
\* all lifetimes that fit into an int64 and end after the epoch.  (A longer one
\* in days, or one that ends before 1970, may last for ever.)
ExpiresWhenAsked ==
    scope # Nil /\ expires # Nil /\ -born < asked /\ asked < Half =>
        (Expired <=> born + asked < now)

\* A stored scope lets a key into the paths that its parts mean as they are
\* written, in any of the forms a path may be asked for, and into no others.  For
\* paths without a space at an end these are paths that the trimmed patterns
\* mean, as scope.Parse reads them, and all of them unless a part has a space at
\* an end.  (With "a/*, b/*" a key gets into the path " b/x", and not into "b/x".)
ScopeMeansItsPatterns ==
    scope # Nil => \A p \in Paths :
        LET path == TrimPath(p)
            allowed == AnyMatch(ParseScope(scope), p)
            written == \E pattern \in ParseScope(scope) : path \in Language(pattern)
            meant == \E pattern \in Parse(scope) : path \in Language(pattern)
        IN  /\ allowed <=> written
            /\ allowed /\ ~SpaceAtAnEnd(path) => meant
            /\ (\A i \in DOMAIN scope : ~Spaced(scope[i])) => (allowed <=> meant)
=============================================================================
