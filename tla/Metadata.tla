------------------------------ MODULE Metadata ------------------------------
(***************************************************************************)
(* internal/metadata: the normal form of tags and structured metadata, and *)
(* the incremental changes of annotate.                                    *)
(*                                                                         *)
(* A string that a request carries is a sequence of pieces, what lies      *)
(* between its commas: a text, and whether spaces come before and after    *)
(* it.  The tags column is the sequence of its texts: who reads it trims   *)
(* them.                                                                   *)
(***************************************************************************)
EXTENDS Naturals, SequencesExt

CONSTANTS
    Text,               \* texts without commas and outer spaces
    Empty,              \* the empty text
    TooLong,            \* texts longer than MaxTagLen
    MaxTags,
    MetaKey, MetaValue, \* of the metadata object
    LongMeta,           \* the keys and values that are longer than their limits
    MaxMetadataPairs,
    Rejected            \* an error instead of a result

ASSUME MetadataAssumption ==
    /\ TooLong \subseteq Text /\ Empty \notin Text
    /\ MaxTags \in Nat \ {0} /\ MaxMetadataPairs \in Nat

Piece == {p \in [text : Text \cup {Empty}, before : BOOLEAN, after : BOOLEAN] :
             p.text = Empty => ~p.after}
Unspaced(t) == [text |-> t, before |-> FALSE, after |-> FALSE]

Texts(string) == [i \in DOMAIN string |-> string[i].text]

\* strings.TrimSpace: the spaces at the ends go, those next to a comma stay.
TrimSpace(string) ==
    [i \in DOMAIN string |->
        [text |-> string[i].text,
         before |-> string[i].before /\ i > 1 /\ ~(i = Len(string) /\ string[i].text = Empty),
         after |-> string[i].after /\ i < Len(string)]]

\* The loop over tags: each once, where it is first seen, and none to be skipped.
Distinct(s, skipped) ==
    FoldLeft(LAMBDA seen, e : IF e \in skipped \cup ToSet(seen) THEN seen ELSE Append(seen, e),
             <<>>, s)

Limited(tags) ==
    IF Len(tags) > MaxTags \/ ToSet(tags) \cap TooLong # {} THEN Rejected ELSE tags

NormalizeTags(string) ==
    Limited(Distinct(Texts(string), {Empty}))

\* MergeTags: a string to add that has a comma stays one tag until the column
\* is read again, its length is not looked at, and one to remove is compared
\* as it came.
Elements(tags) == [i \in DOMAIN tags |-> <<Unspaced(tags[i])>>]
EmptyString == <<Unspaced(Empty)>>
Trimmed(strings) == [i \in DOMAIN strings |-> TrimSpace(strings[i])]

MergedUnlimited(merged) == Texts(FlattenSeq(merged))       \* mutant: no count
Merged(merged) == IF Len(merged) > MaxTags THEN Rejected ELSE Texts(FlattenSeq(merged))

MergeTags(base, add, remove) ==
    Merged(Distinct(Elements(base) \o Trimmed(add), {EmptyString} \cup ToSet(remove)))

\* The metadata column is a function on some of the keys.
Object == UNION {[keys -> MetaValue] : keys \in SUBSET MetaKey}

NormalizeMetadata(object) ==
    IF \/ Cardinality(DOMAIN object) > MaxMetadataPairs
       \/ (DOMAIN object \cup Range(object)) \cap LongMeta # {}
    THEN Rejected ELSE object

\* unset goes first, set wins, and the result is validated as a whole.
MergeMetadata(base, set, unset) ==
    NormalizeMetadata([k \in (DOMAIN base \ unset) \cup DOMAIN set |->
                          IF k \in DOMAIN set THEN set[k] ELSE base[k]])

\* splitCSV and the edit form: a column as it is read back.
AsString(tags) ==
    IF tags = <<>> THEN EmptyString
    ELSE [i \in DOMAIN tags |-> Unspaced(tags[i])]
=============================================================================
