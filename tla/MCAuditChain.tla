---------------------------- MODULE MCAuditChain ----------------------------
(***************************************************************************)
(* AuditChain for TLC: two entries (so that one can be changed into the    *)
(* other), pages of two rows, and enough rows and edits for a row to be    *)
(* changed, its hash recomputed and the next row linked to it.             *)
(***************************************************************************)
EXTENDS AuditChain, TLC

CONSTANTS e1, e2

Entries2 == {e1, e2}
EntrySymmetry == Permutations(Entries2)
=============================================================================
