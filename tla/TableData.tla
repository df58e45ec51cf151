----------------------------- MODULE TableData -----------------------------
(***************************************************************************)
(* Rows of a storage table and the calls a client makes on it, shared by   *)
(* the abstract table and by the CSV backend.                              *)
(*                                                                         *)
(* The columns of a real table are abstracted to what the backends tell    *)
(* apart: the surrogate id, the columns a call matches on (one value, key) *)
(* and the remaining columns (cols), which an upsert may set in part.      *)
(***************************************************************************)
EXTENDS Integers, Sequences, FiniteSets

CONSTANTS
    Keys,      \* values of the matched column(s), e.g. trigger ids
    NoKey,     \* what the matched column reads as in a damaged line
    Cols,      \* the other columns
    Vals,      \* values of the other columns
    Null       \* an empty cell

ASSUME KeysAssumption == NoKey \notin Keys
ASSUME NullAssumption == Null \notin Vals

Cells == [Cols -> Vals \union {Null}]

\* What a client hands to insert: a row whose id the backend will assign.
NewRow == [key : Keys, cols : Cells]

\* A stored row.
Row == [id : Nat, key : Keys \union {NoKey}, cols : Cells]

Stored(id, new) == [id |-> id, key |-> new.key, cols |-> new.cols]

\* dict(existing).update(row): the columns the caller names change, no other.
Merge(cols, patch) ==
    [c \in Cols |-> IF c \in DOMAIN patch THEN patch[c] ELSE cols[c]]

\* A row an upsert has to create: the columns it does not name are empty.
Blank(patch) == Merge([c \in Cols |-> Null], patch)

Patches == UNION {[C -> Vals] : C \in SUBSET Cols}

\* The file f with row r on line l.
Put(f, l, r) == [m \in DOMAIN f \union {l} |-> IF m = l THEN r ELSE f[m]]

\* The part of a file (a function from line numbers to rows) a filter keeps.
Without(f, K) == [l \in {m \in DOMAIN f : f[m].key \notin K} |-> f[l]]

Matching(f, K) == {l \in DOMAIN f : f[l].key \in K}

\* The largest id in a file, 0 if there is none.
MaxExistingId(f) ==
    LET ids == {f[l].id : l \in DOMAIN f}
    IN  IF ids = {} THEN 0 ELSE CHOOSE m \in ids : \A i \in ids : i <= m

=============================================================================
