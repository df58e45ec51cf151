----------------------------- MODULE MCCsvTable -----------------------------
(* Instances of CsvTable for TLC: two processes, one of them with two       *)
(* worker threads, and the smallest sets of rows that tell calls apart.     *)
EXTENDS CsvTable, TLC

CONSTANTS t1, t2, t3, p1, p2, k1, k2, v, w

MCProcOf == [t \in Threads |-> IF t = t3 THEN p2 ELSE p1]

\* Two rows of one batch, with the same key or not, and a row with a column
\* left empty, so that an upsert of the other column can be told from a
\* rewrite of the row.
MCBatches == {<<[key |-> k1, cols |-> [c \in Cols |-> v]],
                [key |-> k2, cols |-> [c \in Cols |-> v]]>>}

MCUpserts == {[key |-> k1, patch |-> "status" :> w]}

MCFilters == {{k1}}

\* The threads of one process are interchangeable.
MCSymmetry == Permutations({t1, t2})

=============================================================================
