---------------------------- MODULE MCExporting ----------------------------
(* Instances of Exporting for TLC: a table with ids and one without, and     *)
(* two requests at a time.                                                   *)
EXTENDS Exporting, TLC

CONSTANTS c1, c2, k1, k2, scope

MCKeysOf == [t \in Tables |-> IF t \in Numbered THEN {k1, k2} ELSE {scope}]

\* What belongs to one trigger and was written after the first second.
MCFilters == [from : {1}, to : {1}, by : {"trigger_id"}, key : {k1, k2}]

MCMaxRows == [t \in Tables |-> IF t \in Numbered THEN 2 ELSE 1]

\* Clients and triggers are interchangeable.
MCSymmetry == Permutations(Clients) \union Permutations({k1, k2})

=============================================================================
