------------------------------ MODULE MCRunner ------------------------------
(* Instances of Runner for TLC: two configured modules, one that is not     *)
(* configured, and a scope that names no module.                            *)
EXTENDS Runner, TLC

CONSTANTS m1, m2, m3, w1, w2, a1, absent

MCRegistry == <<m1, m2, m3>>

\* The threads of the manual pool are interchangeable.
MCSymmetry == Permutations(ManualWorkers)

=============================================================================
