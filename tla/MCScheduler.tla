---------------------------- MODULE MCScheduler ----------------------------
(* Instances of Scheduler for TLC: two clients, and one scope more than there *)
(* are workers.                                                              *)
EXTENDS Scheduler

CONSTANTS c1, c2

=============================================================================
