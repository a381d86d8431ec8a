---------------------------- MODULE MCScheduler ----------------------------
(* Instances of Scheduler for TLC.                                         *)
EXTENDS Scheduler, TLC

CONSTANTS c1, c2, c3

Clients == {c1, c2, c3}
Symmetry == Permutations(LoopClient)
=============================================================================
