---------------------------- MODULE MCWorkerFleet ----------------------------
(* Small instances of WorkerFleet for TLC. *)
EXTENDS WorkerFleet, TLC

CONSTANTS t1, t2, w1, w2

ClockTimes == 0..MaxTime + 1

Symmetry == Permutations(Tasks) \cup Permutations(Workers)
=============================================================================
