---------------------------- MODULE MCRedisQueue ----------------------------
(* Small instances of RedisQueue for TLC. *)
EXTENDS RedisQueue, TLC

CONSTANTS t1, t2, w1, w2, k1

Symmetry == Permutations(Tasks) \cup Permutations(Workers)
=============================================================================
