------------------------------ MODULE MCPubsub ------------------------------
(* Small instances of Pubsub for TLC. *)
EXTENDS Pubsub

CONSTANTS p1, p2, q1, q2, q3
=============================================================================
