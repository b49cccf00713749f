------------------------------ MODULE MCLocks ------------------------------
(* Locks for TLC: a queue whose dead letters go to a second one. *)
EXTENDS Locks

CONSTANTS c1, q, dlq

ToDlq == [x \in Queues |-> IF x = q THEN dlq ELSE None]
=============================================================================
