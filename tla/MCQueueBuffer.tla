---------------------------- MODULE MCQueueBuffer ----------------------------
(***************************************************************************)
(* QueueBuffer for TLC: with MaxPriority 1, m1 is the urgent message.      *)
(***************************************************************************)
EXTENDS QueueBuffer

CONSTANTS m1

PrioOf == [m \in Messages |-> IF m = m1 THEN 2 ELSE 0]
=============================================================================
