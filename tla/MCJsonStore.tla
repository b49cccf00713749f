---------------------------- MODULE MCJsonStore ----------------------------
(***************************************************************************)
(* JsonStore for TLC: a queue's file and an exchange's, with a lock each.  *)
(***************************************************************************)
EXTENDS JsonStore

CONSTANTS q, x, s1, s2

TwoStripes == [f \in Files |-> IF f = q THEN s1 ELSE s2]
=============================================================================
