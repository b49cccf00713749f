----------------------------- MODULE MCDelivery -----------------------------
(***************************************************************************)
(* Delivery for TLC: which connection each consumer is on, and what each   *)
(* client does.                                                            *)
(***************************************************************************)
EXTENDS Delivery

CONSTANTS k1, k2, c1, c2

OneConn == [c \in Consumers |-> k1]
TwoConns == [c \in Consumers |-> IF c = c1 THEN k1 ELSE k2]

(* A client that consumes and requeues, closes its channel and may die     *)
(* before a last method is handled, and one that consumes, gets and acks.  *)
OpsConsuming == [k \in Conns |->
    IF k = k1 THEN {"publish", "consume", "nack", "recover", "close", "late"}
    ELSE {"consume", "get", "ack", "cancel"}]

(* One client that also deletes the queue and declares it again. *)
OpsRecreating == [k \in Conns |-> {"publish", "consume", "nack", "recover", "get", "delete",
                                   "declare", "cancel"}]

(* How many methods each client sends. *)
Budget(n, p) == [k \in Conns |-> IF k = k1 THEN n ELSE p]
FourAndThree == Budget(4, 3)
Six == Budget(6, 0)
=============================================================================
