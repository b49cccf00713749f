------------------------------- MODULE MCVHost -------------------------------
(* An instance of VHost for TLC. *)
EXTENDS VHost, TLC

CONSTANTS e1, q1, q2, m1

Ex(typ, durable, autoDelete) ==
    [typ |-> typ, durable |-> durable, autoDelete |-> autoDelete, internal |-> FALSE]
Qu(durable, autoDelete, exclusive, dlx) ==
    [durable |-> durable, autoDelete |-> autoDelete, exclusive |-> exclusive, dlx |-> dlx]

SomeExchanges == (e1 :> {Ex("topic", TRUE, TRUE), Ex("fanout", TRUE, FALSE)})
SomeQueues == (q1 :> {Qu(TRUE, FALSE, FALSE, e1)}) @@ (q2 :> {Qu(TRUE, TRUE, TRUE, None)})
OneKey == (m1 :> KeyFor(q1))
TwoKeys == {KeyFor(q1), AnyKey}
=============================================================================
