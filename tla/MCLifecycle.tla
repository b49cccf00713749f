----------------------------- MODULE MCLifecycle -----------------------------
(* An instance of Lifecycle for TLC: a connection that does everything, to *)
(* a vhost that comes and goes.                                            *)
EXTENDS Lifecycle, TLC

CONSTANTS c1

OneVHost == (c1 :> OtherVH)
=============================================================================
