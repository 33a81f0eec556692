----------------------------- MODULE MCFailover -----------------------------
(* A small instance of Failover.                                             *)
EXTENDS Failover

SomeSettings == {[retries |-> 1, cap |-> 0, wait |-> 1], [retries |-> 0, cap |-> 1, wait |-> 1]}
=============================================================================
