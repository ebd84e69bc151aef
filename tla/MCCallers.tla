----------------------------- MODULE MCCallers -----------------------------
(* A small instance of Callers: two keys in one map of the limiter. *)
EXTENDS Callers, TLC

CONSTANTS s1, s2, t1, t2

OneMap == [k \in Keys |-> Keys]
=============================================================================
