------------------------------ MODULE MCBreaker ------------------------------
(***************************************************************************)
(* TLC instance of Breaker with callers of every kind: a task recorder,    *)
(* persisters, a reporter and the heartbeat loop.  Callers may stay idle,  *)
(* so the behaviours of the master's breaker and of a worker's are both    *)
(* among those of this one.                                                *)
(***************************************************************************)
EXTENDS Breaker

=============================================================================
