-------------------------- MODULE MCCircuitBreaker --------------------------
(* Small instances of CircuitBreaker for TLC.                                *)
EXTENDS CircuitBreaker

CONSTANTS c1, c2, c3, c4
=============================================================================
