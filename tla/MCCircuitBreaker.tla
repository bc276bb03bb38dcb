--------------------------- MODULE MCCircuitBreaker ---------------------------
(* Model-checking instances of CircuitBreaker. *)
EXTENDS CircuitBreaker

CONSTANTS c1, c2, c3

ThreeCalls == {c1, c2, c3}
=============================================================================
