--------------------------- MODULE MCCircuitBreaker ---------------------------
(* Model-checking instance of CircuitBreaker.  Three callers, a threshold   *)
(* of two and a window of two ticks let a call outlive the opening of the   *)
(* breaker, a whole window, and the calls that were admitted after it.      *)
EXTENDS CircuitBreaker

CONSTANTS c1, c2, c3

MCCallers == {c1, c2, c3}

=============================================================================
