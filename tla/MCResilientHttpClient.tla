------------------------- MODULE MCResilientHttpClient -------------------------
(* Model-checking instance of ResilientHttpClient.  Two callers of one key  *)
(* share the breaker and the cache; one retry lets a call outlive the       *)
(* opening of the breaker, and a time to live above the recovery window     *)
(* lets a payload outlive it.                                               *)
EXTENDS ResilientHttpClient

CONSTANTS c1, c2, k1

MCCallers == {c1, c2}
MCKeys == {k1}

=============================================================================
