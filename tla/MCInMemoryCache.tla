---------------------------- MODULE MCInMemoryCache ----------------------------
(* Model-checking instance of InMemoryCache: two keys, two values and a     *)
(* time to live of up to two ticks, so that an entry is overwritten alive,  *)
(* overwritten dead, popped and deleted.                                    *)
EXTENDS InMemoryCache

CONSTANTS k1, k2, v1, v2

MCKeys == {k1, k2}
MCValues == {v1, v2}

=============================================================================
