---------------------------- MODULE MCTokenSessions ----------------------------
(* Model-checking instance of TokenSessions: half-second ticks, tokens of   *)
(* one and two seconds, so that a logout, a lookup and an expiry fall into  *)
(* every order within and across seconds.                                   *)
EXTENDS TokenSessions, TLC

CONSTANTS s1, s2, h1, h2

MCSessions == {s1, s2}
MCHandlers == {h1, h2}

(* A logout names the refresh token of its own pair, or none. *)
MCRequests == {r \in AnyRequest : r.body \in {NoSession, r.token.session}}

SessionSymmetry == Permutations(MCSessions) \cup Permutations(MCHandlers)

=============================================================================
