---------------------------- MODULE MCRateLimiting ----------------------------
(* Model-checking instance of RateLimiting.  Requests come straight from a  *)
(* client, through one or two of our proxies, through a proxy that is not   *)
(* ours, or without a peer address, each with every header of up to two     *)
(* parts its sender may have written.  A limit of two in a window of three  *)
(* ticks lets a full list lose one hit and keep the other.                  *)
EXTENDS RateLimiting

CONSTANTS client, other, proxy, unparsable

MCTrusted == {proxy}
MCIdentities == {client, other, proxy, unparsable, Anonymous}

Written == UNION {[1 .. n -> {other, client, proxy, unparsable, Blank}] : n \in 0 .. 2}
Paths ==
    {<< >>, <<client>>, <<client, proxy>>, <<client, proxy, proxy>>, <<other, client>>,
     <<other, client, proxy>>}

MCRequests == [written : Written, path : Paths]

=============================================================================
