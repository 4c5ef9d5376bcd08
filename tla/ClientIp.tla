------------------------------- MODULE ClientIp -------------------------------
(***************************************************************************)
(* ProxyTrust of app/core/client_ip.py: who is calling, behind proxies.    *)
(* The header is the sequence of its parts, left to right.                 *)
(***************************************************************************)
EXTENDS Naturals, Sequences

CONSTANTS
    Trusted,     \* the addresses inside the configured networks
    Blank        \* a header part that is empty once stripped

(* trusts: ip_address does not raise, and some network contains it. *)
Trusts(address) == address \in Trusted

(* [part.strip() for part in forwarded.split(",") if part.strip()]: the    *)
(* positions of the parts that are kept.                                   *)
Hops(header) == {n \in 1 .. Len(header) : header[n] # Blank}

(* Fault: the hops are read from the left. *)
FirstReadFromLeft(positions) == CHOOSE n \in positions : \A m \in positions : n <= m

(* The position a loop over reversed(hops) comes to first. *)
First(positions) == CHOOSE n \in positions : \A m \in positions : m <= n

(* client_ip *)
ClientIp(header, peer) ==
    LET strangers == {n \in Hops(header) : ~Trusts(header[n])}
    IN  IF ~Trusts(peer) \/ strangers = {} THEN peer ELSE header[First(strangers)]

=============================================================================
