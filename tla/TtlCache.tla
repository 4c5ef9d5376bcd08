------------------------------- MODULE TtlCache -------------------------------
(***************************************************************************)
(* What the Cache protocol of app/resilience/cache.py promises: get        *)
(* returns what the latest set stored, until its time to live is over or   *)
(* the key is deleted, and nothing otherwise.  An entry whose time is over *)
(* is gone at once; this is how Redis, behind RedisCache, behaves.         *)
(***************************************************************************)
EXTENDS Naturals

CONSTANTS
    Keys, Values,
    MaxTtl,     \* bound on the ttl arguments
    Nothing     \* None, and the absence of an entry

VARIABLES
    live,     \* live[k]: the value under k and the time it has left
    result,   \* the result of the latest get
    request   \* the latest call and its arguments, or a tick of the clock

vars == <<live, result, request>>

Init ==
    /\ live = [k \in Keys |-> Nothing]
    /\ result = Nothing
    /\ request = <<"clear">>

Get(k) ==
    /\ result' = IF live[k] = Nothing THEN Nothing ELSE live[k].value
    /\ UNCHANGED live
    /\ request' = <<"get", k>>

(* A set with no time to live leaves nothing behind (the unit tests do     *)
(* that).  No caller in the application passes zero, which Redis would     *)
(* refuse: revoke and get_json check for it first.                         *)
Set(k, v, ttl) ==
    /\ live' = [live EXCEPT ![k] = IF ttl = 0 THEN Nothing ELSE [value |-> v, left |-> ttl]]
    /\ UNCHANGED result
    /\ request' = <<"set", k, v, ttl>>

Delete(k) ==
    /\ live' = [live EXCEPT ![k] = Nothing]
    /\ UNCHANGED result
    /\ request' = <<"delete", k>>

Clear ==
    /\ live' = [k \in Keys |-> Nothing]
    /\ UNCHANGED result
    /\ request' = <<"clear">>

(* One tick of the clock for one entry. *)
Age(e) ==
    IF e = Nothing \/ e.left = 1 THEN Nothing ELSE [value |-> e.value, left |-> e.left - 1]

Tick ==
    /\ live' = [k \in Keys |-> Age(live[k])]
    /\ UNCHANGED result
    /\ request' = <<"tick">>

Next ==
    \/ \E k \in Keys :
          \/ Get(k)
          \/ \E v \in Values, ttl \in 0 .. MaxTtl : Set(k, v, ttl)
          \/ Delete(k)
    \/ Clear
    \/ Tick

Spec == Init /\ [][Next]_vars

=============================================================================
