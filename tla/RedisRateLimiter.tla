---------------------------- MODULE RedisRateLimiter ----------------------------
(***************************************************************************)
(* RedisRateLimiter of app/core/rate_limit.py: one counter per identity,   *)
(* shared by every node.  INCR and EXPIRE NX run as one transaction in     *)
(* the server, which drops the counter when its time is over.              *)
(***************************************************************************)
EXTENDS Naturals, FiniteSets

CONSTANTS
    Identities,
    Limit,       \* limit
    Window,      \* window_seconds, in ticks
    CountCap     \* bound: where the model stops counting

(* What the limiter needs of its parameters. *)
LimiterAssumption ==
    /\ Limit \in Nat \ {0}
    /\ Window \in Nat \ {0}
    /\ CountCap \in Nat
    /\ CountCap > Limit

VARIABLES
    count,       \* the value of ratelimit:<identity>; zero when absent
    left         \* its time to live; zero when it has none

(* History, read by the properties only. *)
VARIABLE granted \* granted[i]: the requests let through within the last window

vars == <<count, left, granted>>

(* The type of every variable. *)
TypeOK ==
    /\ count \in [Identities -> 0 .. CountCap]
    /\ left \in [Identities -> 0 .. Window]
    /\ granted \in [Identities -> SUBSET [age : 0 .. Window - 1, nth : Nat]]

Init ==
    /\ count = [i \in Identities |-> 0]
    /\ left = [i \in Identities |-> 0]
    /\ granted = [i \in Identities |-> {}]

(* Fault: every hit moves the window on (EXPIRE without NX). *)
ExpireAlways(i) == left' = [left EXCEPT ![i] = Window]

(* EXPIRE key window NX: sets a time to live where there is none. *)
ExpireNX(i) == left' = [left EXCEPT ![i] = IF @ = 0 THEN Window ELSE @]

Incremented(i) == IF count[i] < CountCap THEN count[i] + 1 ELSE count[i]

(* Fault: two round trips, the second of which may never happen. *)
TransactionInTwoTrips(i) ==
    /\ count' = [count EXCEPT ![i] = Incremented(i)]
    /\ ExpireNX(i) \/ UNCHANGED left

(* MULTI; INCR; EXPIRE NX; EXEC *)
Transaction(i) ==
    /\ count' = [count EXCEPT ![i] = Incremented(i)]
    /\ ExpireNX(i)

(* Fault: the count before the increment is compared. *)
WithinLimitBefore(i) == count[i] <= Limit

(* count <= limit, of the value INCR returned *)
WithinLimit(i) == Incremented(i) <= Limit

(* One more request is let through; those of one instant are numbered. *)
WithNewGrant(S) == S \cup {[age |-> 0, nth |-> Cardinality({g \in S : g.age = 0})]}

(* check, answered: let through or refused. *)
Check(i) ==
    /\ Transaction(i)
    /\ granted' = IF WithinLimit(i) THEN [granted EXCEPT ![i] = WithNewGrant(@)] ELSE granted

(* check, not answered: the connection is lost after EXEC.  The request    *)
(* fails and has been counted.                                             *)
CheckLost(i) ==
    /\ Transaction(i)
    /\ UNCHANGED granted

AgeAll(S) == {[g EXCEPT !.age = g.age + 1] : g \in S}
WithinWindow(S) == {g \in S : g.age < Window}

(* The clock advances; the server drops counters whose time is over. *)
Tick ==
    /\ left' = [i \in Identities |-> IF left[i] > 0 THEN left[i] - 1 ELSE 0]
    /\ count' = [i \in Identities |-> IF left[i] = 1 THEN 0 ELSE count[i]]
    /\ granted' = [i \in Identities |-> WithinWindow(AgeAll(granted[i]))]

Next ==
    \/ \E i \in Identities : Check(i) \/ CheckLost(i)
    \/ Tick

Spec == Init /\ [][Next]_vars

(* Time passes. *)
FairSpec == Spec /\ WF_vars(Tick)

-----------------------------------------------------------------------------
(* Properties. *)

(* A fixed window lets at most `limit` requests through, so any stretch of *)
(* that length, which meets at most two of them, sees at most twice the    *)
(* limit (check).                                                          *)
AtMostTwiceTheLimit == \A i \in Identities : Cardinality(granted[i]) <= 2 * Limit

(* No counter is without a time to live, whichever client vanished in      *)
(* whichever moment (check; CHANGELOG: "an interrupted update can no       *)
(* longer strand a counter without a TTL").                                *)
EveryCounterExpires == \A i \in Identities : count[i] > 0 => left[i] > 0

(* Nobody is locked out for good: a counter at its limit is dropped, even  *)
(* if the identity never stops knocking (check).                           *)
LockoutEnds == \A i \in Identities : count[i] >= Limit ~> count[i] < Limit

=============================================================================
