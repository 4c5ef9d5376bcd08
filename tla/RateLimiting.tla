----------------------------- MODULE RateLimiting -----------------------------
(***************************************************************************)
(* The guard of the rate-limited routes (enforce_rate_limit in             *)
(* app/api/deps.py): the caller's address is resolved by ClientIp and      *)
(* charged to whichever limiter the container was built with, in memory or *)
(* in Redis (app/container.py).                                            *)
(*                                                                         *)
(* A request has a path, the addresses it really came through, sender      *)
(* first, and the X-Forwarded-For parts its sender wrote.  Each proxy      *)
(* appends the peer it got the request from; the last one is the peer of   *)
(* the application.  The sender itself is outside our networks.  Proxies   *)
(* are external.                                                           *)
(***************************************************************************)
EXTENDS ClientIp

CONSTANTS
    Identities,  \* whatever may be charged
    Anonymous,   \* the identity of a request without a peer address
    Requests,    \* the [written, path] that arrive
    Limit,       \* rate_limit_per_minute
    Window,      \* window_seconds, in ticks
    CountCap     \* bound: where the model stops counting in Redis

VARIABLES
    backend,                      \* which limiter the container has
    hits, tracked, sinceSweep,    \* InMemoryRateLimiter
    count, left,                  \* RedisRateLimiter
    charged                       \* the identity of the latest check

(* History, read by the properties only. *)
VARIABLES
    granted,     \* granted[i]: the requests let through within the last window
    allowed,     \* the request checked last was let through (in memory)
    caller       \* whose request that really was

memoryState == <<hits, tracked, sinceSweep, allowed>>
redisState == <<count, left>>
vars == <<backend, memoryState, redisState, charged, granted, caller>>

Memory == INSTANCE InMemoryRateLimiter
Redis == INSTANCE RedisRateLimiter

ASSUME GuardAssumption ==
    /\ Memory!LimiterAssumption
    /\ Redis!LimiterAssumption
    /\ Anonymous \in Identities
    /\ \A q \in Requests :
         /\ q.written \in Seq(Identities \cup {Blank})
         /\ q.path \in Seq(Identities \ {Blank})
         /\ q.path # << >> => q.path[1] \notin Trusted

(* The type of every variable. *)
TypeOK ==
    /\ backend \in {"memory", "redis"}
    /\ Memory!TypeOK
    /\ Redis!TypeOK
    /\ charged \in Identities
    /\ caller \in Identities

Init ==
    /\ backend \in {"memory", "redis"}
    /\ Memory!Init
    /\ Redis!Init
    /\ charged = Anonymous
    /\ caller = Anonymous

(* X-Forwarded-For as it arrives. *)
Header(q) == q.written \o SubSeq(q.path, 1, Len(q.path) - 1)

(* client_ip(request) or "anonymous" *)
Identity(q) ==
    IF q.path = << >> THEN Anonymous ELSE ClientIp(Header(q), q.path[Len(q.path)])

(* The sender outside our networks that is nearest to us, on the real      *)
(* path.                                                                   *)
Strangers(q) == {n \in 1 .. Len(q.path) : q.path[n] \notin Trusted}
Caller(q) ==
    IF q.path = << >> THEN Anonymous
    ELSE q.path[CHOOSE n \in Strangers(q) : \A m \in Strangers(q) : m <= n]

(* enforce_rate_limit; the Redis limiter may fail to answer. *)
EnforceRateLimit(q) ==
    /\ charged' = Identity(q)
    /\ caller' = Caller(q)
    /\ UNCHANGED backend
    /\ \/ backend = "memory" /\ Memory!Check(Identity(q)) /\ UNCHANGED redisState
       \/ backend = "redis" /\ Redis!Check(Identity(q)) /\ UNCHANGED memoryState
       \/ backend = "redis" /\ Redis!CheckLost(Identity(q)) /\ UNCHANGED memoryState

Tick ==
    /\ UNCHANGED <<backend, charged, caller>>
    /\ \/ backend = "memory" /\ Memory!Tick /\ UNCHANGED redisState
       \/ backend = "redis" /\ Redis!Tick /\ UNCHANGED memoryState

Next ==
    \/ \E q \in Requests : EnforceRateLimit(q)
    \/ Tick

Spec == Init /\ [][Next]_vars

(* Time passes. *)
FairSpec == Spec /\ WF_vars(Tick)

-----------------------------------------------------------------------------
(* Properties. *)

(* Whatever the sender wrote into the header, and through however many     *)
(* proxies it came, a request is charged to the sender outside our         *)
(* networks that is nearest to us: the client behind our own proxies, or a *)
(* proxy that is not ours (client_ip, enforce_rate_limit).                 *)
ChargedToCaller == charged = caller

(* In no window, wherever it starts, does the in-memory limiter let more   *)
(* than `limit` requests of a caller through, although refused requests    *)
(* prune the list and the sweep, set off by any caller, deletes it (check, *)
(* _sweep).                                                                *)
NeverOverLimit == backend = "memory" => Memory!NeverOverLimit

(* The in-memory limiter refuses a request only when its window really is  *)
(* full: forgetting and pruning cost nobody a request, a refused request   *)
(* does not count against the next one (check).                            *)
RefusedOnlyWhenFull == Memory!RefusedOnlyWhenFull

(* What the in-memory limiter remembers is bounded by the traffic of two   *)
(* windows (_sweep).                                                       *)
IdleIdentitiesForgotten == Memory!IdleIdentitiesForgotten

(* A fixed window in Redis lets at most `limit` requests through, so any   *)
(* stretch of that length, which meets at most two of them, sees at most   *)
(* twice the limit (check).                                                *)
AtMostTwiceTheLimit == Redis!AtMostTwiceTheLimit

(* No counter in Redis is without a time to live, whichever client         *)
(* vanished in whichever moment (check).                                   *)
EveryCounterExpires == Redis!EveryCounterExpires

(* Nobody is locked out for good by a counter in Redis, even if the caller *)
(* never stops knocking (check).                                           *)
LockoutEnds == Redis!LockoutEnds

=============================================================================
