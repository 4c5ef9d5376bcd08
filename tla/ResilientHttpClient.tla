-------------------------- MODULE ResilientHttpClient --------------------------
(***************************************************************************)
(* ResilientHttpClient.get_json of app/providers/http_client.py, composed  *)
(* with the circuit breaker, the response cache and the normalising        *)
(* adapters of app/providers/currency.py and weather.py.                   *)
(*                                                                         *)
(* A caller looks in the cache, enters the breaker, sends a request, backs *)
(* off and retries, stores the payload and normalises it.  Every await is  *)
(* a point where other callers, the clock, the upstream or a cancellation  *)
(* may come in between.  The cache is the shared one (RedisCache), whose   *)
(* commands suspend the caller and may fail; with InMemoryCache the same   *)
(* steps happen without interruption, which is one of these behaviours.    *)
(***************************************************************************)
EXTENDS CircuitBreaker

CONSTANTS
    Keys,          \* cache keys: distinct url and parameter pairs
    MaxRetries,    \* max_retries
    CacheTtl,      \* cache_ttl, in ticks
    NoPayload      \* model value: the cache holds nothing under a key

ASSUME ClientAssumption ==
    /\ MaxRetries \in Nat
    /\ CacheTtl \in Nat \ {0}

VARIABLES
    pc,        \* pc[c]: the await the caller is suspended at
    key,       \* key[c]: the key of the caller's current get_json
    attempt,   \* attempt[c]: the loop variable of _get_with_retry
    payload,   \* payload[c]: what the caller's request returned
    reply,     \* reply[c]: how the caller's last call ended
    cached,    \* cached[k]: the live cache entry, or NoPayload
    answer,    \* answer[k]: what the upstream answers for k now (external)
    spilled    \* history: the requests each caller sent since the breaker opened

(* The provider's breaker, with its history.  Its steps are conjoined with *)
(* the client's; the answers decide which.                                 *)
breaker == vars

client == <<pc, key, attempt, payload, reply>>
clientVars == <<breaker, client, cached, answer, spilled>>

(* JSON the adapter can and cannot normalise; a 200 that is not JSON; a    *)
(* transport error or a status of _RETRYABLE_STATUS; any other 4xx or 5xx. *)
Answers == {"good", "misshapen", "garbage", "transient", "permanent"}
Payloads == {"good", "misshapen"}

(* served: the adapter's result.  bad_payload: _normalize raised           *)
(* ProviderUnavailableError.  unavailable: get_json did.  crashed: any     *)
(* other exception left get_json or _normalize.                            *)
Replies == {"none", "served", "bad_payload", "unavailable", "crashed", "cancelled"}

Locations == {"idle", "lookup", "missed", "waiting", "backoff", "fetched"}

Entries == [payload : Payloads, left : 1 .. CacheTtl]

(* The type of every variable. *)
ClientTypeOK ==
    /\ TypeOK
    /\ pc \in [Callers -> Locations]
    /\ key \in [Callers -> Keys]
    /\ attempt \in [Callers -> 0 .. MaxRetries]
    /\ payload \in [Callers -> Payloads \cup {NoPayload}]
    /\ reply \in [Callers -> Replies]
    /\ cached \in [Keys -> Entries \cup {NoPayload}]
    /\ answer \in [Keys -> Answers]
    /\ spilled \in [Callers -> Nat]

ClientInit ==
    /\ Init
    /\ pc = [c \in Callers |-> "idle"]
    /\ key \in [Callers -> Keys]
    /\ attempt = [c \in Callers |-> 0]
    /\ payload = [c \in Callers |-> NoPayload]
    /\ reply = [c \in Callers |-> "none"]
    /\ cached = [k \in Keys |-> NoPayload]
    /\ answer = [k \in Keys |-> "good"]
    /\ spilled = [c \in Callers |-> 0]

-----------------------------------------------------------------------------
(* What the adapter may make of a payload (_normalize).  Which part is     *)
(* misshapen decides whether its `except` sees the error: _mean_humidity   *)
(* is called outside the `try`.                                            *)
Normalize(p) == IF p = "good" THEN {"served"} ELSE {"bad_payload", "crashed"}

(* The caller's task moves to location l. *)
Goto(c, l) == pc' = [pc EXCEPT ![c] = l]

(* The caller's call ends with r; what it held is gone. *)
Finish(c, r) ==
    /\ Goto(c, "idle")
    /\ reply' = [reply EXCEPT ![c] = r]
    /\ attempt' = [attempt EXCEPT ![c] = 0]
    /\ payload' = [payload EXCEPT ![c] = NoPayload]
    /\ UNCHANGED key

(* convert / forecast call get_json for some key. *)
Start(c, k) ==
    /\ pc[c] = "idle"
    /\ Goto(c, "lookup")
    /\ key' = [key EXCEPT ![c] = k]
    /\ reply' = [reply EXCEPT ![c] = "none"]
    /\ UNCHANGED <<attempt, payload, breaker, cached, answer, spilled>>

(* Fault: a hit renews the entry's time to live. *)
CacheHitRenews(c) ==
    /\ pc[c] = "lookup"
    /\ cached[key[c]] # NoPayload
    /\ \E r \in Normalize(cached[key[c]].payload) : Finish(c, r)
    /\ cached' = [cached EXCEPT ![key[c]].left = CacheTtl]
    /\ UNCHANGED <<breaker, answer, spilled>>

(* cache.get returned an entry: it is decoded and normalised. *)
CacheHit(c) ==
    /\ pc[c] = "lookup"
    /\ cached[key[c]] # NoPayload
    /\ \E r \in Normalize(cached[key[c]].payload) : Finish(c, r)
    /\ UNCHANGED <<breaker, cached, answer, spilled>>

(* cache.get returned None. *)
CacheMiss(c) ==
    /\ pc[c] = "lookup"
    /\ cached[key[c]] = NoPayload
    /\ Goto(c, "missed")
    /\ UNCHANGED <<key, attempt, payload, reply, breaker, cached, answer, spilled>>

(* breaker.call admits the call and the first request goes out. *)
Enter(c) ==
    /\ pc[c] = "missed"
    /\ Admit(c)
    /\ Goto(c, "waiting")
    /\ UNCHANGED <<key, attempt, payload, reply, cached, answer, spilled>>

(* breaker.call raises CircuitBreakerOpen: ProviderUnavailableError. *)
ShortCircuit(c) ==
    /\ pc[c] = "missed"
    /\ Reject(c)
    /\ Finish(c, "unavailable")
    /\ UNCHANGED <<cached, answer, spilled>>

(* The response decodes: _get_with_retry returns, _on_success runs. *)
ReceivePayload(c) ==
    /\ pc[c] = "waiting"
    /\ answer[key[c]] \in Payloads
    /\ OnSuccess(c)
    /\ Goto(c, "fetched")
    /\ payload' = [payload EXCEPT ![c] = answer[key[c]]]
    /\ UNCHANGED <<key, attempt, reply, cached, answer, spilled>>

(* Fault: one attempt too many. *)
AttemptsLeftLate(c) == attempt[c] <= MaxRetries

(* attempt < self._max_retries *)
AttemptsLeft(c) == attempt[c] < MaxRetries

(* TransportError or HTTPStatusError, attempts left: sleep.  A status      *)
(* outside _RETRYABLE_STATUS reaches the same handler through              *)
(* raise_for_status.                                                       *)
ReceiveErrorAndBackOff(c) ==
    /\ pc[c] = "waiting"
    /\ answer[key[c]] \in {"transient", "permanent"}
    /\ AttemptsLeft(c)
    /\ Goto(c, "backoff")
    /\ UNCHANGED <<key, attempt, payload, reply, breaker, cached, answer, spilled>>

(* The breaker records a failure; the history restarts when it opens. *)
Fail(c, r) ==
    /\ OnFailure(c)
    /\ Finish(c, r)
    /\ spilled' = IF state # "open" /\ state' = "open" THEN [d \in Callers |-> 0] ELSE spilled
    /\ UNCHANGED <<cached, answer>>

(* The same on the last attempt: ProviderUnavailableError, _on_failure. *)
ReceiveErrorAndGiveUp(c) ==
    /\ pc[c] = "waiting"
    /\ answer[key[c]] \in {"transient", "permanent"}
    /\ ~AttemptsLeft(c)
    /\ Fail(c, "unavailable")

(* response.json() raises: no handler of the loop catches it. *)
ReceiveGarbage(c) ==
    /\ pc[c] = "waiting"
    /\ answer[key[c]] = "garbage"
    /\ Fail(c, "crashed")

(* Fault: the loop variable starts again after every sleep. *)
NextAttemptFirst(c) == 0

(* The loop variable moves on. *)
NextAttempt(c) == attempt[c] + 1

(* The sleep ends and the next attempt's request goes out.  The breaker    *)
(* is not asked again.                                                     *)
Retry(c) ==
    /\ pc[c] = "backoff"
    /\ Goto(c, "waiting")
    /\ attempt' = [attempt EXCEPT ![c] = NextAttempt(c)]
    /\ spilled' = IF state = "open" THEN [spilled EXCEPT ![c] = @ + 1] ELSE spilled
    /\ UNCHANGED <<key, payload, reply, breaker, cached, answer>>

(* cache.set, then the adapter normalises what was stored. *)
Store(c) ==
    /\ pc[c] = "fetched"
    /\ cached' = [cached EXCEPT ![key[c]] = [payload |-> payload[c], left |-> CacheTtl]]
    /\ \E r \in Normalize(payload[c]) : Finish(c, r)
    /\ UNCHANGED <<breaker, answer, spilled>>

(* The cache command fails: the exception leaves get_json, outside the     *)
(* breaker, and a payload that was fetched is lost.                        *)
CacheError(c) ==
    /\ pc[c] \in {"lookup", "fetched"}
    /\ Finish(c, "crashed")
    /\ UNCHANGED <<breaker, cached, answer, spilled>>

(* The caller's task is cancelled at an await. *)
CancelCaller(c) ==
    /\ pc[c] # "idle"
    /\ IF pc[c] \in {"waiting", "backoff"} THEN Cancel(c) ELSE UNCHANGED breaker
    /\ Finish(c, "cancelled")
    /\ UNCHANGED <<cached, answer, spilled>>

-----------------------------------------------------------------------------
(* What is left of an entry one tick later; the cache drops it at zero. *)
Age(e) ==
    IF e = NoPayload \/ e.left = 1 THEN NoPayload ELSE [e EXCEPT !.left = e.left - 1]

(* Time passes for the breaker and for the cache. *)
ClientTick ==
    /\ cached' = [k \in Keys |-> Age(cached[k])]
    /\ Tick
    /\ UNCHANGED <<client, answer, spilled>>

(* The upstream changes its mind about a key. *)
UpstreamChanges(k) ==
    /\ \E a \in Answers \ {answer[k]} : answer' = [answer EXCEPT ![k] = a]
    /\ UNCHANGED <<breaker, client, cached, spilled>>

(* The caller's own steps, and the answers it waits for. *)
Receive(c) ==
    ReceivePayload(c) \/ ReceiveErrorAndBackOff(c) \/ ReceiveErrorAndGiveUp(c) \/ ReceiveGarbage(c)

Proceed(c) ==
    CacheHit(c) \/ CacheMiss(c) \/ Enter(c) \/ ShortCircuit(c) \/ Retry(c) \/ Store(c)

ClientNext ==
    \/ \E c \in Callers :
          \/ \E k \in Keys : Start(c, k)
          \/ Proceed(c)
          \/ Receive(c)
          \/ CacheError(c)
          \/ CancelCaller(c)
    \/ ClientTick
    \/ \E k \in Keys : UpstreamChanges(k)

ClientSpec == ClientInit /\ [][ClientNext]_clientVars

(* The event loop runs every ready task, httpx's timeout turns a silent    *)
(* upstream into a TransportError, time passes and handlers keep calling.  *)
(* A client that goes away cancels its own request, not every request:     *)
(* answers are received infinitely often if they are awaited so.           *)
ClientFairness ==
    /\ WF_clientVars(ClientTick)
    /\ \A c \in Callers :
          /\ WF_clientVars(\E k \in Keys : Start(c, k))
          /\ WF_clientVars(Proceed(c))
          /\ SF_clientVars(Receive(c))

ClientFairSpec == ClientSpec /\ ClientFairness

-----------------------------------------------------------------------------
(* Properties. *)

(* An open breaker does not stop the retries of the calls it had already   *)
(* admitted, but those are all that still reaches the upstream: since it   *)
(* opened, at most MaxRetries for each caller but one, and none for that   *)
(* one, whose call had ended when it opened (call, _get_with_retry).       *)
RequestsAfterOpeningBounded ==
    state = "open" => \E c \in Callers :
        spilled[c] = 0 /\ \A d \in Callers \ {c} : spilled[d] <= MaxRetries

(* Every get_json ends, whatever the upstream answers, the breaker does    *)
(* and the cache holds (get_json, _get_with_retry).                        *)
EveryCallEnds == \A c \in Callers : pc[c] # "idle" ~> pc[c] = "idle"

(* Once the upstream answers well for good, the callers eventually stop    *)
(* being told that the provider is unavailable: a misshapen payload that   *)
(* was cached before, or is written to the cache after, expires, and the   *)
(* breaker closes (get_json, CircuitBreaker.call, Cache.set).              *)
RecoversOnceUpstreamAnswersWell ==
    (<>[](\A k \in Keys : answer[k] = "good"))
      => <>[](\A c \in Callers : reply[c] \notin {"unavailable", "bad_payload"})

(* Callers get as far as the breaker: eventually the cache does not fail,  *)
(* and clients go away only while their request is under way upstream.     *)
BreakerIsReached ==
    <>[][ \A c \in Callers :
            ~CacheError(c) /\ (CancelCaller(c) => pc[c] \in {"waiting", "backoff"}) ]_clientVars

(* Once the upstream answers well for good, the breaker closes and stays   *)
(* closed, however many callers go away while they are probing it: no      *)
(* cancelled probe can strand it in half_open, and no failure of an older  *)
(* call open it again (call, _maybe_half_open, _on_success).               *)
ClosesOnceUpstreamAnswersWell ==
    (BreakerIsReached /\ <>[](\A k \in Keys : answer[k] = "good")) => <>[](state = "closed")

=============================================================================
