----------------------------- MODULE InMemoryCache -----------------------------
(***************************************************************************)
(* InMemoryCache of app/resilience/cache.py: a dictionary whose entries    *)
(* carry an expiry time that only get looks at, and only get's own key is  *)
(* ever dropped because of it.  Shown to implement TtlCache.               *)
(***************************************************************************)
EXTENDS Naturals

CONSTANTS
    Keys, Values,
    MaxTtl,     \* bound on the ttl arguments
    Nothing     \* None, and the absence of an entry

ASSUME MemoryAssumption ==
    /\ MaxTtl \in Nat
    /\ Nothing \notin [value : Values, left : Nat]

VARIABLES
    store,    \* _store[k]: (value, expires_at), expires_at as the time left
    result,   \* the result of the latest get
    request   \* the latest call and its arguments, or a tick of the clock

vars == <<store, result, request>>

(* An entry with no time left is expired and still in the dictionary. *)
StoreEntries == [value : Values, left : 0 .. MaxTtl]

Requests ==
    {<<"clear">>, <<"tick">>} \cup ({"get", "delete"} \X Keys)
      \cup ({"set"} \X Keys \X Values \X (0 .. MaxTtl))

(* The type of every variable. *)
TypeOK ==
    /\ store \in [Keys -> StoreEntries \cup {Nothing}]
    /\ result \in Values \cup {Nothing}
    /\ request \in Requests

Init ==
    /\ store = [k \in Keys |-> Nothing]
    /\ result = Nothing
    /\ request = <<"clear">>

(* expires_at <= time.monotonic() *)
Expired(e) == e.left = 0

(* get: an expired entry is popped and reported as missing. *)
Get(k) ==
    /\ IF store[k] = Nothing
         THEN result' = Nothing /\ UNCHANGED store
         ELSE IF Expired(store[k])
           THEN store' = [store EXCEPT ![k] = Nothing] /\ result' = Nothing
           ELSE result' = store[k].value /\ UNCHANGED store
    /\ request' = <<"get", k>>

(* Fault: a set keeps the expiry of the entry it replaces. *)
SetKeepsExpiry(k, v, ttl) ==
    /\ store' = [store EXCEPT ![k] =
                   [value |-> v, left |-> IF store[k] = Nothing THEN ttl ELSE store[k].left]]
    /\ UNCHANGED result
    /\ request' = <<"set", k, v, ttl>>

(* set: replaces whatever is there, expired or not. *)
Set(k, v, ttl) ==
    /\ store' = [store EXCEPT ![k] = [value |-> v, left |-> ttl]]
    /\ UNCHANGED result
    /\ request' = <<"set", k, v, ttl>>

(* delete *)
Delete(k) ==
    /\ store' = [store EXCEPT ![k] = Nothing]
    /\ UNCHANGED result
    /\ request' = <<"delete", k>>

(* clear *)
Clear ==
    /\ store' = [k \in Keys |-> Nothing]
    /\ UNCHANGED result
    /\ request' = <<"clear">>

(* Fault: the time left runs below zero, and "= 0" misses the expiry. *)
AgePastZero(e) ==
    IF e = Nothing THEN e ELSE [value |-> e.value, left |-> e.left - 1]

(* One tick of the clock for one entry; nothing leaves the dictionary. *)
Age(e) ==
    IF e = Nothing \/ e.left = 0 THEN e ELSE [value |-> e.value, left |-> e.left - 1]

Tick ==
    /\ store' = [k \in Keys |-> Age(store[k])]
    /\ UNCHANGED result
    /\ request' = <<"tick">>

Next ==
    \/ \E k \in Keys :
          \/ Get(k)
          \/ \E v \in Values, ttl \in 0 .. MaxTtl : Set(k, v, ttl)
          \/ Delete(k)
    \/ Clear
    \/ Tick

Spec == Init /\ [][Next]_vars

-----------------------------------------------------------------------------
(* The entries that are still good, whether or not dead ones lie around. *)
Live == [k \in Keys |->
           IF store[k] = Nothing THEN Nothing
           ELSE IF store[k].left = 0 THEN Nothing ELSE store[k]]

Abstract == INSTANCE TtlCache WITH live <- Live

(* Lazy expiry cannot be observed: the dictionary behaves as a cache from  *)
(* which entries vanish the moment their time is over, so both             *)
(* implementations "honour a TTL" alike (get, set, delete, clear).         *)
ImplementsTtlCache == Abstract!Spec

=============================================================================
