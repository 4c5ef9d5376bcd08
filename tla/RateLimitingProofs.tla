-------------------------- MODULE RateLimitingProofs --------------------------
(***************************************************************************)
(* The safety properties of RateLimiting, for any limit and window, any    *)
(* set of identities, any headers and any paths through proxies.           *)
(***************************************************************************)
EXTENDS RateLimiting, TLAPS, FiniteSetTheorems, SequenceTheorems, WellFoundedInduction

(* The requests let through in the present instant; the next one takes the *)
(* number of them as its own.                                              *)
Now(S) == {g \in S : g.age = 0}

Numbered(S) ==
    IsFiniteSet(S) /\ \A g \in Now(S) : g.nth \in Nat /\ g.nth < Cardinality(Now(S))

GrantsNumbered == \A i \in Identities : Numbered(granted[i])

-----------------------------------------------------------------------------
(* With the limiter in memory. *)

(* The limiter remembers exactly what it let through in the last window,   *)
(* although it prunes only the identity that knocks and deletes others.    *)
RemembersGrants == \A i \in Identities : granted[i] = Memory!RecentHits(i)

UntrackedHaveNoHits == \A i \in Identities \ tracked : hits[i] = {}

(* Between two sweeps an identity ages by no more than the time since the  *)
(* last one.                                                               *)
HeardOfSinceSweep ==
    sinceSweep < Window =>
        \A i \in tracked : \E h \in hits[i] : h.age < Window + sinceSweep

MemoryInv ==
    /\ RemembersGrants
    /\ Memory!NeverOverLimit
    /\ UntrackedHaveNoHits
    /\ HeardOfSinceSweep
    /\ count = [i \in Identities |-> 0]
    /\ left = [i \in Identities |-> 0]

-----------------------------------------------------------------------------
(* With the limiter in Redis. *)

(* The grants of the counter there is now, and those of the one before it. *)
OfThisCounter(i) == {g \in granted[i] : g.age <= Window - left[i]}
OfTheLast(i) == {g \in granted[i] : g.age > Window - left[i]}

(* At most one counter that is gone can still have grants in the window.   *)
AtMostOneBefore(i) ==
    IF left[i] = 0
    THEN Cardinality(granted[i]) <= Limit /\ Now(granted[i]) = {}
    ELSE Cardinality(OfTheLast(i)) <= Limit

(* A counter lets no more through than it counts. *)
CountedAtLeast(i) ==
    left[i] > 0 =>
        /\ Cardinality(OfThisCounter(i)) <= count[i]
        /\ Cardinality(OfThisCounter(i)) <= Limit

RedisInv ==
    /\ \A i \in Identities : AtMostOneBefore(i) /\ CountedAtLeast(i)
    /\ Redis!EveryCounterExpires
    /\ hits = [i \in Identities |-> {}]
    /\ tracked = {}

IInv ==
    /\ TypeOK
    /\ GrantsNumbered
    /\ backend = "memory" => MemoryInv
    /\ backend = "redis" => RedisInv
    /\ ChargedToCaller

-----------------------------------------------------------------------------
(* Facts about the operators. *)

(* The limiters count with the same operator. *)
LEMMA SameCardinality ==
    \A S : Memory!Cardinality(S) = Cardinality(S) /\ Redis!Cardinality(S) = Cardinality(S)
BY DEF Memory!Cardinality, Redis!Cardinality, Cardinality

(* A loop over reversed(hops) that finds anything finds a last one. *)
LEMMA LastExists ==
    ASSUME NEW L \in Nat, NEW S \in SUBSET (1 .. L), S # {}
    PROVE  \E n \in S : \A m \in S : m <= n
<1> DEFINE T == {L - n : n \in S}
<1>1. T \subseteq Nat /\ T # {}
  <2>1. \A n \in S : L - n \in Nat
    OBVIOUS
  <2>2. PICK n \in S : TRUE
    OBVIOUS
  <2>3. L - n \in T
    OBVIOUS
  <2> QED
    BY <2>1, <2>3
<1>2. \E x \in T : \A y \in T : <<y, x>> \notin OpToRel(<, Nat)
  <2> HIDE DEF T
  <2> QED
    BY <1>1, NatLessThanWellFounded, WFMin
<1>3. \E x \in T : \A y \in T : ~(y < x)
  BY <1>1, <1>2 DEF OpToRel
<1>4. PICK n \in S : \A y \in T : ~(y < L - n)
  BY <1>3
<1>5. \A m \in S : L - m \in T
  OBVIOUS
<1> HIDE DEF T
<1>6. \A m \in S : ~(L - m < L - n)
  BY <1>4, <1>5
<1>7. \A m \in S : m \in Nat
  OBVIOUS
<1>8. \A m \in S : m <= n
  BY <1>6, <1>7
<1> QED
  BY <1>8

(* ... and First names it. *)
LEMMA FirstIsLast ==
    ASSUME NEW S \in SUBSET Nat, NEW n \in S, \A m \in S : m <= n
    PROVE  First(S) = n
<1>1. \A k \in S : (\A m \in S : m <= k) => k = n
  OBVIOUS
<1> QED
  BY <1>1 DEF First

(* X-Forwarded-For ends with the real path, without the peer. *)
LEMMA PathEndsHeader ==
    ASSUME NEW V, NEW w \in Seq(V), NEW p \in Seq(V), p # << >>
    PROVE  /\ Len(w \o SubSeq(p, 1, Len(p) - 1)) = Len(w) + (Len(p) - 1)
           /\ \A k \in 1 .. (Len(p) - 1) :
                (w \o SubSeq(p, 1, Len(p) - 1))[Len(w) + k] = p[k]
<1> DEFINE s == SubSeq(p, 1, Len(p) - 1)
<1>1. Len(p) \in Nat \ {0} /\ Len(w) \in Nat
  OBVIOUS
<1>2. s \in Seq(V) /\ Len(s) = Len(p) - 1
  <2>1. \A k \in 1 .. (Len(p) - 1) : p[k] \in V
    BY <1>1
  <2>2. Len(p) - 1 \in Int /\ 1 \in Int
    BY <1>1
  <2>3. s \in Seq(V) /\ Len(s) = IF 1 <= Len(p) - 1 THEN (Len(p) - 1) - 1 + 1 ELSE 0
    BY <2>1, <2>2, SubSeqProperties
  <2>4. \A n \in Nat \ {0} : (IF 1 <= n - 1 THEN (n - 1) - 1 + 1 ELSE 0) = n - 1
    OBVIOUS
  <2> HIDE DEF s
  <2> QED
    BY <1>1, <2>3, <2>4
<1>3. \A k \in 1 .. (Len(p) - 1) : s[k] = p[k]
  BY <1>1
<1> HIDE DEF s
<1>4. w \o s \in Seq(V) /\ Len(w \o s) = Len(w) + (Len(p) - 1)
  BY <1>1, <1>2
<1>5. \A k \in 1 .. Len(s) : (w \o s)[Len(w) + k] = s[k]
  BY <1>1, <1>2
<1>6. \A k \in 1 .. (Len(p) - 1) : (w \o s)[Len(w) + k] = p[k]
  BY <1>2, <1>3, <1>5
<1> QED
  BY <1>4, <1>6 DEF s

(* client_ip finds the nearest sender outside our networks: what the sender *)
(* wrote into the header comes before the real path.                       *)
LEMMA IdentityIsCaller ==
    ASSUME NEW q \in Requests
    PROVE  Identity(q) = Caller(q) /\ Identity(q) \in Identities
<1>1. /\ q.written \in Seq(Identities \cup {Blank})
      /\ q.path \in Seq(Identities \ {Blank})
      /\ q.path # << >> => q.path[1] \notin Trusted
  BY GuardAssumption
<1>2. CASE q.path = << >>
  BY <1>2, GuardAssumption DEF Identity, Caller
<1>3. CASE q.path # << >>
  <2> DEFINE L == Len(q.path)
             W == Len(q.written)
             h == Header(q)
  <2>1. L \in Nat \ {0} /\ W \in Nat
    BY <1>1, <1>3
  <2>2. Strangers(q) = {k \in 1 .. L : q.path[k] \notin Trusted}
    BY DEF Strangers
  <2>3. \A k \in 1 .. L : q.path[k] \in Identities \ {Blank}
    BY <1>1
  <2>4. PICK n \in Strangers(q) : \A m \in Strangers(q) : m <= n
    <3>1. Strangers(q) \in SUBSET (1 .. L) /\ 1 \in Strangers(q)
      BY <1>1, <1>3, <2>1, <2>2
    <3> HIDE DEF L
    <3> QED
      BY <2>1, <3>1, LastExists
  <2>5. Caller(q) = q.path[n]
    <3>1. First(Strangers(q)) = n
      BY <2>1, <2>2, <2>4, FirstIsLast
    <3> QED
      BY <1>3, <3>1 DEF Caller, First
  <2>6. CASE q.path[L] \notin Trusted
    <3>1. n = L
      BY <2>1, <2>2, <2>4, <2>6
    <3> QED
      BY <1>3, <2>1, <2>3, <2>5, <2>6, <3>1 DEF Identity, ClientIp, Trusts
  <2>7. CASE q.path[L] \in Trusted
    <3> DEFINE S == {k \in Hops(h) : ~Trusts(h[k])}
    <3>1. /\ Len(h) = W + (L - 1)
          /\ \A k \in 1 .. (L - 1) : h[W + k] = q.path[k]
      <4> DEFINE V == Identities \cup {Blank}
                 w == q.written
                 p == q.path
      <4>1. w \in Seq(V) /\ p \in Seq(V) /\ p # << >>
        BY <1>1, <1>3
      <4>2. h = q.written \o SubSeq(q.path, 1, Len(q.path) - 1)
        BY DEF Header
      <4> HIDE DEF h, V, w, p
      <4>3. /\ Len(w \o SubSeq(p, 1, Len(p) - 1)) = Len(w) + (Len(p) - 1)
            /\ \A k \in 1 .. (Len(p) - 1) :
                 (w \o SubSeq(p, 1, Len(p) - 1))[Len(w) + k] = p[k]
        BY <4>1, PathEndsHeader, Zenon
      <4> QED
        BY <4>2, <4>3 DEF w, p
    <3>2. n \in 1 .. (L - 1)
      BY <2>1, <2>2, <2>4, <2>7
    <3>3. Identity(q) = IF S = {} THEN q.path[L] ELSE h[First(S)]
      BY <1>3, <2>7 DEF Identity, ClientIp, Trusts
    <3> HIDE DEF h, L, W
    <3>4. W + n \in S
      <4>1. W + n \in 1 .. (W + (L - 1))
        BY <2>1, <3>2
      <4> QED
        BY <2>1, <2>2, <2>3, <2>4, <3>1, <3>2, <4>1 DEF Hops, Trusts
    <3>5. \A k \in S : k \in 1 .. (W + (L - 1)) /\ h[k] \notin Trusted
      BY <3>1 DEF Hops, Trusts
    <3> HIDE DEF S
    <3>6. ASSUME NEW k \in S, k > W + n PROVE FALSE
      <4>1. k - W \in 1 .. (L - 1) /\ k - W > n /\ k = W + (k - W)
        BY <2>1, <3>2, <3>5, <3>6
      <4>2. h[k] = q.path[k - W]
        BY <3>1, <4>1
      <4>3. k - W \in Strangers(q)
        BY <2>1, <2>2, <3>5, <4>1, <4>2
      <4> QED
        BY <2>1, <2>4, <3>2, <4>1, <4>3
    <3>7. First(S) = W + n
      <4>1. S \in SUBSET Nat /\ \A k \in S : k <= W + n
        BY <2>1, <3>2, <3>5, <3>6
      <4> QED
        BY <3>4, <4>1, FirstIsLast
    <3> QED
      BY <2>1, <2>2, <2>3, <2>4, <2>5, <3>1, <3>2, <3>3, <3>4, <3>7
  <2> QED
    BY <2>6, <2>7
<1> QED
  BY <1>2, <1>3

(* Mapping a set makes it no larger. *)
LEMMA ImageIsNoLarger ==
    ASSUME NEW S, IsFiniteSet(S), NEW f
    PROVE  /\ IsFiniteSet({f[x] : x \in S})
           /\ Cardinality({f[x] : x \in S}) <= Cardinality(S)
<1> DEFINE T == {f[x] : x \in S}
           g == [x \in S |-> f[x]]
<1>1. g \in Surjection(S, T)
  BY DEF Surjection
<1> QED
  BY <1>1, FS_Surjection

(* Ageing a set of hits, and forgetting those that leave the window. *)
LEMMA AgedIsNoLarger ==
    ASSUME NEW S, IsFiniteSet(S)
    PROVE  /\ IsFiniteSet(Memory!AgeAll(S)) /\ Cardinality(Memory!AgeAll(S)) <= Cardinality(S)
           /\ IsFiniteSet(Redis!AgeAll(S)) /\ Cardinality(Redis!AgeAll(S)) <= Cardinality(S)
<1> DEFINE f == [x \in S |-> [x EXCEPT !.age = Memory!Older(x.age)]]
           g == [x \in S |-> [x EXCEPT !.age = x.age + 1]]
<1>1. Memory!AgeAll(S) = {f[x] : x \in S} /\ Redis!AgeAll(S) = {g[x] : x \in S}
  BY DEF Memory!AgeAll, Redis!AgeAll
<1> HIDE DEF f, g
<1> QED
  BY <1>1, ImageIsNoLarger

(* A request that is let through is one more, and is numbered like the     *)
(* others.                                                                 *)
LEMMA OneMoreGrant ==
    ASSUME NEW S, Numbered(S)
    PROVE  /\ Redis!WithNewGrant(S) = Memory!WithNewHit(S)
           /\ Numbered(Memory!WithNewHit(S))
           /\ Cardinality(Memory!WithNewHit(S)) = Cardinality(S) + 1
<1> DEFINE k == Cardinality(Now(S))
           new == [age |-> 0, nth |-> k]
           T == S \cup {new}
<1>1. Memory!WithNewHit(S) = T /\ Redis!WithNewGrant(S) = T
  BY SameCardinality DEF Memory!WithNewHit, Redis!WithNewGrant, Now
<1>2. IsFiniteSet(S) /\ IsFiniteSet(Now(S)) /\ k \in Nat
  BY FS_Subset, FS_CardinalityType DEF Numbered, Now
<1>3. new \notin S
  BY <1>2 DEF Numbered, Now
<1>4. IsFiniteSet(T) /\ Cardinality(T) = Cardinality(S) + 1
  BY <1>2, <1>3, FS_AddElement
<1>5. Now(T) = Now(S) \cup {new} /\ new \notin Now(S)
  BY <1>3 DEF Now
<1>6. Cardinality(Now(T)) = k + 1
  BY <1>2, <1>5, FS_AddElement
<1>7. \A g \in Now(T) : g.nth < k + 1
  <2>1. \A g \in Now(S) : g.nth < k
    BY DEF Numbered
  <2>2. \A g \in Now(S) : g.nth \in Nat
    BY DEF Numbered
  <2> HIDE DEF k
  <2> QED
    BY <1>2, <1>5, <2>1, <2>2
<1>8. \A g \in Now(T) : g.nth \in Nat
  BY <1>2, <1>5 DEF Numbered
<1>9. Numbered(T)
  BY <1>4, <1>6, <1>7, <1>8 DEF Numbered
<1> QED
  BY <1>1, <1>4, <1>9

(* It is of the present instant, and nothing else changes. *)
LEMMA NewHitIsNow ==
    ASSUME NEW A, 0 \in A, NEW S \in SUBSET [age : A, nth : Nat], Numbered(S)
    PROVE  /\ Memory!WithNewHit(S) \in SUBSET [age : A, nth : Nat]
           /\ \E n \in Nat : Memory!WithNewHit(S) = S \cup {[age |-> 0, nth |-> n]}
<1> DEFINE k == Cardinality(Now(S))
<1>1. k \in Nat
  BY FS_Subset, FS_CardinalityType DEF Numbered, Now
<1>2. Memory!WithNewHit(S) = S \cup {[age |-> 0, nth |-> k]}
  BY SameCardinality DEF Memory!WithNewHit, Now
<1> HIDE DEF k
<1> QED
  BY <1>1, <1>2

(* Nothing that has aged is of the present instant. *)
LEMMA AgedIsNotNow ==
    ASSUME NEW S \in SUBSET [age : 0 .. (Window - 1), nth : Nat], IsFiniteSet(S)
    PROVE  /\ Memory!WithinWindow(Memory!AgeAll(S)) = Redis!WithinWindow(Redis!AgeAll(S))
           /\ Redis!WithinWindow(Redis!AgeAll(S))
                \in SUBSET [age : 1 .. (Window - 1), nth : Nat]
           /\ Numbered(Redis!WithinWindow(Redis!AgeAll(S)))
           /\ Now(Redis!WithinWindow(Redis!AgeAll(S))) = {}
           /\ Cardinality(Redis!WithinWindow(Redis!AgeAll(S))) <= Cardinality(S)
<1> DEFINE T == Redis!WithinWindow(Redis!AgeAll(S))
<1> USE GuardAssumption DEF Memory!LimiterAssumption
<1>1. Memory!AgeAll(S) = Redis!AgeAll(S)
  BY DEF Memory!AgeAll, Redis!AgeAll, Memory!Older, Memory!OldAge
<1>2. Memory!WithinWindow(Memory!AgeAll(S)) = T
  BY <1>1 DEF Memory!WithinWindow, Redis!WithinWindow
<1>3. T \in SUBSET [age : 1 .. (Window - 1), nth : Nat]
  BY DEF Redis!WithinWindow, Redis!AgeAll
<1>4. IsFiniteSet(T) /\ Cardinality(T) <= Cardinality(S)
  <2>1. /\ IsFiniteSet(Redis!AgeAll(S))
        /\ Cardinality(Redis!AgeAll(S)) <= Cardinality(S)
    BY AgedIsNoLarger
  <2>2. T \in SUBSET Redis!AgeAll(S)
    BY DEF Redis!WithinWindow
  <2>3. IsFiniteSet(T) /\ Cardinality(T) <= Cardinality(Redis!AgeAll(S))
    BY <2>1, <2>2, FS_Subset
  <2>4. /\ Cardinality(T) \in Nat
        /\ Cardinality(S) \in Nat
        /\ Cardinality(Redis!AgeAll(S)) \in Nat
    BY <2>1, <2>3, FS_CardinalityType
  <2> HIDE DEF T
  <2> QED
    BY <2>1, <2>3, <2>4
<1>5. Now(T) = {}
  <2> HIDE DEF T
  <2> QED
    BY <1>3 DEF Now
<1> QED
  BY <1>2, <1>3, <1>4, <1>5 DEF Numbered

-----------------------------------------------------------------------------
(* The steps of the limiter in memory. *)

(* What check finds after sweeping and pruning is what it let through, so  *)
(* it decides by that.                                                     *)
LEMMA CheckByGrants ==
    ASSUME IInv, backend = "memory", NEW i \in Identities, Memory!Check(i)
    PROVE  /\ allowed' = (Cardinality(granted[i]) < Limit)
           /\ granted' = IF Cardinality(granted[i]) < Limit
                           THEN [granted EXCEPT ![i] = Memory!WithNewHit(@)] ELSE granted
           /\ hits' = [j \in Identities |->
                         IF j = i THEN granted'[i] ELSE IF j \in Memory!Kept THEN hits[j] ELSE {}]
           /\ tracked' = Memory!Kept \cup {i}
           /\ sinceSweep' = IF sinceSweep = Window THEN 0 ELSE sinceSweep
<1> DEFINE recent == IF i \in Memory!Kept THEN Memory!RecentHits(i) ELSE {}
<1>1. recent = granted[i]
  BY DEF IInv, MemoryInv, RemembersGrants, UntrackedHaveNoHits, Memory!Kept, Memory!Idle,
      Memory!RecentHits
<1>2. /\ allowed' = Memory!HasRoom(recent)
      /\ sinceSweep' = IF Memory!SweepDue THEN 0 ELSE sinceSweep
      /\ tracked' = Memory!Kept \cup {i}
      /\ hits' = [j \in Identities |->
                    IF j = i THEN (IF Memory!HasRoom(recent) THEN Memory!WithNewHit(recent) ELSE recent)
                    ELSE IF j \in Memory!Kept THEN hits[j] ELSE {}]
      /\ granted' = IF Memory!HasRoom(recent)
                      THEN [granted EXCEPT ![i] = Memory!WithNewHit(@)] ELSE granted
  BY DEF Memory!Check
<1>3. Memory!HasRoom(recent) = (Cardinality(granted[i]) < Limit)
  BY <1>1, SameCardinality DEF Memory!HasRoom
<1>4. granted \in [Identities -> SUBSET [age : 0 .. Window - 1, nth : Nat]]
  BY DEF IInv, TypeOK, Memory!TypeOK
<1> HIDE DEF recent
<1> QED
  BY <1>1, <1>2, <1>3, <1>4 DEF Memory!SweepDue

LEMMA MemoryCheckKept ==
    ASSUME IInv, backend = "memory", NEW i \in Identities, Memory!Check(i), UNCHANGED redisState
    PROVE  Memory!TypeOK' /\ GrantsNumbered' /\ MemoryInv'
<1> DEFINE full == ~(Cardinality(granted[i]) < Limit)
           now == granted'[i]
<1> USE GuardAssumption DEF Memory!LimiterAssumption
<1>1. /\ Limit \in Nat \ {0} /\ Window \in Nat \ {0}
      /\ hits \in [Identities -> SUBSET [age : 0 .. Memory!OldAge, nth : Nat]]
      /\ tracked \subseteq Identities
      /\ sinceSweep \in 0 .. Window
      /\ granted \in [Identities -> SUBSET [age : 0 .. (Window - 1), nth : Nat]]
      /\ \A j \in Identities : Numbered(granted[j])
      /\ MemoryInv
  BY DEF IInv, TypeOK, Memory!TypeOK, GrantsNumbered
<1>2. /\ allowed' = ~full
      /\ granted' = IF full THEN granted ELSE [granted EXCEPT ![i] = Memory!WithNewHit(@)]
      /\ hits' = [j \in Identities |->
                    IF j = i THEN granted'[i] ELSE IF j \in Memory!Kept THEN hits[j] ELSE {}]
      /\ tracked' = Memory!Kept \cup {i}
      /\ sinceSweep' = IF sinceSweep = Window THEN 0 ELSE sinceSweep
  BY CheckByGrants
<1>3. Cardinality(granted[i]) \in Nat /\ Cardinality(granted[i]) <= Limit
  BY <1>1, SameCardinality, FS_CardinalityType DEF MemoryInv, Memory!NeverOverLimit, Numbered
<1>4. /\ now \in SUBSET [age : 0 .. (Window - 1), nth : Nat]
      /\ Numbered(now)
      /\ Cardinality(now) <= Limit
      /\ \E h \in now : h.age < Window
  <2>1. CASE full
    <3>1. now = granted[i]
      BY <1>2, <2>1
    <3>2. granted[i] # {}
      BY <1>1, <1>3, <2>1, FS_EmptySet DEF Numbered
    <3> QED
      BY <1>1, <1>3, <3>1, <3>2
  <2>2. CASE ~full
    <3>1. now = Memory!WithNewHit(granted[i])
      BY <1>1, <1>2, <2>2
    <3>2. Numbered(now) /\ Cardinality(now) = Cardinality(granted[i]) + 1
      BY <1>1, <3>1, OneMoreGrant
    <3>3. /\ now \in SUBSET [age : 0 .. (Window - 1), nth : Nat]
          /\ \E n \in Nat : now = granted[i] \cup {[age |-> 0, nth |-> n]}
      <4> DEFINE A == 0 .. (Window - 1)
      <4>1. 0 \in A /\ granted[i] \in SUBSET [age : A, nth : Nat] /\ Numbered(granted[i])
        BY <1>1
      <4> HIDE DEF A
      <4>2. /\ Memory!WithNewHit(granted[i]) \in SUBSET [age : A, nth : Nat]
            /\ \E n \in Nat : Memory!WithNewHit(granted[i])
                               = granted[i] \cup {[age |-> 0, nth |-> n]}
        BY <4>1, NewHitIsNow
      <4> QED
        BY <3>1, <4>2 DEF A
    <3>4. \E h \in now : h.age < Window
      <4>1. PICK n \in Nat : now = granted[i] \cup {[age |-> 0, nth |-> n]}
        BY <3>3
      <4>2. [age |-> 0, nth |-> n] \in now /\ [age |-> 0, nth |-> n].age < Window
        BY <1>1, <4>1
      <4> QED
        BY <4>2
    <3> QED
      BY <1>3, <2>2, <3>2, <3>3, <3>4
  <2> QED
    BY <2>1, <2>2
<1>5. /\ granted'[i] = now
      /\ \A j \in Identities \ {i} : granted'[j] = granted[j]
      /\ granted' \in [Identities -> SUBSET [age : 0 .. (Window - 1), nth : Nat]]
  BY <1>1, <1>2, <1>4
<1>6. GrantsNumbered'
  BY <1>1, <1>4, <1>5 DEF GrantsNumbered
<1>7. Memory!Kept \subseteq tracked
  BY DEF Memory!Kept
<1>8. hits' \in [Identities -> SUBSET [age : 0 .. Memory!OldAge, nth : Nat]]
  <2>1. now \in SUBSET [age : 0 .. Memory!OldAge, nth : Nat]
    BY <1>1, <1>4 DEF Memory!OldAge
  <2> QED
    BY <1>1, <1>2, <2>1
<1>9. Memory!TypeOK'
  BY <1>1, <1>2, <1>5, <1>7, <1>8 DEF Memory!TypeOK
<1>10. RemembersGrants'
  <2> SUFFICES ASSUME NEW j \in Identities
               PROVE  granted'[j] = {h \in hits'[j] : h.age < Window}
    BY DEF RemembersGrants, Memory!RecentHits, Memory!Recent
  <2>1. CASE j = i
    BY <1>1, <1>2, <1>4, <2>1
  <2>2. CASE j # i
    <3>1. granted'[j] = {h \in hits[j] : h.age < Window}
      BY <1>1, <1>5, <2>2 DEF MemoryInv, RemembersGrants, Memory!RecentHits, Memory!Recent
    <3>2. CASE j \in Memory!Kept
      BY <1>2, <2>2, <3>1, <3>2
    <3>3. CASE j \notin Memory!Kept
      <4>1. granted'[j] = {}
        BY <1>1, <3>1, <3>3 DEF MemoryInv, UntrackedHaveNoHits, Memory!Kept, Memory!Idle,
            Memory!RecentHits, Memory!Recent
      <4> QED
        BY <1>2, <2>2, <3>3, <4>1
    <3> QED
      BY <3>2, <3>3
  <2> QED
    BY <2>1, <2>2
<1>11. Memory!NeverOverLimit'
  <2>1. \A j \in Identities : Cardinality(granted[j]) <= Limit
    BY <1>1, SameCardinality DEF MemoryInv, Memory!NeverOverLimit
  <2>2. \A j \in Identities : Cardinality(granted'[j]) <= Limit
    BY <1>4, <1>5, <2>1
  <2> QED
    BY <2>2, SameCardinality DEF Memory!NeverOverLimit
<1>12. UntrackedHaveNoHits'
  BY <1>1, <1>2, <1>7 DEF UntrackedHaveNoHits
<1>13. HeardOfSinceSweep'
  <2> SUFFICES ASSUME NEW j \in tracked'
               PROVE  \E h \in hits'[j] : h.age < Window + sinceSweep'
    BY DEF HeardOfSinceSweep
  <2>1. sinceSweep' \in Nat
    BY <1>1, <1>2
  <2>2. CASE j = i
    <3>1. \E h \in hits'[j] : h.age \in Nat /\ h.age < Window
      BY <1>2, <1>4, <2>2
    <3> QED
      BY <1>1, <2>1, <3>1
  <2>3. CASE j # i
    <3>1. j \in Memory!Kept /\ j \in tracked /\ j \in Identities /\ hits'[j] = hits[j]
      BY <1>1, <1>2, <1>7, <2>3
    <3>2. CASE sinceSweep = Window
      <4>1. Memory!RecentHits(j) # {}
        BY <3>1, <3>2 DEF Memory!Kept, Memory!Idle, Memory!SweepDue
      <4>2. \E h \in hits[j] : h.age < Window
        BY <4>1 DEF Memory!RecentHits, Memory!Recent
      <4> QED
        BY <1>1, <1>2, <3>1, <3>2, <4>2
    <3>3. CASE sinceSweep # Window
      BY <1>1, <1>2, <3>1, <3>3 DEF MemoryInv, HeardOfSinceSweep
    <3> QED
      BY <3>2, <3>3
  <2> QED
    BY <2>2, <2>3
<1> QED
  BY <1>1, <1>6, <1>9, <1>10, <1>11, <1>12, <1>13 DEF MemoryInv, redisState

LEMMA MemoryTickKept ==
    ASSUME IInv, backend = "memory", Memory!Tick, UNCHANGED redisState
    PROVE  Memory!TypeOK' /\ GrantsNumbered' /\ MemoryInv'
<1> USE GuardAssumption DEF Memory!LimiterAssumption
<1>1. /\ Limit \in Nat \ {0} /\ Window \in Nat \ {0}
      /\ hits \in [Identities -> SUBSET [age : 0 .. Memory!OldAge, nth : Nat]]
      /\ tracked \subseteq Identities
      /\ sinceSweep \in 0 .. Window
      /\ granted \in [Identities -> SUBSET [age : 0 .. (Window - 1), nth : Nat]]
      /\ allowed \in BOOLEAN
      /\ \A j \in Identities : Numbered(granted[j])
      /\ MemoryInv
  BY DEF IInv, TypeOK, Memory!TypeOK, GrantsNumbered
<1>2. /\ hits' = [i \in Identities |-> Memory!AgeAll(hits[i])]
      /\ granted' = [i \in Identities |-> Memory!WithinWindow(Memory!AgeAll(granted[i]))]
      /\ sinceSweep' = IF sinceSweep < Window THEN sinceSweep + 1 ELSE sinceSweep
      /\ tracked' = tracked /\ allowed' = allowed
  BY DEF Memory!Tick
<1>3. ASSUME NEW i \in Identities
      PROVE  /\ granted'[i] \in SUBSET [age : 0 .. (Window - 1), nth : Nat]
             /\ Numbered(granted'[i])
             /\ Cardinality(granted'[i]) <= Cardinality(granted[i])
  <2> DEFINE T == Redis!WithinWindow(Redis!AgeAll(granted[i]))
  <2>1. /\ granted[i] \in SUBSET [age : 0 .. (Window - 1), nth : Nat]
        /\ IsFiniteSet(granted[i])
    BY <1>1 DEF Numbered
  <2>2. /\ Memory!WithinWindow(Memory!AgeAll(granted[i])) = T
        /\ T \in SUBSET [age : 1 .. (Window - 1), nth : Nat]
        /\ Numbered(T)
        /\ Cardinality(T) <= Cardinality(granted[i])
    BY <2>1, AgedIsNotNow
  <2>3. granted'[i] = T
    BY <1>2, <2>2
  <2> HIDE DEF T
  <2> QED
    BY <1>1, <2>2, <2>3
<1>4. GrantsNumbered'
  BY <1>3 DEF GrantsNumbered
<1>5. \A i \in Identities : Memory!AgeAll(hits[i]) \in SUBSET [age : 0 .. Memory!OldAge, nth : Nat]
  BY <1>1 DEF Memory!AgeAll, Memory!Older, Memory!OldAge
<1>6. Memory!TypeOK'
  BY <1>1, <1>2, <1>3, <1>5 DEF Memory!TypeOK
<1>7. RemembersGrants'
  <2> SUFFICES ASSUME NEW i \in Identities
               PROVE  Memory!WithinWindow(Memory!AgeAll(granted[i]))
                        = {h \in Memory!AgeAll(hits[i]) : h.age < Window}
    BY <1>2 DEF RemembersGrants, Memory!RecentHits, Memory!Recent
  <2>1. /\ hits[i] \in SUBSET [age : 0 .. (2 * Window), nth : Nat]
        /\ granted[i] = {h \in hits[i] : h.age < Window}
    BY <1>1 DEF MemoryInv, RemembersGrants, Memory!RecentHits, Memory!Recent, Memory!OldAge
  <2>2. \A h \in hits[i] : Memory!Older(h.age) < Window => h.age < Window
    BY <1>1, <2>1 DEF Memory!Older, Memory!OldAge
  <2>3. \A h \in hits[i] : [h EXCEPT !.age = Memory!Older(h.age)].age = Memory!Older(h.age)
    BY <2>1
  <2> QED
    BY <2>1, <2>2, <2>3 DEF Memory!WithinWindow, Memory!AgeAll
<1>8. Memory!NeverOverLimit'
  <2>1. \A j \in Identities : Cardinality(granted[j]) <= Limit
    BY <1>1, SameCardinality DEF MemoryInv, Memory!NeverOverLimit
  <2>2. ASSUME NEW j \in Identities PROVE Cardinality(granted'[j]) <= Limit
    <3>1. Cardinality(granted[j]) \in Nat /\ Cardinality(granted'[j]) \in Nat
      BY <1>1, <1>3, FS_CardinalityType DEF Numbered
    <3> QED
      BY <1>1, <1>3, <2>1, <3>1
  <2> QED
    BY <2>2, SameCardinality DEF Memory!NeverOverLimit
<1>9. UntrackedHaveNoHits'
  BY <1>1, <1>2 DEF MemoryInv, UntrackedHaveNoHits, Memory!AgeAll
<1>10. HeardOfSinceSweep'
  <2> SUFFICES ASSUME sinceSweep' < Window, NEW j \in tracked'
               PROVE  \E h \in hits'[j] : h.age < Window + sinceSweep'
    BY DEF HeardOfSinceSweep
  <2>1. sinceSweep < Window /\ sinceSweep' = sinceSweep + 1 /\ j \in tracked /\ j \in Identities
    BY <1>1, <1>2
  <2>2. PICK h \in hits[j] : h.age < Window + sinceSweep
    BY <1>1, <2>1 DEF MemoryInv, HeardOfSinceSweep
  <2>3. h \in [age : 0 .. Memory!OldAge, nth : Nat]
    BY <1>1, <2>1, <2>2
  <2>4. [h EXCEPT !.age = Memory!Older(h.age)] \in hits'[j]
    BY <1>2, <2>1, <2>2 DEF Memory!AgeAll
  <2>5. [h EXCEPT !.age = Memory!Older(h.age)].age < Window + sinceSweep'
    BY <1>1, <2>1, <2>2, <2>3 DEF Memory!Older, Memory!OldAge
  <2> QED
    BY <2>4, <2>5
<1> QED
  BY <1>1, <1>4, <1>6, <1>7, <1>8, <1>9, <1>10 DEF MemoryInv, redisState

-----------------------------------------------------------------------------
(* The steps of the limiter in Redis. *)

LEMMA RedisCheckKept ==
    ASSUME IInv, backend = "redis", NEW i \in Identities,
           Redis!Check(i) \/ Redis!CheckLost(i), UNCHANGED memoryState
    PROVE  Redis!TypeOK' /\ GrantsNumbered' /\ RedisInv'
<1> USE GuardAssumption DEF Redis!LimiterAssumption
<1> DEFINE Window0 == 0 .. (Window - 1)
           S == granted[i]
           T == granted'[i]
<1>1. /\ Limit \in Nat \ {0} /\ Window \in Nat \ {0} /\ CountCap \in Nat /\ CountCap > Limit
      /\ count \in [Identities -> 0 .. CountCap]
      /\ left \in [Identities -> 0 .. Window]
      /\ granted \in [Identities -> SUBSET [age : Window0, nth : Nat]]
      /\ \A j \in Identities : Numbered(granted[j])
      /\ RedisInv
  BY DEF IInv, TypeOK, Redis!TypeOK, GrantsNumbered
<1>2. /\ count' = [count EXCEPT ![i] = Redis!Incremented(i)]
      /\ left' = [left EXCEPT ![i] = IF @ = 0 THEN Window ELSE @]
      /\ Redis!Incremented(i) = IF count[i] < CountCap THEN count[i] + 1 ELSE count[i]
  BY DEF Redis!Check, Redis!CheckLost, Redis!Transaction, Redis!ExpireNX, Redis!Incremented
<1>3. \/ granted' = granted
      \/ /\ granted' = [granted EXCEPT ![i] = Redis!WithNewGrant(@)]
         /\ Redis!Incremented(i) <= Limit
  BY DEF Redis!Check, Redis!CheckLost, Redis!WithinLimit
<1>4. /\ T \in SUBSET [age : Window0, nth : Nat]
      /\ Numbered(T)
      /\ \/ T = S
         \/ /\ \E n \in Nat : T = S \cup {[age |-> 0, nth |-> n]}
            /\ Redis!Incremented(i) <= Limit
  <2>1. 0 \in Window0 /\ S \in SUBSET [age : Window0, nth : Nat] /\ Numbered(S)
    BY <1>1
  <2>2. CASE granted' = granted
    BY <2>1, <2>2
  <2>3. CASE granted' = [granted EXCEPT ![i] = Redis!WithNewGrant(@)] /\ Redis!Incremented(i) <= Limit
    <3>1. T = Redis!WithNewGrant(S)
      BY <1>1, <2>3
    <3>2. Redis!WithNewGrant(S) = Memory!WithNewHit(S) /\ Numbered(Memory!WithNewHit(S))
      BY <2>1, OneMoreGrant
    <3> HIDE DEF Window0, S, T
    <3>3. /\ Memory!WithNewHit(S) \in SUBSET [age : Window0, nth : Nat]
          /\ \E n \in Nat : Memory!WithNewHit(S) = S \cup {[age |-> 0, nth |-> n]}
      BY <2>1, NewHitIsNow
    <3> QED
      BY <2>3, <3>1, <3>2, <3>3
  <2> QED
    BY <1>3, <2>2, <2>3
<1>5. /\ \A j \in Identities \ {i} : granted'[j] = granted[j]
      /\ granted' \in [Identities -> SUBSET [age : Window0, nth : Nat]]
  BY <1>1, <1>3, <1>4
<1>6. Redis!TypeOK' /\ GrantsNumbered'
  <2>1. GrantsNumbered'
    BY <1>1, <1>4, <1>5 DEF GrantsNumbered
  <2>2. Redis!Incremented(i) \in 0 .. CountCap
    BY <1>1, <1>2
  <2>3. count' \in [Identities -> 0 .. CountCap]
    BY <1>1, <1>2, <2>2
  <2>4. left' \in [Identities -> 0 .. Window]
    BY <1>1, <1>2
  <2>5. Redis!TypeOK'
    BY <1>5, <2>3, <2>4 DEF Redis!TypeOK
  <2> QED
    BY <2>1, <2>5
<1>7. ASSUME NEW j \in Identities \ {i} PROVE (AtMostOneBefore(j) /\ CountedAtLeast(j))'
  <2>1. count'[j] = count[j] /\ left'[j] = left[j] /\ granted'[j] = granted[j]
    BY <1>1, <1>2, <1>5
  <2> QED
    BY <1>1, <2>1 DEF RedisInv, AtMostOneBefore, CountedAtLeast, OfThisCounter, OfTheLast
<1>8. /\ IsFiniteSet(S) /\ IsFiniteSet(T)
      /\ \A U \in SUBSET S : IsFiniteSet(U) /\ Cardinality(U) \in Nat
      /\ Cardinality(S) \in Nat
  BY <1>1, <1>4, FS_Subset, FS_CardinalityType DEF Numbered
<1>9. (AtMostOneBefore(i) /\ CountedAtLeast(i))'
  <2> DEFINE this == {g \in T : g.age <= Window - left'[i]}
             last == {g \in T : g.age > Window - left'[i]}
  <2> SUFFICES /\ left'[i] > 0
               /\ Cardinality(last) <= Limit
               /\ Cardinality(this) <= count'[i]
               /\ Cardinality(this) <= Limit
    BY DEF AtMostOneBefore, CountedAtLeast, OfThisCounter, OfTheLast
  <2>0. /\ count'[i] = Redis!Incremented(i)
        /\ left'[i] = IF left[i] = 0 THEN Window ELSE left[i]
        /\ left'[i] \in 1 .. Window
    BY <1>1, <1>2
  <2>1. CASE left[i] = 0
    <3>0. count[i] = 0
      BY <1>1, <2>1 DEF RedisInv, Redis!EveryCounterExpires
    <3>1. count'[i] = 1 /\ left'[i] = Window
      BY <1>1, <1>2, <2>0, <2>1, <3>0
    <3>2. Cardinality(S) <= Limit /\ \A g \in S : g.age \in Nat /\ g.age > 0
      BY <1>1, <2>1 DEF RedisInv, AtMostOneBefore, Now
    <3>3. last \in SUBSET S
      BY <1>1, <1>4, <3>1
    <3>4. Cardinality(last) <= Limit
      <4>1. Cardinality(last) <= Cardinality(S) /\ Cardinality(last) \in Nat
        BY <1>8, <3>3, FS_Subset
      <4> HIDE DEF S, last
      <4> QED
        BY <1>1, <1>8, <3>2, <4>1
    <3>5. this = {} \/ \E x : this = {x}
      <4>1. CASE T = S
        BY <1>1, <3>1, <3>2, <4>1
      <4>2. ASSUME NEW n \in Nat, T = S \cup {[age |-> 0, nth |-> n]}
            PROVE  this = {[age |-> 0, nth |-> n]}
        BY <1>1, <3>1, <3>2, <4>2
      <4> QED
        BY <1>4, <4>1, <4>2
    <3> HIDE DEF this, last
    <3>6. Cardinality(this) \in {0, 1}
      <4>1. Cardinality({}) = 0 /\ \A x : Cardinality({x}) = 1
        BY FS_EmptySet, FS_Singleton
      <4> QED
        BY <3>5, <4>1
    <3> QED
      BY <1>1, <2>0, <3>1, <3>4, <3>6
  <2>2. CASE left[i] # 0
    <3>1. /\ left'[i] = left[i] /\ left[i] \in 1 .. Window
          /\ Cardinality(OfTheLast(i)) <= Limit
          /\ Cardinality(OfThisCounter(i)) <= count[i]
          /\ Cardinality(OfThisCounter(i)) <= Limit
      BY <1>1, <2>0, <2>2 DEF RedisInv, AtMostOneBefore, CountedAtLeast
    <3>2. OfThisCounter(i) \in SUBSET S /\ OfTheLast(i) \in SUBSET S
      BY DEF OfThisCounter, OfTheLast
    <3>3. last = OfTheLast(i)
      BY <1>1, <1>4, <3>1 DEF OfTheLast
    <3>4. CASE T = S
      <4>1. this = OfThisCounter(i)
        BY <3>1, <3>4 DEF OfThisCounter
      <4>2. Cardinality(OfThisCounter(i)) \in Nat
        BY <1>8, <3>2
      <4> HIDE DEF this, last
      <4> QED
        BY <1>1, <1>2, <2>0, <3>1, <3>3, <4>1, <4>2
    <3>5. ASSUME NEW n \in Nat, T = S \cup {[age |-> 0, nth |-> n]}, Redis!Incremented(i) <= Limit
          PROVE  Cardinality(this) <= count'[i] /\ Cardinality(this) <= Limit
      <4>1. this = OfThisCounter(i) \cup {[age |-> 0, nth |-> n]}
        BY <1>1, <3>1, <3>5 DEF OfThisCounter
      <4>2. IsFiniteSet(OfThisCounter(i)) /\ Cardinality(OfThisCounter(i)) \in Nat
        BY <1>8, <3>2
      <4> HIDE DEF this, last
      <4>3. Cardinality(this) <= Cardinality(OfThisCounter(i)) + 1 /\ Cardinality(this) \in Nat
        <5> DEFINE new == [age |-> 0, nth |-> n]
        <5>1. this = OfThisCounter(i) \cup {new}
          BY <4>1
        <5> HIDE DEF new
        <5>2. \/ Cardinality(this) = Cardinality(OfThisCounter(i))
              \/ Cardinality(this) = Cardinality(OfThisCounter(i)) + 1
          <6>1. CASE new \in OfThisCounter(i)
            BY <5>1, <6>1
          <6>2. CASE new \notin OfThisCounter(i)
            BY <4>2, <5>1, <6>2, FS_AddElement
          <6> QED
            BY <6>1, <6>2
        <5> QED
          BY <4>2, <5>2
      <4>4. count'[i] = count[i] + 1 /\ count[i] \in Nat /\ count'[i] <= Limit
        BY <1>1, <1>2, <2>0, <3>5
      <4> QED
        BY <1>1, <3>1, <4>2, <4>3, <4>4
    <3> HIDE DEF this, last
    <3> QED
      BY <1>1, <1>4, <2>0, <3>1, <3>3, <3>4, <3>5
  <2> QED
    BY <2>1, <2>2
<1>10. Redis!EveryCounterExpires'
  BY <1>1, <1>2 DEF RedisInv, Redis!EveryCounterExpires
<1>11. hits' = hits /\ tracked' = tracked
  BY DEF memoryState
<1> QED
  BY <1>1, <1>6, <1>7, <1>9, <1>10, <1>11 DEF RedisInv

LEMMA RedisTickKept ==
    ASSUME IInv, backend = "redis", Redis!Tick, UNCHANGED memoryState
    PROVE  Redis!TypeOK' /\ GrantsNumbered' /\ RedisInv'
<1> USE GuardAssumption DEF Redis!LimiterAssumption
<1>1. /\ Limit \in Nat \ {0} /\ Window \in Nat \ {0} /\ CountCap \in Nat
      /\ count \in [Identities -> 0 .. CountCap]
      /\ left \in [Identities -> 0 .. Window]
      /\ granted \in [Identities -> SUBSET [age : 0 .. (Window - 1), nth : Nat]]
      /\ \A j \in Identities : Numbered(granted[j])
      /\ RedisInv
  BY DEF IInv, TypeOK, Redis!TypeOK, GrantsNumbered
<1>2. /\ left' = [i \in Identities |-> IF left[i] > 0 THEN left[i] - 1 ELSE 0]
      /\ count' = [i \in Identities |-> IF left[i] = 1 THEN 0 ELSE count[i]]
      /\ granted' = [i \in Identities |-> Redis!WithinWindow(Redis!AgeAll(granted[i]))]
  BY DEF Redis!Tick
<1>3. ASSUME NEW i \in Identities
      PROVE  /\ granted'[i] \in SUBSET [age : 0 .. (Window - 1), nth : Nat]
             /\ Numbered(granted'[i])
             /\ Now(granted'[i]) = {}
             /\ Cardinality(granted'[i]) <= Cardinality(granted[i])
             /\ IsFiniteSet(granted[i])
  <2> DEFINE T == Redis!WithinWindow(Redis!AgeAll(granted[i]))
  <2>1. /\ granted[i] \in SUBSET [age : 0 .. (Window - 1), nth : Nat]
        /\ IsFiniteSet(granted[i])
    BY <1>1 DEF Numbered
  <2>2. /\ T \in SUBSET [age : 1 .. (Window - 1), nth : Nat]
        /\ Numbered(T)
        /\ Now(T) = {}
        /\ Cardinality(T) <= Cardinality(granted[i])
    BY <2>1, AgedIsNotNow
  <2>3. granted'[i] = T
    BY <1>2
  <2> HIDE DEF T
  <2> QED
    BY <1>1, <2>1, <2>2, <2>3
<1>4. Redis!TypeOK' /\ GrantsNumbered'
  <2>1. GrantsNumbered'
    BY <1>3 DEF GrantsNumbered
  <2>2. Redis!TypeOK'
    BY <1>1, <1>2, <1>3 DEF Redis!TypeOK
  <2> QED
    BY <2>1, <2>2
<1>5. ASSUME NEW i \in Identities PROVE (AtMostOneBefore(i) /\ CountedAtLeast(i))'
  <2>0. /\ Cardinality(granted'[i]) \in Nat
        /\ Cardinality(granted[i]) \in Nat
    BY <1>3, FS_CardinalityType DEF Numbered
  <2>1. CASE left[i] <= 1
    <3>1. left'[i] = 0
      BY <1>1, <1>2, <2>1
    <3>2. Cardinality(granted[i]) <= Limit
      <4>1. CASE left[i] = 0
        BY <1>1, <4>1 DEF RedisInv, AtMostOneBefore
      <4>2. CASE left[i] = 1
        <5>1. OfThisCounter(i) = granted[i]
          BY <1>1, <4>2 DEF OfThisCounter
        <5> QED
          BY <1>1, <4>2, <5>1 DEF RedisInv, CountedAtLeast
      <4> QED
        BY <1>1, <2>1, <4>1, <4>2
    <3>3. Cardinality(granted'[i]) <= Limit
      BY <1>1, <1>3, <2>0, <3>2
    <3> QED
      BY <1>3, <3>1, <3>3 DEF AtMostOneBefore, CountedAtLeast
  <2>2. CASE left[i] > 1
    <3> DEFINE this == {g \in granted'[i] : g.age <= Window - left'[i]}
               last == {g \in granted'[i] : g.age > Window - left'[i]}
    <3>1. left'[i] = left[i] - 1 /\ left'[i] > 0 /\ left[i] \in 0 .. Window /\ count'[i] = count[i]
      BY <1>1, <1>2, <2>2
    <3>2. \A g \in granted'[i] : \E f \in granted[i] :
             g = [f EXCEPT !.age = f.age + 1] /\ g.age = f.age + 1 /\ f.age \in Nat
      BY <1>1, <1>2 DEF Redis!WithinWindow, Redis!AgeAll
    <3>3. this \in SUBSET Redis!AgeAll(OfThisCounter(i)) /\ last \in SUBSET Redis!AgeAll(OfTheLast(i))
      <4>1. ASSUME NEW g \in this PROVE g \in Redis!AgeAll(OfThisCounter(i))
        <5>1. PICK f \in granted[i] :
                g = [f EXCEPT !.age = f.age + 1] /\ g.age = f.age + 1 /\ f.age \in Nat
          BY <3>2
        <5>2. f \in OfThisCounter(i)
          BY <1>1, <3>1, <5>1 DEF OfThisCounter
        <5> QED
          BY <5>1, <5>2 DEF Redis!AgeAll
      <4>2. ASSUME NEW g \in last PROVE g \in Redis!AgeAll(OfTheLast(i))
        <5>1. PICK f \in granted[i] :
                g = [f EXCEPT !.age = f.age + 1] /\ g.age = f.age + 1 /\ f.age \in Nat
          BY <3>2
        <5>2. f \in OfTheLast(i)
          BY <1>1, <3>1, <5>1 DEF OfTheLast
        <5> QED
          BY <5>1, <5>2 DEF Redis!AgeAll
      <4> QED
        BY <4>1, <4>2
    <3>4. IsFiniteSet(OfThisCounter(i)) /\ IsFiniteSet(OfTheLast(i))
      BY <1>3, FS_Subset DEF OfThisCounter, OfTheLast
    <3> HIDE DEF this, last
    <3>5. ASSUME NEW U, IsFiniteSet(U), NEW V \in SUBSET Redis!AgeAll(U)
          PROVE  Cardinality(V) <= Cardinality(U) /\ Cardinality(V) \in Nat /\ Cardinality(U) \in Nat
      <4>1. IsFiniteSet(Redis!AgeAll(U)) /\ Cardinality(Redis!AgeAll(U)) <= Cardinality(U)
        BY <3>5, AgedIsNoLarger
      <4>2. IsFiniteSet(V) /\ Cardinality(V) <= Cardinality(Redis!AgeAll(U))
        BY <3>5, <4>1, FS_Subset
      <4>3. /\ Cardinality(V) \in Nat /\ Cardinality(U) \in Nat
            /\ Cardinality(Redis!AgeAll(U)) \in Nat
        BY <3>5, <4>1, <4>2, FS_CardinalityType
      <4> QED
        BY <4>1, <4>2, <4>3
    <3>6. /\ Cardinality(this) <= Cardinality(OfThisCounter(i))
          /\ Cardinality(last) <= Cardinality(OfTheLast(i))
          /\ Cardinality(this) \in Nat /\ Cardinality(last) \in Nat
          /\ Cardinality(OfThisCounter(i)) \in Nat /\ Cardinality(OfTheLast(i)) \in Nat
      BY <3>3, <3>4, <3>5
    <3>7. /\ Cardinality(OfTheLast(i)) <= Limit
          /\ Cardinality(OfThisCounter(i)) <= count[i]
          /\ Cardinality(OfThisCounter(i)) <= Limit
      BY <1>1, <2>2 DEF RedisInv, AtMostOneBefore, CountedAtLeast
    <3>8. /\ Cardinality(last) <= Limit
          /\ Cardinality(this) <= count'[i]
          /\ Cardinality(this) <= Limit
      BY <1>1, <3>1, <3>6, <3>7
    <3> QED
      BY <3>1, <3>8 DEF this, last, AtMostOneBefore, CountedAtLeast, OfThisCounter, OfTheLast
  <2> QED
    BY <1>1, <2>1, <2>2
<1>6. Redis!EveryCounterExpires'
  BY <1>1, <1>2 DEF RedisInv, Redis!EveryCounterExpires
<1>7. hits' = hits /\ tracked' = tracked
  BY DEF memoryState
<1> QED
  BY <1>1, <1>4, <1>5, <1>6, <1>7 DEF RedisInv

-----------------------------------------------------------------------------
(* The invariant. *)

LEMMA InitEstablishesInvariant ==
    ASSUME Init PROVE IInv
<1> USE GuardAssumption DEF Memory!LimiterAssumption, Redis!LimiterAssumption
<1>1. /\ hits = [i \in Identities |-> {}] /\ tracked = {} /\ sinceSweep = 0 /\ allowed = FALSE
      /\ count = [i \in Identities |-> 0] /\ left = [i \in Identities |-> 0]
      /\ granted = [i \in Identities |-> {}]
      /\ charged = Anonymous /\ caller = Anonymous
  BY DEF Init, Memory!Init, Redis!Init
<1>2. IsFiniteSet({}) /\ Cardinality({}) = 0
  BY FS_EmptySet
<1>3. TypeOK
  <2>1. 0 \in 0 .. Window /\ 0 \in 0 .. CountCap
    OBVIOUS
  <2>2. backend \in {"memory", "redis"} /\ charged \in Identities /\ caller \in Identities
    BY <1>1 DEF Init
  <2>3. Memory!TypeOK
    BY <1>1, <2>1 DEF Memory!TypeOK
  <2>4. Redis!TypeOK
    BY <1>1, <2>1 DEF Redis!TypeOK
  <2> QED
    BY <2>2, <2>3, <2>4 DEF TypeOK
<1>4. GrantsNumbered
  BY <1>1, <1>2 DEF GrantsNumbered, Numbered, Now
<1>5. MemoryInv
  <2>1. Memory!NeverOverLimit
    BY <1>1, <1>2, SameCardinality DEF Memory!NeverOverLimit
  <2> QED
    BY <1>1, <2>1 DEF MemoryInv, RemembersGrants, Memory!RecentHits, UntrackedHaveNoHits,
        HeardOfSinceSweep
<1>6. RedisInv
  BY <1>1, <1>2 DEF RedisInv, AtMostOneBefore, CountedAtLeast, Now, Redis!EveryCounterExpires
<1> QED
  BY <1>1, <1>3, <1>4, <1>5, <1>6 DEF IInv, ChargedToCaller

(* A step of one limiter leaves the types of the other's state alone. *)
LEMMA StepPreservesInvariant ==
    ASSUME IInv, [Next]_vars PROVE IInv'
<1>1. TypeOK /\ GrantsNumbered /\ ChargedToCaller /\ backend \in {"memory", "redis"}
  BY DEF IInv, TypeOK
<1>2. ASSUME backend = "memory", backend' = backend, UNCHANGED redisState,
             Memory!TypeOK', GrantsNumbered', MemoryInv',
             charged' = caller', charged' \in Identities
      PROVE  IInv'
  <2>1. Redis!TypeOK'
    BY <1>1, <1>2 DEF TypeOK, Redis!TypeOK, Memory!TypeOK, redisState
  <2>2. TypeOK'
    BY <1>1, <1>2, <2>1 DEF TypeOK
  <2>3. ChargedToCaller'
    BY <1>2 DEF ChargedToCaller
  <2> QED
    BY <1>2, <2>2, <2>3 DEF IInv
<1>3. ASSUME backend = "redis", backend' = backend, UNCHANGED memoryState,
             Redis!TypeOK', GrantsNumbered', RedisInv',
             charged' = caller', charged' \in Identities
      PROVE  IInv'
  <2>1. Memory!TypeOK'
    BY <1>1, <1>3 DEF TypeOK, Redis!TypeOK, Memory!TypeOK, memoryState
  <2>2. TypeOK'
    BY <1>1, <1>3, <2>1 DEF TypeOK
  <2>3. ChargedToCaller'
    BY <1>3 DEF ChargedToCaller
  <2> QED
    BY <1>3, <2>2, <2>3 DEF IInv
<1>4. ASSUME NEW q \in Requests, EnforceRateLimit(q) PROVE IInv'
  <2>1. Identity(q) = Caller(q) /\ Identity(q) \in Identities
    BY IdentityIsCaller
  <2>2. charged' = caller' /\ charged' \in Identities /\ backend' = backend
    BY <1>4, <2>1 DEF EnforceRateLimit
  <2>3. CASE backend = "memory" /\ Memory!Check(Identity(q)) /\ UNCHANGED redisState
    BY <1>2, <2>1, <2>2, <2>3, MemoryCheckKept
  <2>4. CASE /\ backend = "redis" /\ UNCHANGED memoryState
             /\ Redis!Check(Identity(q)) \/ Redis!CheckLost(Identity(q))
    BY <1>3, <2>1, <2>2, <2>4, RedisCheckKept
  <2> QED
    BY <1>4, <2>3, <2>4 DEF EnforceRateLimit
<1>5. CASE Tick
  <2>1. charged' = caller' /\ charged' \in Identities /\ backend' = backend
    BY <1>1, <1>5 DEF Tick, ChargedToCaller, TypeOK
  <2>2. CASE backend = "memory" /\ Memory!Tick /\ UNCHANGED redisState
    BY <1>2, <2>1, <2>2, MemoryTickKept
  <2>3. CASE backend = "redis" /\ Redis!Tick /\ UNCHANGED memoryState
    BY <1>3, <2>1, <2>3, RedisTickKept
  <2> QED
    BY <1>5, <2>2, <2>3 DEF Tick
<1>6. CASE UNCHANGED vars
  <2>1. /\ backend' = backend /\ hits' = hits /\ tracked' = tracked /\ sinceSweep' = sinceSweep
        /\ allowed' = allowed /\ count' = count /\ left' = left /\ charged' = charged
        /\ granted' = granted /\ caller' = caller
    BY <1>6 DEF vars, memoryState, redisState
  <2>2. TypeOK' /\ GrantsNumbered' /\ ChargedToCaller'
    BY <1>1, <2>1 DEF TypeOK, Memory!TypeOK, Redis!TypeOK, GrantsNumbered, ChargedToCaller
  <2>3. MemoryInv => MemoryInv'
    BY <2>1 DEF MemoryInv, RemembersGrants, Memory!RecentHits, Memory!NeverOverLimit,
        UntrackedHaveNoHits, HeardOfSinceSweep
  <2>4. RedisInv => RedisInv'
    BY <2>1 DEF RedisInv, AtMostOneBefore, CountedAtLeast, OfThisCounter, OfTheLast,
        Redis!EveryCounterExpires
  <2> QED
    BY <2>1, <2>2, <2>3, <2>4 DEF IInv
<1> QED
  BY <1>4, <1>5, <1>6 DEF Next

(* In every reachable state the limiter in memory remembers exactly what   *)
(* it let through in the last window, a counter in Redis bounds what it    *)
(* let through, and the latest request was charged to its caller           *)
(* (enforce_rate_limit, InMemoryRateLimiter.check, RedisRateLimiter.check). *)
THEOREM LimitersInvariant == Spec => []IInv
<1>1. Init => IInv
  BY InitEstablishesInvariant
<1>2. IInv /\ [Next]_vars => IInv'
  BY StepPreservesInvariant
<1> QED
  BY <1>1, <1>2, PTL DEF Spec

(* Both limiters keep the types of their state, whoever knocks and however *)
(* time passes (InMemoryRateLimiter, RedisRateLimiter).                    *)
THEOREM LimitersTypeCorrect == Spec => []TypeOK
<1>1. IInv => TypeOK
  BY DEF IInv
<1> QED
  BY <1>1, LimitersInvariant, PTL

(* Whatever a sender writes into X-Forwarded-For, and through any number   *)
(* of proxies, its request is charged to the nearest sender outside our    *)
(* networks (client_ip, enforce_rate_limit).                               *)
THEOREM CallersAreCharged == Spec => []ChargedToCaller
<1>1. IInv => ChargedToCaller
  BY DEF IInv
<1> QED
  BY <1>1, LimitersInvariant, PTL

(* The in-memory limiter lets at most `limit` requests of an identity      *)
(* through in any stretch of `window_seconds` (InMemoryRateLimiter.check). *)
THEOREM MemoryKeepsTheLimit == Spec => []NeverOverLimit
<1>1. IInv => NeverOverLimit
  BY DEF IInv, MemoryInv, NeverOverLimit
<1> QED
  BY <1>1, LimitersInvariant, PTL

(* A counter in Redis always has a time to live (RedisRateLimiter.check).  *)
THEOREM CountersExpire == Spec => []EveryCounterExpires
<1>1. IInv => EveryCounterExpires
  <2> SUFFICES ASSUME IInv PROVE EveryCounterExpires
    OBVIOUS
  <2>1. CASE backend = "memory"
    BY <2>1 DEF IInv, MemoryInv, EveryCounterExpires, Redis!EveryCounterExpires
  <2>2. CASE backend = "redis"
    BY <2>2 DEF IInv, RedisInv, EveryCounterExpires
  <2> QED
    BY <2>1, <2>2 DEF IInv, TypeOK
<1> QED
  BY <1>1, LimitersInvariant, PTL

(* The fixed windows in Redis let at most twice `limit` requests of an     *)
(* identity through in any stretch of `window_seconds`, for no more than   *)
(* two counters can have grants in it (RedisRateLimiter.check).            *)
THEOREM RedisKeepsTwiceTheLimit == Spec => []AtMostTwiceTheLimit
<1>1. IInv => AtMostTwiceTheLimit
  <2> SUFFICES ASSUME IInv, NEW i \in Identities PROVE Cardinality(granted[i]) <= 2 * Limit
    BY SameCardinality DEF AtMostTwiceTheLimit, Redis!AtMostTwiceTheLimit
  <2>1. /\ Limit \in Nat /\ Window \in Nat /\ left[i] \in Nat
        /\ \A g \in granted[i] : g.age \in Nat
        /\ IsFiniteSet(granted[i]) /\ Cardinality(granted[i]) \in Nat
    BY GuardAssumption, FS_CardinalityType
       DEF Redis!LimiterAssumption, IInv, TypeOK, Redis!TypeOK, GrantsNumbered, Numbered
  <2>2. CASE Cardinality(granted[i]) <= Limit
    BY <2>1, <2>2
  <2>3. CASE backend = "memory"
    <3>1. Cardinality(granted[i]) <= Limit
      BY <2>3, SameCardinality DEF IInv, MemoryInv, Memory!NeverOverLimit
    <3> QED
      BY <2>2, <3>1
  <2>4. CASE backend = "redis" /\ left[i] = 0
    BY <2>2, <2>4 DEF IInv, RedisInv, AtMostOneBefore
  <2>5. CASE backend = "redis" /\ left[i] > 0
    <3>1. Cardinality(OfTheLast(i)) <= Limit /\ Cardinality(OfThisCounter(i)) <= Limit
      BY <2>1, <2>5 DEF IInv, RedisInv, AtMostOneBefore, CountedAtLeast
    <3>2. /\ granted[i] = OfThisCounter(i) \cup OfTheLast(i)
          /\ OfThisCounter(i) \cap OfTheLast(i) = {}
      BY <2>1 DEF OfThisCounter, OfTheLast
    <3>3. IsFiniteSet(OfThisCounter(i)) /\ IsFiniteSet(OfTheLast(i))
      BY <2>1, FS_Subset DEF OfThisCounter, OfTheLast
    <3>4. Cardinality(OfThisCounter(i)) \in Nat /\ Cardinality(OfTheLast(i)) \in Nat
      BY <3>3, FS_CardinalityType
    <3>5. Cardinality(granted[i])
            = Cardinality(OfThisCounter(i)) + Cardinality(OfTheLast(i))
               - Cardinality(OfThisCounter(i) \cap OfTheLast(i))
      BY <3>2, <3>3, FS_Union
    <3>6. Cardinality(OfThisCounter(i) \cap OfTheLast(i)) = 0
      BY <3>2, FS_EmptySet
    <3> QED
      BY <2>1, <3>1, <3>4, <3>5, <3>6
  <2> QED
    BY <2>1, <2>3, <2>4, <2>5 DEF IInv, TypeOK
<1> QED
  BY <1>1, LimitersInvariant, PTL

(* A step that checks in memory is a step of the limiter in memory: with   *)
(* Redis, no identity is ever remembered here.                             *)
LEMMA CheckedInMemory ==
    ASSUME IInv, [Next]_vars, NEW i \in Identities, Memory!Check(i)
    PROVE  backend = "memory" /\ IInv'
<1>1. IInv'
  BY StepPreservesInvariant
<1>2. tracked' # {}
  BY DEF Memory!Check
<1>3. backend' = backend /\ backend \in {"memory", "redis"}
  BY DEF Next, EnforceRateLimit, Tick, vars, IInv, TypeOK
<1> QED
  BY <1>1, <1>2, <1>3 DEF IInv, RedisInv

(* The in-memory limiter refuses a request only when `limit` requests of   *)
(* that identity were let through within the window; pruning, sweeping and *)
(* refusing never cost a later request (InMemoryRateLimiter.check).        *)
THEOREM RefusalsAreDeserved == Spec => RefusedOnlyWhenFull
<1>1. ASSUME IInv, [Next]_vars
      PROVE  [ \A i \in Identities : Memory!Check(i) /\ ~allowed'
                 => Memory!Cardinality(granted[i]) = Limit ]_Memory!vars
  <2> SUFFICES ASSUME NEW i \in Identities, Memory!Check(i), ~allowed'
               PROVE  Memory!Cardinality(granted[i]) = Limit
    OBVIOUS
  <2>1. backend = "memory"
    BY <1>1, CheckedInMemory
  <2>2. ~(Cardinality(granted[i]) < Limit)
    BY <1>1, <2>1, CheckByGrants
  <2>3. Cardinality(granted[i]) <= Limit
    BY <1>1, <2>1, SameCardinality DEF IInv, MemoryInv, Memory!NeverOverLimit
  <2>4. Cardinality(granted[i]) \in Nat /\ Limit \in Nat
    BY <1>1, GuardAssumption, FS_CardinalityType
       DEF Memory!LimiterAssumption, IInv, GrantsNumbered, Numbered
  <2>5. Cardinality(granted[i]) = Limit
    BY <2>2, <2>3, <2>4
  <2> QED
    BY <2>5, SameCardinality
<1> QED
  BY <1>1, LimitersInvariant, PTL DEF Spec, RefusedOnlyWhenFull, Memory!RefusedOnlyWhenFull

(* After any check, the in-memory limiter holds no identity it has not     *)
(* heard of for two windows, although it sweeps only when somebody knocks  *)
(* and at most once per window (InMemoryRateLimiter._sweep).               *)
THEOREM IdleAreForgotten == Spec => IdleIdentitiesForgotten
<1>1. ASSUME IInv, [Next]_vars
      PROVE  [ \A i \in Identities : Memory!Check(i)
                 => \A j \in tracked' : \E h \in hits'[j] : h.age < Memory!OldAge ]_Memory!vars
  <2> SUFFICES ASSUME NEW i \in Identities, Memory!Check(i), NEW j \in tracked'
               PROVE  \E h \in hits'[j] : h.age < Memory!OldAge
    OBVIOUS
  <2>1. backend = "memory" /\ IInv' /\ backend' = backend
    <3>1. backend' = backend
      BY <1>1 DEF Next, EnforceRateLimit, Tick, vars
    <3> QED
      BY <1>1, <3>1, CheckedInMemory
  <2>2. Window \in Nat \ {0} /\ sinceSweep \in 0 .. Window
    BY <1>1, GuardAssumption DEF Memory!LimiterAssumption, IInv, TypeOK, Memory!TypeOK
  <2>3. sinceSweep' = IF sinceSweep = Window THEN 0 ELSE sinceSweep
    BY <1>1, <2>1, CheckByGrants
  <2>4. sinceSweep' \in Nat /\ sinceSweep' < Window
    BY <2>2, <2>3
  <2>5. PICK h \in hits'[j] : h.age < Window + sinceSweep'
    BY <2>1, <2>4 DEF IInv, MemoryInv, HeardOfSinceSweep
  <2>6. h.age \in Nat
    BY <2>1, <2>2, <2>5 DEF IInv, TypeOK, Memory!TypeOK, Memory!OldAge
  <2> QED
    BY <2>2, <2>4, <2>5, <2>6 DEF Memory!OldAge
<1> QED
  BY <1>1, LimitersInvariant, PTL DEF Spec, IdleIdentitiesForgotten, Memory!IdleIdentitiesForgotten

=============================================================================
