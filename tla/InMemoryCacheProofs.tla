-------------------------- MODULE InMemoryCacheProofs --------------------------
(***************************************************************************)
(* InMemoryCache implements TtlCache, for any keys, values and times to    *)
(* live.  Under the refinement mapping Live, which forgets expired         *)
(* entries, each operation is the abstract operation of the same name; a   *)
(* get that pops a dead entry leaves Live as it was.                       *)
(***************************************************************************)
EXTENDS InMemoryCache, TLAPS

(* Every operation keeps the types. *)
LEMMA TypeStep == TypeOK /\ [Next]_vars => TypeOK'
<1> SUFFICES ASSUME TypeOK, [Next]_vars PROVE TypeOK'
    OBVIOUS
<1> USE MemoryAssumption DEF TypeOK, StoreEntries, Requests
<1>1. ASSUME NEW k \in Keys, Get(k) PROVE TypeOK'
  <2>1. CASE store[k] = Nothing
      BY <1>1, <2>1 DEF Get
  <2>2. CASE store[k] # Nothing /\ Expired(store[k])
      BY <1>1, <2>2 DEF Get
  <2>3. CASE store[k] # Nothing /\ ~Expired(store[k])
      BY <1>1, <2>3 DEF Get
  <2> QED  BY <2>1, <2>2, <2>3
<1>2. ASSUME NEW k \in Keys, NEW v \in Values, NEW ttl \in 0 .. MaxTtl, Set(k, v, ttl)
      PROVE  TypeOK'
    BY <1>2 DEF Set
<1>3. ASSUME NEW k \in Keys, Delete(k) PROVE TypeOK'
    BY <1>3 DEF Delete
<1>4. CASE Clear
    BY <1>4 DEF Clear
<1>5. CASE Tick
  <2>1. \A k \in Keys : Age(store[k]) \in StoreEntries \cup {Nothing}
      BY DEF Age
  <2> QED  BY <1>5, <2>1 DEF Tick
<1>6. CASE UNCHANGED vars
    BY <1>6 DEF vars
<1> QED  BY <1>1, <1>2, <1>3, <1>4, <1>5, <1>6 DEF Next

(* The cache's variables keep their types. *)
THEOREM CacheTypeCorrect == Spec => []TypeOK
<1>1. Init => TypeOK
    BY DEF Init, TypeOK, Requests
<1> QED  BY <1>1, TypeStep, PTL DEF Spec

-----------------------------------------------------------------------------
(* An entry that is not expired is seen as it is, any other is not seen.   *)
LEMMA LiveEntry ==
    ASSUME TypeOK, NEW k \in Keys
    PROVE  /\ store[k] = Nothing => Live[k] = Nothing
           /\ store[k] # Nothing /\ Expired(store[k]) => Live[k] = Nothing
           /\ store[k] # Nothing /\ ~Expired(store[k])
                => Live[k] = store[k] /\ Live[k] # Nothing
BY DEF Live, Expired

(* get *)
LEMMA GetRefines ==
    ASSUME TypeOK, NEW k \in Keys, Get(k)
    PROVE  Abstract!Get(k)
<1>1. CASE store[k] = Nothing
    BY <1>1 DEF Get, Live, Abstract!Get
<1>2. CASE store[k] # Nothing /\ Expired(store[k])
  <2>1. store' = [store EXCEPT ![k] = Nothing] /\ result' = Nothing /\ request' = <<"get", k>>
      BY <1>2 DEF Get
  <2>2. Live' = Live
      BY <1>2, <2>1 DEF Live, Expired, TypeOK
  <2> QED  BY <1>2, <2>1, <2>2, LiveEntry DEF Abstract!Get
<1>3. CASE store[k] # Nothing /\ ~Expired(store[k])
  <2>1. result' = store[k].value /\ store' = store /\ request' = <<"get", k>>
      BY <1>3 DEF Get
  <2> QED  BY <1>3, <2>1, LiveEntry DEF Live, Abstract!Get
<1> QED  BY <1>1, <1>2, <1>3

(* set: a fresh entry is seen unless its time to live is zero. *)
LEMMA SetRefines ==
    ASSUME TypeOK, NEW k \in Keys, NEW v \in Values, NEW ttl \in 0 .. MaxTtl, Set(k, v, ttl)
    PROVE  Abstract!Set(k, v, ttl)
<1> DEFINE fresh == [value |-> v, left |-> ttl]
<1>1. fresh # Nothing
    BY MemoryAssumption
<1>2. store' = [store EXCEPT ![k] = fresh] /\ result' = result /\ request' = <<"set", k, v, ttl>>
    BY DEF Set
<1>3. Live' = [Live EXCEPT ![k] = IF ttl = 0 THEN Nothing ELSE fresh]
    BY <1>1, <1>2 DEF Live, TypeOK
<1> QED  BY <1>2, <1>3 DEF Abstract!Set

(* delete and clear *)
LEMMA DeleteRefines ==
    ASSUME TypeOK, NEW k \in Keys, Delete(k)
    PROVE  Abstract!Delete(k)
BY DEF TypeOK, Delete, Live, Abstract!Delete

LEMMA ClearRefines ==
    ASSUME Clear
    PROVE  Abstract!Clear
BY DEF Clear, Live, Abstract!Clear

(* A tick: an entry with one tick left is seen before and not after. *)
LEMMA TickRefines ==
    ASSUME TypeOK, Tick
    PROVE  Abstract!Tick
<1>1. ASSUME NEW k \in Keys PROVE Live'[k] = Abstract!Age(Live[k])
  <2> USE MemoryAssumption
  <2>1. Live'[k] = IF Age(store[k]) = Nothing THEN Nothing
                   ELSE IF Age(store[k]).left = 0 THEN Nothing ELSE Age(store[k])
      BY DEF Tick, Live
  <2>2. CASE store[k] = Nothing
      BY <2>1, <2>2 DEF Age, Live, Abstract!Age
  <2>3. CASE store[k] # Nothing
    <3>1. store[k] \in StoreEntries
        BY <2>3 DEF TypeOK
    <3>2. CASE store[k].left = 0
        BY <2>1, <2>3, <3>2 DEF Age, Live, Abstract!Age
    <3>3. CASE store[k].left # 0
      <4> DEFINE older == [value |-> store[k].value, left |-> store[k].left - 1]
      <4>1. Age(store[k]) = older /\ older \in [value : Values, left : Nat]
          BY <2>3, <3>1, <3>3 DEF Age, StoreEntries
      <4>2. older # Nothing
          BY <4>1
      <4>3. Live[k] = store[k]
          BY <2>3, <3>3 DEF Live
      <4>4. CASE store[k].left = 1
          BY <2>1, <4>1, <4>2, <4>3, <4>4 DEF Abstract!Age
      <4>5. CASE store[k].left # 1
        <5>1. older.left # 0
            BY <3>1, <3>3, <4>5 DEF StoreEntries
        <5> QED  BY <2>1, <2>3, <4>1, <4>2, <4>3, <4>5, <5>1 DEF Abstract!Age
      <4> QED  BY <4>4, <4>5
    <3> QED  BY <3>2, <3>3
  <2> QED  BY <2>2, <2>3
<1>2. Live' = [k \in Keys |-> Abstract!Age(Live[k])]
    BY <1>1 DEF Live
<1> QED  BY <1>2 DEF Tick, Abstract!Tick

(* The in-memory cache implements the cache: lazy expiry is unobservable   *)
(* for every set of keys and values and every bound on the times to live.  *)
THEOREM LazyExpiryIsUnobservable == Spec => ImplementsTtlCache
<1>1. Init => Abstract!Init
    BY DEF Init, Live, Abstract!Init
<1>2. TypeOK /\ [Next]_vars => [Abstract!Next]_(Abstract!vars)
  <2> SUFFICES ASSUME TypeOK, [Next]_vars PROVE [Abstract!Next]_(Abstract!vars)
      OBVIOUS
  <2>1. ASSUME NEW k \in Keys, Get(k) PROVE Abstract!Next
      BY <2>1, GetRefines DEF Abstract!Next
  <2>2. ASSUME NEW k \in Keys, NEW v \in Values, NEW ttl \in 0 .. MaxTtl, Set(k, v, ttl)
        PROVE  Abstract!Next
      BY <2>2, SetRefines DEF Abstract!Next
  <2>3. ASSUME NEW k \in Keys, Delete(k) PROVE Abstract!Next
      BY <2>3, DeleteRefines DEF Abstract!Next
  <2>4. CASE Clear
      BY <2>4, ClearRefines DEF Abstract!Next
  <2>5. CASE Tick
      BY <2>5, TickRefines DEF Abstract!Next
  <2>6. CASE UNCHANGED vars
      BY <2>6 DEF vars, Live, Abstract!vars
  <2> QED  BY <2>1, <2>2, <2>3, <2>4, <2>5, <2>6 DEF Next
<1> QED  BY <1>1, <1>2, CacheTypeCorrect, PTL DEF Spec, ImplementsTtlCache, Abstract!Spec

=============================================================================
