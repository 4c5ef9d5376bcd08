--------------------------- MODULE AggregationProofs ---------------------------
(***************************************************************************)
(* What search returns, for any providers, offers, filters and cursors:    *)
(* the loops of FlightAggregationService and HotelAggregationService       *)
(* compute what their names promise, and the pages cut from their result   *)
(* fit together.                                                           *)
(***************************************************************************)
EXTENDS FlightSearch, HotelSearch, TLAPS, FiniteSetTheorems, SequenceTheorems,
        WellFoundedInduction

(* A loop over 1 .. L establishes what holds before it and is kept by      *)
(* every turn.                                                             *)
LEMMA IntervalInduction ==
    ASSUME NEW L \in Nat, NEW T, 0 \in T, \A n \in 1 .. L : n - 1 \in T => n \in T
    PROVE  \A n \in 0 .. L : n \in T
<1> DEFINE C == {n \in 0 .. L : n \notin T}
<1> SUFFICES ASSUME C # {} PROVE FALSE
  OBVIOUS
<1>1. C \subseteq Nat
  OBVIOUS
<1>2. \E x \in C : \A y \in C : <<y, x>> \notin OpToRel(<, Nat)
  <2> HIDE DEF C
  <2> QED  BY <1>1, NatLessThanWellFounded, WFMin, Zenon
<1>3. PICK x \in C : \A y \in C : ~(y < x)
  BY <1>1, <1>2 DEF OpToRel
<1>4. x # 0 /\ x \in 1 .. L
  OBVIOUS
<1>5. x - 1 \in 0 .. L /\ x - 1 < x
  BY <1>4
<1>6. x - 1 \in T
  BY <1>3, <1>5
<1> QED
  BY <1>4, <1>6

(* What the n-th turn of a loop may do to a state in A. *)
Turns(A, L) == [A -> [1 .. L -> A]]

(* f[n] is the state after n of L turns, from a0. *)
IsRun(A, a0, L, turn, f) ==
    /\ f \in [0 .. L -> A]
    /\ f[0] = a0
    /\ \A n \in 1 .. L : f[n] = turn[f[n - 1]][n]

(* A loop runs to its end: this is what makes the recursive functions of   *)
(* Aggregation well defined.                                               *)
LEMMA LoopExists ==
    ASSUME NEW A, NEW a0 \in A, NEW L \in Nat, NEW turn \in Turns(A, L)
    PROVE  \E f : IsRun(A, a0, L, turn, f)
<1> DEFINE T == {m \in 0 .. L : \E f : IsRun(A, a0, m, turn, f)}
<1>1. 0 \in T
  <2> DEFINE g == [i \in 0 .. 0 |-> a0]
  <2>1. IsRun(A, a0, 0, turn, g)
    BY DEF IsRun
  <2> HIDE DEF g
  <2> QED  BY <2>1
<1>2. ASSUME NEW n \in 1 .. L, n - 1 \in T PROVE n \in T
  <2>1. PICK f : IsRun(A, a0, n - 1, turn, f)
    BY <1>2
  <2>2. f \in [0 .. n - 1 -> A]
    BY <2>1 DEF IsRun
  <2> DEFINE next == turn[f[n - 1]][n]
             g == [i \in 0 .. n |-> IF i = n THEN next ELSE f[i]]
  <2>3. next \in A
    BY <2>2 DEF Turns
  <2> HIDE DEF next
  <2>4. g \in [0 .. n -> A]
    BY <2>2, <2>3
  <2>5. g[0] = a0
    BY <2>1 DEF IsRun
  <2>6. ASSUME NEW k \in 1 .. n PROVE g[k] = turn[g[k - 1]][k]
    <3>1. g[k - 1] = f[k - 1]
      OBVIOUS
    <3>2. CASE k = n
      BY <3>1, <3>2 DEF next
    <3>3. CASE k # n
      <4>1. k \in 1 .. n - 1 /\ g[k] = f[k]
        BY <3>3
      <4> QED  BY <2>1, <3>1, <4>1 DEF IsRun
    <3> QED  BY <3>2, <3>3
  <2> HIDE DEF g
  <2>7. IsRun(A, a0, n, turn, g)
    BY <2>4, <2>5, <2>6 DEF IsRun
  <2> QED  BY <2>7
<1> HIDE DEF T
<1>3. \A n \in 0 .. L : n \in T
  BY <1>1, <1>2, IntervalInduction
<1> QED  BY <1>3 DEF T

-----------------------------------------------------------------------------
(* The loops, unfolded. *)

(* _fan_out appends one answer at a time. *)
LEMMA MergeUnfolds ==
    ASSUME NEW offered \in [Numbers -> Seq(Offers)], NEW answered
    PROVE  \E f :
             /\ f[0] = << >>
             /\ \A n \in Numbers :
                  f[n] = IF n \in answered THEN f[n - 1] \o offered[n] ELSE f[n - 1]
             /\ Merge(offered, answered) = f[Len(Providers)]
<1> DEFINE L == Len(Providers)
           A == Seq(Offers)
           none == << >>
           Loop(f) == [n \in 0 .. L |->
                         IF n = 0 THEN << >>
                         ELSE IF n \in answered THEN f[n - 1] \o offered[n] ELSE f[n - 1]]
           turn == [a \in A |-> [n \in 1 .. L |->
                                   IF n \in answered THEN a \o offered[n] ELSE a]]
<1>1. L \in Nat
  BY AggregationAssumption
<1>2. turn \in Turns(A, L)
  BY DEF Numbers, Turns
<1>3. none \in A
  OBVIOUS
<1>4. \E f : IsRun(A, none, L, turn, f)
  <2> HIDE DEF turn, A, L, none
  <2> QED  BY <1>1, <1>2, <1>3, LoopExists
<1>5. \E f : f = Loop(f)
  <2>1. PICK f : IsRun(A, none, L, turn, f)
    BY <1>4
  <2>2. ASSUME NEW n \in 0 .. L PROVE f[n] = Loop(f)[n]
    <3>1. CASE n = 0
      BY <2>1, <3>1 DEF IsRun
    <3>2. CASE n # 0
      <4>1. n \in 1 .. L /\ n - 1 \in 0 .. L
        BY <1>1, <3>2
      <4>2. f[n - 1] \in A
        BY <2>1, <4>1 DEF IsRun
      <4>3. f[n] = turn[f[n - 1]][n]
        BY <2>1, <4>1 DEF IsRun
      <4> QED  BY <3>2, <4>1, <4>2, <4>3
    <3> QED  BY <3>1, <3>2
  <2>3. f = Loop(f)
    BY <2>1, <2>2 DEF IsRun
  <2> QED  BY <2>3
<1> DEFINE g == CHOOSE f : f = Loop(f)
<1>6. g = Loop(g)
  <2> HIDE DEF Loop
  <2> QED  BY <1>5
<1>7. Merge(offered, answered) = g[L]
  BY DEF Merge
<1> HIDE DEF g
<1>8. g[0] = << >>
  BY <1>1, <1>6
<1>9. ASSUME NEW n \in Numbers
      PROVE  g[n] = IF n \in answered THEN g[n - 1] \o offered[n] ELSE g[n - 1]
  <2>1. n \in 0 .. L /\ n # 0
    BY <1>1 DEF Numbers
  <2>2. Loop(g)[n] = IF n \in answered THEN g[n - 1] \o offered[n] ELSE g[n - 1]
    BY <2>1
  <2> QED  BY <1>6, <2>2
<1> QED  BY <1>7, <1>8, <1>9

(* No product is listed twice. *)
OncePerProduct(s) == \A i, j \in DOMAIN s : Product(s[i]) = Product(s[j]) => i = j

(* An offer is listed, or one of the same product that is no dearer. *)
Covers(s, o) == \E k \in DOMAIN s : Product(s[k]) = Product(o) /\ Price(s[k]) <= Price(o)

(* One turn of _dedupe lists no product twice, forgets no product, and     *)
(* never lets the price of a listed product rise.                          *)
LEMMA KeepIsCheapest ==
    ASSUME NEW best \in Seq(Offers), NEW o \in Offers
    PROVE  /\ Keep(best, o) \in Seq(Offers)
           /\ ToSet(Keep(best, o)) \subseteq ToSet(best) \cup {o}
           /\ OncePerProduct(best) => OncePerProduct(Keep(best, o))
           /\ (\A x \in ToSet(best) \cup {o} : Price(x) \in Int) =>
                  /\ Covers(Keep(best, o), o)
                  /\ \A x : Price(x) \in Int /\ Covers(best, x) => Covers(Keep(best, o), x)
<1> DEFINE existing == {n \in DOMAIN best : Product(best[n]) = Product(o)}
           n == CHOOSE n \in existing : TRUE
           Priced == \A x \in ToSet(best) \cup {o} : Price(x) \in Int
<1>0. DOMAIN best = 1 .. Len(best) /\ Len(best) \in Nat
  OBVIOUS
<1>1. CASE existing = {}
  <2>1. Keep(best, o) = Append(best, o)
    BY <1>1 DEF Keep
  <2> DEFINE b == Append(best, o)
  <2>2. /\ b \in Seq(Offers) /\ DOMAIN b = 1 .. Len(best) + 1
        /\ b[Len(best) + 1] = o
        /\ \A i \in 1 .. Len(best) : b[i] = best[i]
    OBVIOUS
  <2> HIDE DEF b
  <2>3. ToSet(b) \subseteq ToSet(best) \cup {o}
    BY <1>0, <2>2 DEF ToSet
  <2>4. OncePerProduct(best) => OncePerProduct(b)
    BY <1>0, <1>1, <2>2 DEF OncePerProduct
  <2>5. Priced => Covers(b, o)
    BY <1>0, <2>2 DEF Covers
  <2>6. \A x : Covers(best, x) => Covers(b, x)
    BY <1>0, <2>2 DEF Covers
  <2> QED  BY <2>1, <2>2, <2>3, <2>4, <2>5, <2>6 DEF b
<1>2. CASE existing # {}
  <2>1. n \in existing
    BY <1>2
  <2>2. Keep(best, o) = IF Wins(o, best[n]) THEN [best EXCEPT ![n] = o] ELSE best
    BY <1>2 DEF Keep
  <2> HIDE DEF n
  <2>3. n \in 1 .. Len(best) /\ Product(best[n]) = Product(o) /\ best[n] \in ToSet(best)
    BY <1>0, <2>1 DEF ToSet
  <2>4. CASE ~Wins(o, best[n])
    <3>1. Priced => Price(best[n]) <= Price(o)
      BY <2>3, <2>4 DEF Wins
    <3>2. Keep(best, o) = best
      BY <2>2, <2>4
    <3> QED  BY <1>0, <2>3, <3>1, <3>2 DEF Covers
  <2>5. CASE Wins(o, best[n])
    <3> DEFINE b == [best EXCEPT ![n] = o]
    <3>1. Keep(best, o) = b
      BY <2>2, <2>5
    <3>2. /\ b \in Seq(Offers) /\ DOMAIN b = 1 .. Len(best)
          /\ b[n] = o
          /\ \A i \in 1 .. Len(best) : i # n => b[i] = best[i]
      BY <1>0, <2>3
    <3> HIDE DEF b
    <3>3. ToSet(b) \subseteq ToSet(best) \cup {o}
      BY <1>0, <3>2 DEF ToSet
    <3>4. OncePerProduct(best) => OncePerProduct(b)
      BY <1>0, <2>3, <3>2 DEF OncePerProduct
    <3>5. Priced => Covers(b, o)
      BY <2>3, <3>2 DEF Covers
    <3>6. ASSUME Priced, NEW x, Price(x) \in Int, Covers(best, x) PROVE Covers(b, x)
      <4>1. PICK k \in DOMAIN best : Product(best[k]) = Product(x) /\ Price(best[k]) <= Price(x)
        BY <3>6 DEF Covers
      <4>2. CASE k # n
        BY <1>0, <3>2, <4>1, <4>2 DEF Covers
      <4>3. CASE k = n
        <5>1. Price(o) <= Price(x)
          BY <2>3, <2>5, <3>6, <4>1, <4>3 DEF Wins
        <5>2. Product(o) = Product(x)
          BY <2>3, <4>1, <4>3
        <5> QED  BY <2>3, <3>2, <5>1, <5>2 DEF Covers
      <4> QED  BY <4>2, <4>3
    <3> QED  BY <3>1, <3>2, <3>3, <3>4, <3>5, <3>6
  <2> QED  BY <2>4, <2>5
<1> QED  BY <1>1, <1>2

(* _dedupe looks at one offer at a time. *)
LEMMA DedupeUnfolds ==
    ASSUME NEW offers \in Seq(Offers)
    PROVE  \E f :
             /\ f[0] = << >>
             /\ \A n \in 1 .. Len(offers) : f[n] = Keep(f[n - 1], offers[n])
             /\ Dedupe(offers) = f[Len(offers)]
<1> DEFINE L == Len(offers)
           A == Seq(Offers)
           none == << >>
           Loop(f) == [n \in 0 .. L |-> IF n = 0 THEN << >> ELSE Keep(f[n - 1], offers[n])]
           turn == [a \in A |-> [n \in 1 .. L |-> Keep(a, offers[n])]]
<1>1. L \in Nat
  OBVIOUS
<1>2. turn \in Turns(A, L)
  <2>1. ASSUME NEW a \in A, NEW n \in 1 .. L PROVE Keep(a, offers[n]) \in A
    <3>1. offers[n] \in Offers
      OBVIOUS
    <3> QED  BY <3>1, KeepIsCheapest
  <2> QED  BY <2>1 DEF Turns
<1>3. none \in A
  OBVIOUS
<1>4. \E f : IsRun(A, none, L, turn, f)
  <2> HIDE DEF turn, A, L, none
  <2> QED  BY <1>1, <1>2, <1>3, LoopExists
<1>5. \E f : f = Loop(f)
  <2>1. PICK f : IsRun(A, none, L, turn, f)
    BY <1>4
  <2>2. ASSUME NEW n \in 0 .. L PROVE f[n] = Loop(f)[n]
    <3>1. CASE n = 0
      BY <2>1, <3>1 DEF IsRun
    <3>2. CASE n # 0
      <4>1. n \in 1 .. L /\ n - 1 \in 0 .. L
        BY <1>1, <3>2
      <4>2. f[n - 1] \in A
        BY <2>1, <4>1 DEF IsRun
      <4>3. f[n] = turn[f[n - 1]][n]
        BY <2>1, <4>1 DEF IsRun
      <4> QED  BY <3>2, <4>1, <4>2, <4>3
    <3> QED  BY <3>1, <3>2
  <2>3. f = Loop(f)
    BY <2>1, <2>2 DEF IsRun
  <2> QED  BY <2>3
<1> DEFINE g == CHOOSE f : f = Loop(f)
<1>6. g = Loop(g)
  <2> HIDE DEF Loop
  <2> QED  BY <1>5
<1>7. Dedupe(offers) = g[L]
  BY DEF Dedupe
<1> HIDE DEF g
<1>8. g[0] = << >>
  BY <1>1, <1>6
<1>9. ASSUME NEW n \in 1 .. L PROVE g[n] = Keep(g[n - 1], offers[n])
  <2>1. n \in 0 .. L /\ n # 0
    BY <1>1
  <2>2. Loop(g)[n] = Keep(g[n - 1], offers[n])
    BY <2>1
  <2> QED  BY <1>6, <2>2
<1> QED  BY <1>7, <1>8, <1>9

(* The filter looks at one offer at a time. *)
LEMMA FilterUnfolds ==
    ASSUME NEW filters, NEW offers \in Seq(Offers)
    PROVE  \E f :
             /\ f[0] = << >>
             /\ \A n \in 1 .. Len(offers) :
                  f[n] = IF Matches(filters, offers[n])
                           THEN Append(f[n - 1], offers[n]) ELSE f[n - 1]
             /\ Filter(filters, offers) = f[Len(offers)]
<1> DEFINE L == Len(offers)
           A == Seq(Offers)
           none == << >>
           Loop(f) == [n \in 0 .. L |->
                         IF n = 0 THEN << >>
                         ELSE IF Matches(filters, offers[n]) THEN Append(f[n - 1], offers[n])
                         ELSE f[n - 1]]
           turn == [a \in A |-> [n \in 1 .. L |->
                      IF Matches(filters, offers[n]) THEN Append(a, offers[n]) ELSE a]]
<1>1. L \in Nat
  OBVIOUS
<1>2. turn \in Turns(A, L)
  BY DEF Turns
<1>3. none \in A
  OBVIOUS
<1>4. \E f : IsRun(A, none, L, turn, f)
  <2> HIDE DEF turn, A, L, none
  <2> QED  BY <1>1, <1>2, <1>3, LoopExists
<1>5. \E f : f = Loop(f)
  <2>1. PICK f : IsRun(A, none, L, turn, f)
    BY <1>4
  <2>2. ASSUME NEW n \in 0 .. L PROVE f[n] = Loop(f)[n]
    <3>1. CASE n = 0
      BY <2>1, <3>1 DEF IsRun
    <3>2. CASE n # 0
      <4>1. n \in 1 .. L /\ n - 1 \in 0 .. L
        BY <1>1, <3>2
      <4>2. f[n - 1] \in A
        BY <2>1, <4>1 DEF IsRun
      <4>3. f[n] = turn[f[n - 1]][n]
        BY <2>1, <4>1 DEF IsRun
      <4> QED  BY <3>2, <4>1, <4>2, <4>3
    <3> QED  BY <3>1, <3>2
  <2>3. f = Loop(f)
    BY <2>1, <2>2 DEF IsRun
  <2> QED  BY <2>3
<1> DEFINE g == CHOOSE f : f = Loop(f)
<1>6. g = Loop(g)
  <2> HIDE DEF Loop
  <2> QED  BY <1>5
<1>7. Filter(filters, offers) = g[L]
  BY DEF Filter
<1> HIDE DEF g
<1>8. g[0] = << >>
  BY <1>1, <1>6
<1>9. ASSUME NEW n \in 1 .. L
      PROVE  g[n] = IF Matches(filters, offers[n])
                      THEN Append(g[n - 1], offers[n]) ELSE g[n - 1]
  <2>1. n \in 0 .. L /\ n # 0
    BY <1>1
  <2>2. Loop(g)[n] = IF Matches(filters, offers[n])
                       THEN Append(g[n - 1], offers[n]) ELSE g[n - 1]
    BY <2>1
  <2> QED  BY <1>6, <2>2
<1> QED  BY <1>7, <1>8, <1>9

-----------------------------------------------------------------------------
(* What the loops compute. *)

(* The elements of two sequences put together. *)
LEMMA ToSetConcat ==
    ASSUME NEW a \in Seq(Offers), NEW b \in Seq(Offers)
    PROVE  a \o b \in Seq(Offers) /\ ToSet(a \o b) = ToSet(a) \cup ToSet(b)
<1>1. /\ DOMAIN a = 1 .. Len(a) /\ DOMAIN b = 1 .. Len(b)
      /\ DOMAIN (a \o b) = 1 .. Len(a) + Len(b)
      /\ Len(a) \in Nat /\ Len(b) \in Nat
      /\ a \o b \in Seq(Offers)
  OBVIOUS
<1>2. ASSUME NEW i \in 1 .. Len(a) PROVE i \in DOMAIN (a \o b) /\ (a \o b)[i] = a[i]
  BY <1>1
<1>3. ASSUME NEW i \in 1 .. Len(b)
      PROVE  Len(a) + i \in DOMAIN (a \o b) /\ (a \o b)[Len(a) + i] = b[i]
  BY <1>1
<1>4. ASSUME NEW i \in DOMAIN (a \o b) PROVE (a \o b)[i] \in ToSet(a) \cup ToSet(b)
  <2>1. CASE i \in 1 .. Len(a)
    BY <1>1, <1>2, <2>1 DEF ToSet
  <2>2. CASE i \notin 1 .. Len(a)
    <3> DEFINE j == i - Len(a)
    <3>1. j \in 1 .. Len(b) /\ i = Len(a) + j
      BY <1>1, <2>2
    <3> HIDE DEF j
    <3>2. (a \o b)[i] = b[j]
      BY <1>3, <3>1
    <3> QED  BY <1>1, <3>1, <3>2 DEF ToSet
  <2> QED  BY <2>1, <2>2
<1> DEFINE c == a \o b
<1>5. /\ \A i \in 1 .. Len(a) : i \in DOMAIN c /\ c[i] = a[i]
      /\ \A i \in 1 .. Len(b) : Len(a) + i \in DOMAIN c /\ c[Len(a) + i] = b[i]
      /\ \A i \in DOMAIN c : c[i] \in ToSet(a) \cup ToSet(b)
  BY <1>2, <1>3, <1>4
<1> HIDE DEF c
<1>6. ToSet(c) \subseteq ToSet(a) \cup ToSet(b)
  BY <1>5 DEF ToSet
<1>7. ToSet(a) \subseteq ToSet(c)
  BY <1>1, <1>5 DEF ToSet
<1>8. ToSet(b) \subseteq ToSet(c)
  BY <1>1, <1>5 DEF ToSet
<1> QED  BY <1>1, <1>6, <1>7, <1>8 DEF c

(* _fan_out: the offers of the providers that answered, and no others. *)
LEMMA MergeIsUnion ==
    ASSUME NEW offered \in [Numbers -> Seq(Offers)], NEW answered \in SUBSET Numbers
    PROVE  /\ Merge(offered, answered) \in Seq(Offers)
           /\ ToSet(Merge(offered, answered)) = UNION {ToSet(offered[n]) : n \in answered}
<1> DEFINE L == Len(Providers)
           Within(o, m) == \E k \in answered : k <= m /\ o \in ToSet(offered[k])
<1>0. L \in Nat /\ \A k \in answered : k \in Int /\ 1 <= k /\ k <= L
  <2>1. L \in Nat
    BY AggregationAssumption
  <2>2. answered \subseteq 1 .. L
    BY DEF Numbers
  <2> HIDE DEF L
  <2> QED  BY <2>1, <2>2
<1>1. PICK f :
        /\ f[0] = << >>
        /\ \A n \in Numbers :
             f[n] = IF n \in answered THEN f[n - 1] \o offered[n] ELSE f[n - 1]
        /\ Merge(offered, answered) = f[L]
  BY MergeUnfolds
<1> DEFINE T == {m \in 0 .. L : f[m] \in Seq(Offers) /\ \A o : o \in ToSet(f[m]) <=> Within(o, m)}
<1>2. 0 \in T
  <2>1. \A o : ~Within(o, 0)
    BY <1>0
  <2>2. f[0] \in Seq(Offers) /\ \A o : o \notin ToSet(f[0])
    BY <1>1 DEF ToSet
  <2>3. 0 \in 0 .. L
    BY <1>0
  <2> HIDE DEF Within
  <2> QED  BY <2>1, <2>2, <2>3
<1>3. ASSUME NEW n \in 1 .. L, n - 1 \in T PROVE n \in T
  <2>1. f[n - 1] \in Seq(Offers) /\ \A o : o \in ToSet(f[n - 1]) <=> Within(o, n - 1)
    BY <1>3
  <2>2. f[n] = IF n \in answered THEN f[n - 1] \o offered[n] ELSE f[n - 1]
    BY <1>1 DEF Numbers
  <2>3. offered[n] \in Seq(Offers) /\ n \in 0 .. L
    BY DEF Numbers
  <2>4. \A o : Within(o, n) <=> (Within(o, n - 1) \/ (n \in answered /\ o \in ToSet(offered[n])))
    <3>1. \A k \in answered : k <= n <=> (k <= n - 1 \/ k = n)
      BY <1>0
    <3> QED  BY <1>0, <3>1
  <2> HIDE DEF Within
  <2>5. CASE n \notin answered
    <3>1. f[n] = f[n - 1]
      BY <2>2, <2>5
    <3> QED  BY <2>1, <2>3, <2>4, <2>5, <3>1
  <2>6. CASE n \in answered
    <3>1. f[n] = f[n - 1] \o offered[n]
      BY <2>2, <2>6
    <3>2. f[n] \in Seq(Offers) /\ ToSet(f[n]) = ToSet(f[n - 1]) \cup ToSet(offered[n])
      BY <2>1, <2>3, <3>1, ToSetConcat
    <3> QED  BY <2>1, <2>3, <2>4, <2>6, <3>2
  <2> QED  BY <2>5, <2>6
<1> HIDE DEF T
<1>4. \A m \in 0 .. L : m \in T
  BY <1>0, <1>2, <1>3, IntervalInduction
<1>5. L \in T
  BY <1>0, <1>4
<1>6. \A o : Within(o, L) <=> o \in UNION {ToSet(offered[n]) : n \in answered}
  BY <1>0
<1> HIDE DEF Within
<1>7. f[L] \in Seq(Offers) /\ \A o : o \in ToSet(f[L]) <=> Within(o, L)
  BY <1>5 DEF T
<1> QED  BY <1>1, <1>6, <1>7

(* _dedupe: of each product one offer, and none was cheaper. *)
LEMMA DedupeIsCheapest ==
    ASSUME NEW offers \in Seq(Offers), \A x \in ToSet(offers) : Price(x) \in Int
    PROVE  /\ Dedupe(offers) \in Seq(Offers)
           /\ ToSet(Dedupe(offers)) \subseteq ToSet(offers)
           /\ OncePerProduct(Dedupe(offers))
           /\ \A x \in ToSet(offers) : Covers(Dedupe(offers), x)
<1> DEFINE L == Len(offers)
<1>0. L \in Nat /\ \A n \in 1 .. L : offers[n] \in Offers /\ offers[n] \in ToSet(offers)
  BY DEF ToSet
<1>1. PICK f :
        /\ f[0] = << >>
        /\ \A n \in 1 .. L : f[n] = Keep(f[n - 1], offers[n])
        /\ Dedupe(offers) = f[L]
  BY DedupeUnfolds
<1> DEFINE Good(m) ==
             /\ f[m] \in Seq(Offers)
             /\ ToSet(f[m]) \subseteq ToSet(offers)
             /\ OncePerProduct(f[m])
             /\ \A k \in 1 .. m : Covers(f[m], offers[k])
           T == {m \in 0 .. L : Good(m)}
<1>2. 0 \in T
  <2>1. f[0] \in Seq(Offers) /\ ToSet(f[0]) = {} /\ OncePerProduct(f[0])
    BY <1>1 DEF ToSet, OncePerProduct
  <2> QED  BY <1>0, <2>1
<1>3. ASSUME NEW n \in 1 .. L, n - 1 \in T PROVE n \in T
  <2>1. Good(n - 1)
    BY <1>3
  <2> DEFINE best == f[n - 1]
             o == offers[n]
  <2>2. f[n] = Keep(best, o) /\ o \in Offers /\ o \in ToSet(offers)
    BY <1>0, <1>1
  <2>3. /\ best \in Seq(Offers) /\ ToSet(best) \subseteq ToSet(offers) /\ OncePerProduct(best)
        /\ \A k \in 1 .. n - 1 : Covers(best, offers[k])
    BY <2>1
  <2> HIDE DEF best, o
  <2>4. \A x \in ToSet(best) \cup {o} : Price(x) \in Int
    BY <2>2, <2>3
  <2>5. /\ Keep(best, o) \in Seq(Offers)
        /\ ToSet(Keep(best, o)) \subseteq ToSet(best) \cup {o}
        /\ OncePerProduct(Keep(best, o))
        /\ Covers(Keep(best, o), o)
        /\ \A x : Price(x) \in Int /\ Covers(best, x) => Covers(Keep(best, o), x)
    BY <2>2, <2>3, <2>4, KeepIsCheapest
  <2>6. ASSUME NEW k \in 1 .. n PROVE Covers(f[n], offers[k])
    <3>1. CASE k = n
      BY <2>2, <2>5, <3>1 DEF o
    <3>2. CASE k # n
      <4>1. k \in 1 .. n - 1 /\ k \in 1 .. L
        BY <1>0, <3>2
      <4>2. Price(offers[k]) \in Int
        BY <1>0, <4>1
      <4> QED  BY <2>2, <2>3, <2>5, <4>1, <4>2
    <3> QED  BY <3>1, <3>2
  <2>7. Good(n)
    BY <2>2, <2>3, <2>5, <2>6
  <2>8. n \in 0 .. L
    BY <1>0
  <2> HIDE DEF Good
  <2> QED  BY <2>7, <2>8
<1> HIDE DEF T
<1>4. \A m \in 0 .. L : m \in T
  BY <1>0, <1>2, <1>3, IntervalInduction
<1>5. Good(L)
  <2>1. L \in T
    BY <1>0, <1>4
  <2> HIDE DEF Good
  <2> QED  BY <2>1 DEF T
<1>6. \A x \in ToSet(offers) : \E k \in 1 .. L : x = offers[k]
  BY DEF ToSet
<1> QED  BY <1>1, <1>5, <1>6

(* The filter only leaves offers out. *)
LEMMA FilterIsASelection ==
    ASSUME NEW filters, NEW offers \in Seq(Offers)
    PROVE  /\ Filter(filters, offers) \in Seq(Offers)
           /\ ToSet(Filter(filters, offers)) \subseteq ToSet(offers)
           /\ OncePerProduct(offers) => OncePerProduct(Filter(filters, offers))
<1> DEFINE L == Len(offers)
<1>0. /\ L \in Nat /\ DOMAIN offers = 1 .. L
      /\ \A n \in 1 .. L : offers[n] \in Offers
  OBVIOUS
<1>1. PICK f :
        /\ f[0] = << >>
        /\ \A n \in 1 .. L :
             f[n] = IF Matches(filters, offers[n]) THEN Append(f[n - 1], offers[n]) ELSE f[n - 1]
        /\ Filter(filters, offers) = f[L]
  BY FilterUnfolds
<1> DEFINE From(m) == \A i \in DOMAIN f[m] : \E k \in 1 .. m : f[m][i] = offers[k]
           Good(m) ==
             /\ f[m] \in Seq(Offers)
             /\ From(m)
             /\ OncePerProduct(offers) => OncePerProduct(f[m])
           T == {m \in 0 .. L : Good(m)}
<1>2. 0 \in T
  <2>1. f[0] \in Seq(Offers) /\ DOMAIN f[0] = {} /\ OncePerProduct(f[0])
    BY <1>1 DEF OncePerProduct
  <2> QED  BY <1>0, <2>1
<1>3. ASSUME NEW n \in 1 .. L, n - 1 \in T PROVE n \in T
  <2>0. n \in 0 .. L /\ Good(n - 1)
    BY <1>0, <1>3
  <2> DEFINE kept == f[n - 1]
             o == offers[n]
  <2>1. /\ kept \in Seq(Offers) /\ o \in Offers
        /\ \A i \in DOMAIN kept : \E k \in 1 .. n - 1 : kept[i] = offers[k]
        /\ OncePerProduct(offers) => OncePerProduct(kept)
    BY <1>0, <2>0
  <2>2. f[n] = IF Matches(filters, o) THEN Append(kept, o) ELSE kept
    BY <1>1
  <2>3. o = offers[n]
    OBVIOUS
  <2> HIDE DEF kept, o
  <2>4. CASE ~Matches(filters, o)
    <3>1. f[n] = kept
      BY <2>2, <2>4
    <3>2. From(n)
      BY <2>1, <3>1
    <3> QED  BY <2>0, <2>1, <3>1, <3>2
  <2>5. CASE Matches(filters, o)
    <3> DEFINE b == Append(kept, o)
    <3>1. /\ b \in Seq(Offers) /\ DOMAIN b = 1 .. Len(kept) + 1
          /\ DOMAIN kept = 1 .. Len(kept) /\ Len(kept) \in Nat
          /\ b[Len(kept) + 1] = o
          /\ \A i \in 1 .. Len(kept) : b[i] = kept[i]
      BY <2>1
    <3>2. f[n] = b
      BY <2>2, <2>5
    <3> HIDE DEF b
    <3>3. ASSUME NEW i \in DOMAIN b PROVE \E k \in 1 .. n : b[i] = offers[k]
      <4>1. CASE i = Len(kept) + 1
        BY <2>3, <3>1, <4>1
      <4>2. CASE i # Len(kept) + 1
        <5>1. i \in DOMAIN kept /\ b[i] = kept[i]
          BY <3>1, <4>2
        <5>2. PICK k \in 1 .. n - 1 : kept[i] = offers[k]
          BY <2>1, <5>1
        <5> QED  BY <5>1, <5>2
      <4> QED  BY <4>1, <4>2
    <3>4. ASSUME OncePerProduct(offers) PROVE OncePerProduct(b)
      <4>1. \A i \in DOMAIN kept : Product(kept[i]) # Product(o)
        <5>1. ASSUME NEW i \in DOMAIN kept, Product(kept[i]) = Product(o) PROVE FALSE
          <6>1. PICK k \in 1 .. n - 1 : kept[i] = offers[k]
            BY <2>1
          <6>2. k \in 1 .. L /\ n \in 1 .. L /\ k # n
            BY <1>0
          <6>3. Product(offers[k]) = Product(offers[n])
            BY <2>3, <5>1, <6>1
          <6> QED  BY <1>0, <3>4, <6>2, <6>3 DEF OncePerProduct
        <5> QED  BY <5>1
      <4> QED  BY <2>1, <3>1, <3>4, <4>1 DEF OncePerProduct
    <3>5. Good(n)
      BY <3>1, <3>2, <3>3, <3>4
    <3> HIDE DEF Good
    <3> QED  BY <2>0, <3>5
  <2> QED  BY <2>4, <2>5
<1> HIDE DEF T
<1>4. \A m \in 0 .. L : m \in T
  BY <1>0, <1>2, <1>3, IntervalInduction
<1>5. Good(L)
  <2>1. L \in T
    BY <1>0, <1>4
  <2> HIDE DEF Good
  <2> QED  BY <2>1 DEF T
<1>6. ToSet(f[L]) \subseteq ToSet(offers)
  BY <1>0, <1>5 DEF ToSet
<1> QED  BY <1>1, <1>5, <1>6

(* Some element has place n. *)
Taken(sort, s, L, n) == \E i \in 1 .. L : Place(sort, s, i) = n

(* The places of the elements count them: every place is taken once, and   *)
(* what comes before has the lower place.                                  *)
LEMMA PlacesCount ==
    ASSUME NEW sort, NEW L \in Nat, NEW s, DOMAIN s = 1 .. L,
           \A i \in 1 .. L : SortValue(sort, s[i]) \in Int
    PROVE  /\ \A i \in 1 .. L : Place(sort, s, i) \in 1 .. L
           /\ \A i, j \in 1 .. L :
                Before(sort, s, i, j) => Place(sort, s, i) < Place(sort, s, j)
           /\ \A n \in 1 .. L : Taken(sort, s, L, n)
<1> DEFINE Earlier(i) == {j \in 1 .. L : Before(sort, s, j, i)}
           P(i) == Cardinality(Earlier(i)) + 1
<1>1. \A i : Place(sort, s, i) = P(i)
  BY DEF Place
<1>2. IsFiniteSet(1 .. L) /\ Cardinality(1 .. L) = L
  BY FS_Interval
<1>3. ASSUME NEW i \in 1 .. L PROVE IsFiniteSet(Earlier(i)) /\ Cardinality(Earlier(i)) \in Nat
  <2>1. Earlier(i) \subseteq 1 .. L
    OBVIOUS
  <2> QED  BY <1>2, <2>1, FS_Subset, FS_CardinalityType
<1>4. ASSUME NEW i \in 1 .. L PROVE P(i) \in 1 .. L
  <2>1. i \notin Earlier(i)
    BY DEF Before
  <2>2. Earlier(i) \subseteq (1 .. L) \ {i}
    BY <2>1
  <2>3. IsFiniteSet((1 .. L) \ {i}) /\ Cardinality((1 .. L) \ {i}) = L - 1
    BY <1>2, FS_RemoveElement
  <2>4. Cardinality(Earlier(i)) <= L - 1
    <3> HIDE DEF Earlier
    <3> QED  BY <2>2, <2>3, FS_Subset
  <2> HIDE DEF Earlier
  <2> QED  BY <1>3, <2>4
<1>5. ASSUME NEW i \in 1 .. L, NEW j \in 1 .. L, Before(sort, s, i, j) PROVE P(i) < P(j)
  <2>1. \A k \in 1 .. L : Before(sort, s, k, i) => Before(sort, s, k, j)
    BY <1>5 DEF Before
  <2>2. i \notin Earlier(i)
    BY DEF Before
  <2>3. Earlier(i) \cup {i} \subseteq Earlier(j)
    BY <1>5, <2>1
  <2> HIDE DEF Earlier
  <2>4. /\ IsFiniteSet(Earlier(i) \cup {i})
        /\ Cardinality(Earlier(i) \cup {i}) = Cardinality(Earlier(i)) + 1
    BY <1>3, <2>2, FS_AddElement
  <2>5. Cardinality(Earlier(i) \cup {i}) <= Cardinality(Earlier(j))
    BY <1>3, <2>3, FS_Subset
  <2> QED  BY <1>3, <2>4, <2>5
<1>6. ASSUME NEW n \in 1 .. L PROVE \E i \in 1 .. L : P(i) = n
  <2> DEFINE f == [i \in 1 .. L |-> P(i)]
  <2>1. f \in [1 .. L -> 1 .. L]
    BY <1>4
  <2>2. ASSUME NEW i \in 1 .. L, NEW j \in 1 .. L, f[i] = f[j] PROVE i = j
    <3>1. P(i) = P(j) /\ P(i) \in Int
      <4> HIDE DEF P
      <4> QED  BY <1>4, <2>2
    <3>2. i = j \/ Before(sort, s, i, j) \/ Before(sort, s, j, i)
      BY DEF Before
    <3> HIDE DEF P
    <3> QED  BY <1>4, <1>5, <3>1, <3>2
  <2>3. f \in Injection(1 .. L, 1 .. L)
    <3> HIDE DEF f
    <3> QED  BY <2>1, <2>2 DEF Injection, IsInjective
  <2>4. f \in Surjection(1 .. L, 1 .. L)
    <3> HIDE DEF f
    <3> QED  BY <1>2, <2>3, FS_Injection
  <2> HIDE DEF P
  <2> QED  BY <2>4 DEF Surjection
<1> HIDE DEF P
<1> QED  BY <1>1, <1>4, <1>5, <1>6 DEF Taken

(* p says where the sorted elements come from. *)
Arranges(p, sort, s, L) ==
    /\ p \in [1 .. L -> 1 .. L]
    /\ \A n \in 1 .. L : Sort(sort, s)[n] = s[p[n]]
    /\ \A n, m \in 1 .. L : p[n] = p[m] => n = m
    /\ \A n, m \in 1 .. L : n < m => SortValue(sort, s[p[n]]) <= SortValue(sort, s[p[m]])

(* _sort: the same elements, each once, in the order of their keys. *)
LEMMA SortSorts ==
    ASSUME NEW sort, NEW L \in Nat, NEW s, DOMAIN s = 1 .. L,
           \A i \in 1 .. L : SortValue(sort, s[i]) \in Int
    PROVE  /\ DOMAIN Sort(sort, s) = 1 .. L
           /\ \E p : Arranges(p, sort, s, L)
<1>0. \A n \in 1 .. L : Taken(sort, s, L, n)
  BY PlacesCount
<1> DEFINE At(n) == CHOOSE i \in 1 .. L : Place(sort, s, i) = n
           p == [n \in 1 .. L |-> At(n)]
<1>1. ASSUME NEW n \in 1 .. L PROVE At(n) \in 1 .. L /\ Place(sort, s, At(n)) = n
  BY <1>0 DEF Taken
<1>2. DOMAIN Sort(sort, s) = 1 .. L /\ \A n \in 1 .. L : Sort(sort, s)[n] = s[At(n)]
  BY DEF Sort
<1> HIDE DEF At
<1>3. p \in [1 .. L -> 1 .. L] /\ \A n \in 1 .. L : p[n] = At(n)
  BY <1>1
<1> HIDE DEF p
<1>4. ASSUME NEW n \in 1 .. L, NEW m \in 1 .. L, p[n] = p[m] PROVE n = m
  BY <1>1, <1>3, <1>4
<1>5. ASSUME NEW n \in 1 .. L, NEW m \in 1 .. L, n < m
      PROVE  SortValue(sort, s[p[n]]) <= SortValue(sort, s[p[m]])
  <2>1. p[n] \in 1 .. L /\ p[m] \in 1 .. L
    BY <1>3
  <2>2. Place(sort, s, p[n]) = n /\ Place(sort, s, p[m]) = m
    BY <1>1, <1>3
  <2>3. ~Before(sort, s, p[m], p[n])
    <3>1. Before(sort, s, p[m], p[n]) => Place(sort, s, p[m]) < Place(sort, s, p[n])
      BY <2>1, PlacesCount
    <3> QED  BY <1>5, <2>2, <3>1
  <2>4. SortValue(sort, s[p[n]]) \in Int /\ SortValue(sort, s[p[m]]) \in Int
    BY <2>1
  <2> QED  BY <2>3, <2>4 DEF Before
<1>6. \A n \in 1 .. L : Sort(sort, s)[n] = s[p[n]]
  BY <1>2, <1>3
<1>7. Arranges(p, sort, s, L)
  BY <1>3, <1>4, <1>5, <1>6 DEF Arranges
<1> QED  BY <1>2, <1>7

(* There are as many numbers as providers. *)
LEMMA NumbersFinite == IsFiniteSet(Numbers) /\ Cardinality(Numbers) = Len(Providers)
<1> DEFINE L == Len(Providers)
<1>1. L \in Nat
  BY AggregationAssumption
<1>2. IsFiniteSet(1 .. L) /\ Cardinality(1 .. L) = L
  <2> HIDE DEF L
  <2> QED  BY <1>1, FS_Interval
<1> QED  BY <1>2 DEF Numbers

(* What is on offer is finite. *)
LEMMA OfferedFinite ==
    ASSUME NEW offered \in [Numbers -> Seq(Offers)]
    PROVE  IsFiniteSet(Offered(offered)) /\ IsFiniteSet({Product(o) : o \in Offered(offered)})
<1> DEFINE L == Len(Providers)
           S(m) == UNION {ToSet(offered[n]) : n \in 1 .. m}
           T == {m \in 0 .. L : IsFiniteSet(S(m))}
<1>0. L \in Nat
  BY AggregationAssumption
<1>1. 0 \in T
  <2>1. S(0) = {}
    OBVIOUS
  <2> QED  BY <1>0, <2>1, FS_EmptySet
<1>2. ASSUME NEW m \in 1 .. L, m - 1 \in T PROVE m \in T
  <2>1. S(m) = S(m - 1) \cup ToSet(offered[m])
    <3>1. 1 .. m = (1 .. m - 1) \cup {m}
      BY <1>0
    <3> QED  BY <3>1
  <2>2. offered[m] \in Seq(Offers)
    BY DEF Numbers
  <2>3. IsFiniteSet(ToSet(offered[m]))
    <3>1. IsFiniteSet(DOMAIN offered[m])
      BY <2>2, FS_Interval
    <3> DEFINE g == [i \in DOMAIN offered[m] |-> offered[m][i]]
    <3>2. g \in Surjection(DOMAIN offered[m], ToSet(offered[m]))
      BY DEF Surjection, ToSet
    <3> QED  BY <3>1, <3>2, FS_Surjection
  <2>4. IsFiniteSet(S(m - 1))
    BY <1>2
  <2> HIDE DEF S
  <2>5. IsFiniteSet(S(m))
    <3> DEFINE old == S(m - 1)
               new == ToSet(offered[m])
    <3>1. IsFiniteSet(old) /\ IsFiniteSet(new) /\ S(m) = old \cup new
      BY <2>1, <2>3, <2>4
    <3> HIDE DEF old, new
    <3>2. IsFiniteSet(old \cup new)
      BY <3>1, FS_Union, Zenon
    <3> QED  BY <3>1, <3>2
  <2> QED  BY <1>0, <2>5
<1> HIDE DEF T
<1>3. \A m \in 0 .. L : m \in T
  BY <1>0, <1>1, <1>2, IntervalInduction
<1>4. IsFiniteSet(S(L))
  BY <1>0, <1>3 DEF T
<1>5. IsFiniteSet(Offered(offered))
  BY <1>4 DEF Offered, Numbers
<1> DEFINE O == Offered(offered)
           h == [o \in O |-> Product(o)]
<1>6. h \in Surjection(O, {Product(o) : o \in O})
  <2> HIDE DEF O
  <2> QED  BY DEF Surjection
<1> HIDE DEF h
<1>7. IsFiniteSet({Product(o) : o \in O})
  BY <1>5, <1>6, FS_Surjection
<1> QED  BY <1>5, <1>7

(* What holds of a result, and of every stretch of it: no product is       *)
(* listed twice, every offer is the cheapest of its product among the      *)
(* providers in answered, all scores come from one ranking, and the keys   *)
(* never decrease.                                                         *)
ListedOnce(r) ==
    \A i, j \in DOMAIN r : Product(r[i].offer) = Product(r[j].offer) => i = j

ListedCheapest(r, c, answered) ==
    \A i \in DOMAIN r : \A n \in answered : \A other \in ToSet(c[n]) :
        Product(other) = Product(r[i].offer) => Price(r[i].offer) <= Price(other)

RankedTogether(r, c) ==
    \E S \in SUBSET Offered(c) :
        \A i \in DOMAIN r : r[i].offer \in S /\ r[i].score = Score(r[i].offer, S)

InOrder(r, sort) ==
    \A i, j \in DOMAIN r : i < j => SortValue(sort, r[i]) <= SortValue(sort, r[j])

Listing(r, c, sort, answered) ==
    /\ ListedOnce(r)
    /\ ListedCheapest(r, c, answered)
    /\ RankedTogether(r, c)
    /\ InOrder(r, sort)

(* search: whatever the providers offer and whichever of them answer, the  *)
(* result is such a listing, of no more items than there are products.     *)
LEMMA OrderedIsListing ==
    ASSUME NEW x \in Searches, NEW answered \in SUBSET Numbers
    PROVE  /\ Ordered(x.catalog, x.query, answered) \in Seq(Items)
           /\ Len(Ordered(x.catalog, x.query, answered)) <= MaxSeen
           /\ Listing(Ordered(x.catalog, x.query, answered), x.catalog, x.query.sort, answered)
<1> DEFINE c == x.catalog
           sort == x.query.sort
           M == Merge(c, answered)
           D == Dedupe(M)
           F == Filter(x.query.filters, D)
           S == ToSet(F)
           K == Rank(F)
           r == Sort(sort, K)
           L == Len(F)
<1>1. r = Ordered(c, x.query, answered)
  BY DEF Ordered
<1>2. /\ c \in [Numbers -> Seq(Offers)]
      /\ MaxSeen \in Nat
      /\ Cardinality({Product(o) : o \in Offered(c)}) <= MaxSeen
      /\ \A Q \in SUBSET Offered(c) : Rankable(sort, Q)
  BY AggregationAssumption
<1> HIDE DEF c, sort
<1>3. M \in Seq(Offers) /\ ToSet(M) = UNION {ToSet(c[n]) : n \in answered}
  BY <1>2, MergeIsUnion
<1>4. ToSet(M) \subseteq Offered(c)
  BY <1>3 DEF Offered
<1>5. \A o \in ToSet(M) : Price(o) \in Int
  <2>1. Rankable(sort, ToSet(M))
    BY <1>2, <1>4
  <2> QED  BY <2>1 DEF Rankable
<1> HIDE DEF M
<1>6. /\ D \in Seq(Offers) /\ ToSet(D) \subseteq ToSet(M) /\ OncePerProduct(D)
      /\ \A o \in ToSet(M) : Covers(D, o)
  BY <1>3, <1>5, DedupeIsCheapest
<1> HIDE DEF D
<1>7. F \in Seq(Offers) /\ S \subseteq ToSet(D) /\ OncePerProduct(F)
  BY <1>6, FilterIsASelection
<1> HIDE DEF F
<1>8. L \in Nat /\ DOMAIN F = 1 .. L /\ \A i \in 1 .. L : F[i] \in Offers /\ F[i] \in S
  BY <1>7 DEF ToSet
<1>9. S \in SUBSET Offered(c) /\ Rankable(sort, S)
  BY <1>2, <1>4, <1>6, <1>7
<1>10. DOMAIN K = 1 .. L /\ \A i \in 1 .. L : K[i] = Ranked(F[i], S)
  BY <1>8 DEF Rank
<1> HIDE DEF K, L, S
<1>11. ASSUME NEW i \in 1 .. L
       PROVE  /\ K[i] \in Items /\ K[i].offer = F[i] /\ K[i].score = Score(F[i], S)
              /\ SortValue(sort, K[i]) \in Int
  <2>1. F[i] \in Offers /\ F[i] \in S /\ K[i] = Ranked(F[i], S)
    BY <1>8, <1>10
  <2>2. Score(F[i], S) \in 0 .. 1000 /\ SortValue(sort, Ranked(F[i], S)) \in Int
    BY <1>9, <2>1 DEF Rankable
  <2>3. Ranked(F[i], S) = [offer |-> F[i], score |-> Score(F[i], S)]
    BY DEF Ranked
  <2>4. Ranked(F[i], S) \in Items
    BY <2>1, <2>2, <2>3 DEF Items
  <2> QED  BY <2>1, <2>2, <2>3, <2>4
<1>12. PICK p : Arranges(p, sort, K, L)
  <2>1. \A i \in 1 .. L : SortValue(sort, K[i]) \in Int
    BY <1>11
  <2> QED  BY <1>8, <1>10, <2>1, SortSorts
<1>13. DOMAIN r = 1 .. L
  BY <1>8, <1>10, <1>11, SortSorts
<1>14. r = [i \in 1 .. L |-> r[i]]
  BY <1>13 DEF Sort
<1>15. \A n \in 1 .. L : r[n] = K[p[n]]
  BY <1>12 DEF Arranges
<1> HIDE DEF r
<1>16. ASSUME NEW i \in 1 .. L
       PROVE  p[i] \in 1 .. L /\ r[i] = K[p[i]] /\ r[i].offer = F[p[i]] /\ r[i] \in Items
  BY <1>11, <1>12, <1>15 DEF Arranges
<1>17. r \in Seq(Items) /\ Len(r) = L
  BY <1>8, <1>14, <1>16
<1>18. ListedOnce(r)
  <2> SUFFICES ASSUME NEW i \in 1 .. L, NEW j \in 1 .. L,
                      Product(r[i].offer) = Product(r[j].offer)
               PROVE  i = j
    BY <1>13 DEF ListedOnce
  <2>1. p[i] = p[j]
    BY <1>7, <1>8, <1>16 DEF OncePerProduct
  <2> QED  BY <1>12, <2>1 DEF Arranges
<1>19. ListedCheapest(r, c, answered)
  <2> SUFFICES ASSUME NEW i \in 1 .. L, NEW n \in answered, NEW other \in ToSet(c[n]),
                      Product(other) = Product(r[i].offer)
               PROVE  Price(r[i].offer) <= Price(other)
    BY <1>13 DEF ListedCheapest
  <2> DEFINE o == r[i].offer
  <2>1. o \in ToSet(D)
    BY <1>7, <1>8, <1>16
  <2>2. PICK k \in DOMAIN D : o = D[k]
    BY <2>1 DEF ToSet
  <2>3. PICK l \in DOMAIN D : Product(D[l]) = Product(other) /\ Price(D[l]) <= Price(other)
    BY <1>3, <1>6 DEF Covers
  <2>4. k = l
    BY <1>6, <2>2, <2>3 DEF OncePerProduct
  <2> QED  BY <2>2, <2>3, <2>4
<1>20. RankedTogether(r, c)
  <2>1. \A i \in 1 .. L : r[i].offer \in S /\ r[i].score = Score(r[i].offer, S)
    <3> SUFFICES ASSUME NEW i \in 1 .. L
                 PROVE  r[i].offer \in S /\ r[i].score = Score(r[i].offer, S)
      OBVIOUS
    <3>1. F[p[i]] \in S /\ K[p[i]].score = Score(F[p[i]], S)
      BY <1>8, <1>11, <1>16
    <3> QED  BY <1>16, <3>1
  <2> QED  BY <1>9, <1>13, <2>1 DEF RankedTogether
<1>21. InOrder(r, sort)
  BY <1>12, <1>13, <1>15 DEF InOrder, Arranges
<1>22. L <= MaxSeen
  <2> DEFINE P == {Product(o) : o \in Offered(c)}
             h == [i \in 1 .. L |-> Product(F[i])]
  <2>1. IsFiniteSet(P)
    BY <1>2, OfferedFinite
  <2>2. h \in [1 .. L -> P]
    BY <1>8, <1>9
  <2>3. \A i, j \in 1 .. L : h[i] = h[j] => i = j
    BY <1>7, <1>8 DEF OncePerProduct
  <2> HIDE DEF h, P
  <2>4. h \in Injection(1 .. L, P)
    BY <2>2, <2>3 DEF Injection, IsInjective
  <2>5. Cardinality(1 .. L) <= Cardinality(P)
    BY <2>1, <2>4, FS_Injection
  <2>6. Cardinality(1 .. L) = L
    BY <1>8, FS_Interval
  <2>7. Cardinality(P) \in Nat
    BY <2>1, FS_CardinalityType
  <2> QED  BY <1>2, <1>8, <2>5, <2>6, <2>7 DEF P
<1> QED  BY <1>1, <1>17, <1>18, <1>19, <1>20, <1>21, <1>22 DEF Listing, c, sort

(* A stretch of a listing is a listing. *)
LEMMA StretchIsListing ==
    ASSUME NEW r \in Seq(Items), NEW c, NEW sort, NEW answered,
           Listing(r, c, sort, answered),
           NEW m \in Nat, NEW n \in Nat, 1 <= m, n <= Len(r)
    PROVE  /\ SubSeq(r, m, n) \in Seq(Items)
           /\ Len(SubSeq(r, m, n)) = IF m <= n THEN n - m + 1 ELSE 0
           /\ Listing(SubSeq(r, m, n), c, sort, answered)
<1> DEFINE t == SubSeq(r, m, n)
<1>0. DOMAIN r = 1 .. Len(r) /\ Len(r) \in Nat
  OBVIOUS
<1>1. \A i \in m .. n : r[i] \in Items
  BY <1>0
<1>2. /\ t \in Seq(Items)
      /\ Len(t) = IF m <= n THEN n - m + 1 ELSE 0
      /\ \A i \in 1 .. n - m + 1 : t[i] = r[m + i - 1]
  BY <1>1, SubSeqProperties
<1> HIDE DEF t
<1>3. ASSUME NEW i \in DOMAIN t PROVE i \in Int /\ m + i - 1 \in DOMAIN r /\ t[i] = r[m + i - 1]
  <2>1. i \in 1 .. n - m + 1
    BY <1>2
  <2> QED  BY <1>0, <1>2, <2>1
<1>4. ListedOnce(t)
  <2> SUFFICES ASSUME NEW i \in DOMAIN t, NEW j \in DOMAIN t,
                      Product(t[i].offer) = Product(t[j].offer)
               PROVE  i = j
    BY DEF ListedOnce
  <2>1. m + i - 1 = m + j - 1
    BY <1>3 DEF Listing, ListedOnce
  <2> QED  BY <1>3, <2>1
<1>5. ListedCheapest(t, c, answered)
  BY <1>3 DEF Listing, ListedCheapest
<1>6. RankedTogether(t, c)
  BY <1>3 DEF Listing, RankedTogether
<1>7. InOrder(t, sort)
  <2> SUFFICES ASSUME NEW i \in DOMAIN t, NEW j \in DOMAIN t, i < j
               PROVE  SortValue(sort, t[i]) <= SortValue(sort, t[j])
    BY DEF InOrder
  <2>1. m + i - 1 < m + j - 1
    BY <1>3
  <2> QED  BY <1>3, <2>1 DEF Listing, InOrder
<1> QED  BY <1>2, <1>4, <1>5, <1>6, <1>7 DEF Listing, t

-----------------------------------------------------------------------------
(* The pages of one traversal, as long as none was flagged: what was       *)
(* received ends where the next page begins.                               *)
Whole == Ordered(catalog, query, Numbers)
Offset == DecodeCursor(cursor)

ReceivedEndsAtCursor ==
    /\ Offset = first => seen = << >>
    /\ Offset # first => /\ first < Offset /\ Offset < Len(Whole)
                         /\ seen = SubSeq(Whole, first + 1, Offset)

ReceivedIsRest ==
    seen = IF first < Len(Whole) THEN SubSeq(Whole, first + 1, Len(Whole)) ELSE << >>

TilesSoFar ==
    ~warned => IF at = "end" THEN ReceivedIsRest ELSE ReceivedEndsAtCursor

(* The latest page is a listing, as long as the request it answers is the  *)
(* latest one of what its providers answered.                              *)
PageIsListing ==
    /\ page # NoPage =>
         \E answered \in SUBSET Numbers : Listing(page.items, catalog, query.sort, answered)
    /\ at \in {"page", "end"} => Listing(page.items, catalog, query.sort, Answered)

(* What is inductive: the properties say nothing of the cursor, nor of a   *)
(* page while the next one is being gathered.                              *)
IInv ==
    /\ TypeOK
    /\ TilesSoFar
    /\ PageIsListing

(* decode_cursor never goes below zero, and undoes encode_cursor. *)
LEMMA CursorsDecode ==
    /\ \A c \in FirstCursors \cup [offset : Nat] : DecodeCursor(c) \in Nat
    /\ \A n \in Nat : DecodeCursor(EncodeCursor(n)) = n
<1>1. ASSUME NEW c \in FirstCursors \cup [offset : Nat] PROVE DecodeCursor(c) \in Nat
  <2>1. CASE c \in {NoCursor, Garbled}
    BY <2>1 DEF DecodeCursor
  <2>2. CASE c \notin {NoCursor, Garbled}
    <3>1. c \in [offset : Nat] \/ c \in Cursors
      BY <2>2, AggregationAssumption
    <3>2. c.offset \in Int
      BY <3>1 DEF Cursors
    <3> QED  BY <2>2, <3>2 DEF DecodeCursor
  <2> QED  BY <2>1, <2>2
<1>2. ASSUME NEW n \in Nat PROVE DecodeCursor(EncodeCursor(n)) = n
  <2>1. EncodeCursor(n) \in Cursors /\ EncodeCursor(n).offset = n
    BY DEF EncodeCursor, Cursors
  <2>2. EncodeCursor(n) \notin {NoCursor, Garbled}
    BY <2>1, AggregationAssumption
  <2> QED  BY <2>1, <2>2 DEF DecodeCursor
<1> QED  BY <1>1, <1>2

(* What the response is made of, in the terms of the proofs. *)
LEMMA PageIsWellFormed ==
    ASSUME TypeOK
    PROVE  LET r == Ordered(catalog, query, Answered)
               p == PageOf(Answered, Offset)
           IN  /\ Offset \in Nat
               /\ query.limit \in Nat \ {0}
               /\ r \in Seq(Items) /\ Len(r) <= MaxSeen
               /\ p.items \in Seq(Items)
               /\ Len(p.items) <= query.limit
               /\ p.ok \in 0 .. Len(Providers)
               /\ p.failed \in 0 .. Len(Providers)
               /\ p.degraded \in BOOLEAN
               /\ p.total \in Nat
               /\ p.hasMore \in BOOLEAN
               /\ Listing(p.items, catalog, query.sort, Answered)
<1> DEFINE r == Ordered(catalog, query, Answered)
           p == PageOf(Answered, Offset)
           ok == Cardinality(Answered)
           end == IF Offset + query.limit < Len(r) THEN Offset + query.limit ELSE Len(r)
<1>1. Offset \in Nat
  BY CursorsDecode DEF TypeOK, Offset
<1>2. PICK x \in Searches : catalog = x.catalog /\ query = x.query
  BY DEF TypeOK
<1>3. query.limit \in Nat \ {0}
  BY <1>2, AggregationAssumption
<1>4. Answered \in SUBSET Numbers
  BY DEF Answered
<1>5. /\ r \in Seq(Items) /\ Len(r) <= MaxSeen
      /\ Listing(r, catalog, query.sort, Answered)
  BY <1>2, <1>4, OrderedIsListing
<1>6. ok \in 0 .. Len(Providers)
  <2>1. Len(Providers) \in Nat
    BY AggregationAssumption
  <2>2. IsFiniteSet(Numbers) /\ Cardinality(Numbers) = Len(Providers)
    BY NumbersFinite
  <2>3. Cardinality(Answered) <= Len(Providers) /\ Cardinality(Answered) \in Nat
    BY <1>4, <2>2, FS_Subset, FS_CardinalityType
  <2> QED  BY <2>1, <2>3
<1>7. /\ p.items = SubSeq(r, Offset + 1, end)
      /\ p.ok = ok /\ p.failed = Len(Providers) - ok
      /\ p.degraded = Degraded(Len(Providers) - ok)
      /\ p.total = Len(r)
      /\ p.hasMore = (Offset + query.limit < Len(r))
  BY DEF PageOf, Slice
<1> HIDE DEF r, p
<1>8. Len(r) \in Nat
  BY <1>5
<1>9. Offset + 1 \in Nat /\ 1 <= Offset + 1 /\ end \in Nat /\ end <= Len(r)
  BY <1>1, <1>3, <1>8
<1>10. (IF Offset + 1 <= end THEN end - (Offset + 1) + 1 ELSE 0) <= query.limit
  BY <1>1, <1>3, <1>8
<1> HIDE DEF end
<1>11. /\ p.items \in Seq(Items)
       /\ Len(p.items) = IF Offset + 1 <= end THEN end - (Offset + 1) + 1 ELSE 0
       /\ Listing(p.items, catalog, query.sort, Answered)
  BY <1>5, <1>7, <1>9, StretchIsListing
<1>12. Len(Providers) - ok \in 0 .. Len(Providers)
  BY <1>6, AggregationAssumption
<1>13. p.degraded \in BOOLEAN /\ p.hasMore \in BOOLEAN
  BY <1>7 DEF Degraded
<1> QED  BY <1>1, <1>3, <1>5, <1>6, <1>7, <1>8, <1>10, <1>11, <1>12, <1>13 DEF r, p

(* Every action keeps the types. *)
LEMMA TypesKept == TypeOK /\ [Next]_vars => TypeOK'
<1> SUFFICES ASSUME TypeOK, [Next]_vars PROVE TypeOK'
  OBVIOUS
<1>1. ASSUME Search \/ Refuse PROVE TypeOK'
  BY <1>1 DEF Search, Refuse, TypeOK
<1>2. ASSUME NEW n \in Numbers, NEW s \in {"ok", "failed"}, Settle(n, s) PROVE TypeOK'
  BY <1>2 DEF Settle, TypeOK
<1>3. CASE Respond
  <2> DEFINE p == PageOf(Answered, Offset)
  <2>1. /\ page' = p
        /\ cursor' = IF p.hasMore THEN EncodeCursor(NextOffset(Offset)) ELSE cursor
        /\ at' = IF p.hasMore THEN "page" ELSE "end"
        /\ seen' = IF Len(seen) < MaxSeen THEN seen \o p.items ELSE seen
        /\ warned' = (warned \/ p.degraded)
        /\ UNCHANGED <<catalog, query, status, first>>
    BY <1>3 DEF Respond, Offset
  <2>2. /\ Offset \in Nat /\ query.limit \in Nat
        /\ p.items \in Seq(Items) /\ Len(p.items) <= query.limit
        /\ p.ok \in 0 .. Len(Providers) /\ p.failed \in 0 .. Len(Providers)
        /\ p.degraded \in BOOLEAN /\ p.total \in Nat /\ p.hasMore \in BOOLEAN
    BY PageIsWellFormed
  <2> HIDE DEF p
  <2>3. EncodeCursor(NextOffset(Offset)) \in [offset : Nat]
    BY <2>2 DEF EncodeCursor, NextOffset
  <2>4. cursor' \in FirstCursors \cup [offset : Nat]
    BY <2>1, <2>3 DEF TypeOK
  <2>5. seen' \in Seq(Items)
    BY <2>1, <2>2 DEF TypeOK
  <2>6. at' \in {"start", "gather", "page", "end", "refused"} /\ warned' \in BOOLEAN
    BY <2>1, <2>2 DEF TypeOK
  <2> QED  BY <2>1, <2>2, <2>4, <2>5, <2>6 DEF TypeOK
<1>4. CASE UNCHANGED vars
  BY <1>4 DEF vars, TypeOK
<1> QED  BY <1>1, <1>2, <1>3, <1>4 DEF Next

(* Without a flag, all providers have answered. *)
LEMMA UnflaggedIsWhole ==
    ASSUME TypeOK, ~PageOf(Answered, Offset).degraded
    PROVE  Answered = Numbers
<1>1. Answered \in SUBSET Numbers
  BY DEF Answered
<1>2. IsFiniteSet(Numbers) /\ Cardinality(Numbers) = Len(Providers) /\ Len(Providers) \in Nat
  BY NumbersFinite, AggregationAssumption
<1>3. Cardinality(Answered) \in Nat /\ Cardinality(Answered) <= Len(Providers)
  BY <1>1, <1>2, FS_Subset, FS_CardinalityType
<1>4. ~(Len(Providers) - Cardinality(Answered) > 0)
  BY DEF PageOf, Degraded
<1>5. Cardinality(Answered) = Cardinality(Numbers)
  BY <1>2, <1>3, <1>4
<1> QED  BY <1>1, <1>2, <1>5, FS_Subset

(* A page that is not flagged continues where the last one ended. *)
LEMMA RespondTiles ==
    ASSUME TypeOK, TilesSoFar, Respond, ~warned'
    PROVE  IF at' = "end" THEN ReceivedIsRest' ELSE ReceivedEndsAtCursor'
<1> DEFINE p == PageOf(Answered, Offset)
           W == Whole
           limit == query.limit
           L == Len(W)
<1>1. /\ cursor' = IF p.hasMore THEN EncodeCursor(NextOffset(Offset)) ELSE cursor
      /\ at' = IF p.hasMore THEN "page" ELSE "end"
      /\ seen' = IF Len(seen) < MaxSeen THEN seen \o p.items ELSE seen
      /\ warned' = (warned \/ p.degraded)
      /\ UNCHANGED <<catalog, query, first>>
      /\ at = "gather"
  BY DEF Respond, Offset, Gathered
<1>2. ~warned /\ ~p.degraded
  BY <1>1, PageIsWellFormed DEF TypeOK
<1>3. ReceivedEndsAtCursor
  BY <1>1, <1>2 DEF TilesSoFar
<1>4. Answered = Numbers
  BY <1>2, UnflaggedIsWhole
<1>5. /\ Offset \in Nat /\ limit \in Nat \ {0} /\ W \in Seq(Items) /\ L <= MaxSeen
      /\ L \in Nat /\ MaxSeen \in Nat /\ first \in Nat
  BY <1>4, PageIsWellFormed, AggregationAssumption DEF Whole, TypeOK
<1>6. /\ p.items = SubSeq(W, Offset + 1, IF Offset + limit < L THEN Offset + limit ELSE L)
      /\ p.hasMore = (Offset + limit < L)
  BY <1>4 DEF PageOf, Slice, Whole
<1>7. Whole' = W
  BY <1>1 DEF Whole
<1> HIDE DEF p, W, L, limit
<1>8. CASE p.hasMore
  <2> DEFINE next == Offset + limit
  <2>1. /\ next \in Nat /\ next < L /\ first < next
        /\ p.items = SubSeq(W, Offset + 1, next)
    <3>1. Offset + limit < L
      BY <1>6, <1>8
    <3>2. first <= Offset
      BY <1>3, <1>5 DEF ReceivedEndsAtCursor
    <3> QED  BY <1>5, <1>6, <3>1, <3>2
  <2>2. Offset' = next
    <3>1. cursor' = EncodeCursor(next)
      BY <1>1, <1>8 DEF NextOffset, limit
    <3> QED  BY <2>1, <3>1, CursorsDecode DEF Offset
  <2>3. Len(seen) < MaxSeen
    <3>1. CASE Offset = first
      <4>1. Len(seen) = 0
        BY <1>3, <3>1 DEF ReceivedEndsAtCursor
      <4> QED  BY <1>5, <2>1, <4>1
    <3>2. CASE Offset # first
      <4>1. first < Offset /\ Offset < L /\ seen = SubSeq(W, first + 1, Offset)
        BY <1>3, <3>2 DEF ReceivedEndsAtCursor, W, L
      <4>2. Len(seen) = Offset - first
        BY <1>5, <4>1 DEF L
      <4> QED  BY <1>5, <4>1, <4>2
    <3> QED  BY <3>1, <3>2
  <2>4. seen' = SubSeq(W, first + 1, next)
    <3>1. seen' = seen \o SubSeq(W, Offset + 1, next)
      BY <1>1, <2>1, <2>3
    <3>2. CASE Offset = first
      <4>1. seen = << >>
        BY <1>3, <3>2 DEF ReceivedEndsAtCursor
      <4>2. SubSeq(W, first + 1, next) \in Seq(Items)
        BY <1>5, <2>1 DEF L
      <4> QED  BY <3>1, <3>2, <4>1, <4>2
    <3>3. CASE Offset # first
      <4>1. first < Offset /\ Offset < L /\ seen = SubSeq(W, first + 1, Offset)
        BY <1>3, <3>3 DEF ReceivedEndsAtCursor, W, L
      <4>2. first + 1 \in 1 .. L + 1 /\ Offset \in (first + 1) - 1 .. L /\ next \in Offset .. L
        BY <1>5, <2>1, <4>1
      <4> QED  BY <1>5, <3>1, <4>1, <4>2, ConcatAdjacentSubSeq DEF L
    <3> QED  BY <3>2, <3>3
  <2>5. at' # "end"
    BY <1>1, <1>8
  <2>6. first' = first /\ first < next /\ next < Len(W)
    BY <1>1, <2>1 DEF L
  <2> HIDE DEF next
  <2>7. ReceivedEndsAtCursor'
    BY <1>5, <1>7, <2>2, <2>4, <2>6 DEF ReceivedEndsAtCursor
  <2> QED  BY <2>5, <2>7
<1>9. CASE ~p.hasMore
  <2>1. p.items = SubSeq(W, Offset + 1, L) /\ at' = "end"
    BY <1>1, <1>6, <1>9
  <2>2. CASE Offset # first
    <3>1. first < Offset /\ Offset < L /\ seen = SubSeq(W, first + 1, Offset)
      BY <1>3, <2>2 DEF ReceivedEndsAtCursor, W, L
    <3>2. Len(seen) = Offset - first
      BY <1>5, <3>1 DEF L
    <3>3. Len(seen) < MaxSeen
      BY <1>5, <3>1, <3>2
    <3>4. first + 1 \in 1 .. L + 1 /\ Offset \in (first + 1) - 1 .. L /\ L \in Offset .. L
      BY <1>5, <3>1
    <3>5. seen' = SubSeq(W, first + 1, L)
      BY <1>1, <1>5, <2>1, <3>1, <3>3, <3>4, ConcatAdjacentSubSeq DEF L
    <3>6. first < L
      BY <1>5, <3>1
    <3> QED  BY <1>1, <1>7, <2>1, <3>5, <3>6 DEF ReceivedIsRest, L
  <2>3. CASE Offset = first
    <3>1. seen = << >> /\ Len(seen) = 0
      BY <1>3, <2>3 DEF ReceivedEndsAtCursor
    <3>2. CASE first < L
      <4>1. Len(seen) < MaxSeen
        BY <1>5, <3>1, <3>2
      <4>2. SubSeq(W, first + 1, L) \in Seq(Items)
        BY <1>5 DEF L
      <4>3. seen' = SubSeq(W, first + 1, L)
        <5>1. seen' = << >> \o SubSeq(W, first + 1, L)
          BY <1>1, <2>1, <2>3, <3>1, <4>1
        <5> QED  BY <4>2, <5>1, ConcatEmptySeq
      <4> QED  BY <1>1, <1>7, <2>1, <3>2, <4>3 DEF ReceivedIsRest, L
    <3>3. CASE ~(first < L)
      <4>1. SubSeq(W, Offset + 1, L) = << >>
        BY <1>5, <2>3, <3>3, SubSeqEmpty
      <4>2. seen' = << >>
        BY <1>1, <2>1, <3>1, <4>1
      <4> QED  BY <1>1, <1>7, <2>1, <3>3, <4>2 DEF ReceivedIsRest, L
    <3> QED  BY <3>2, <3>3
  <2> QED  BY <2>2, <2>3
<1> QED  BY <1>8, <1>9

(* Every action keeps the inductive invariant. *)
LEMMA NextIInv == IInv /\ [Next]_vars => IInv'
<1> SUFFICES ASSUME IInv, [Next]_vars PROVE IInv'
  OBVIOUS
<1>0. TypeOK /\ TypeOK'
  BY TypesKept DEF IInv
<1>1. CASE Search
  <2>1. UNCHANGED <<catalog, query, cursor, page, first, seen, warned>>
    BY <1>1 DEF Search
  <2>2. at \in {"start", "page"} /\ at' = "gather"
    BY <1>1 DEF Search
  <2>3. TilesSoFar'
    BY <2>1, <2>2 DEF IInv, TilesSoFar, ReceivedEndsAtCursor, Offset, Whole
  <2>4. PageIsListing'
    BY <2>1, <2>2 DEF IInv, PageIsListing
  <2> QED  BY <1>0, <2>3, <2>4 DEF IInv
<1>2. CASE Refuse
  <2>1. UNCHANGED <<catalog, query, cursor, status, page, first, seen, warned>>
    BY <1>2 DEF Refuse
  <2>2. at = "start" /\ at' = "refused"
    BY <1>2 DEF Refuse
  <2>3. TilesSoFar'
    BY <2>1, <2>2 DEF IInv, TilesSoFar, ReceivedEndsAtCursor, Offset, Whole
  <2>4. PageIsListing'
    BY <2>1, <2>2 DEF IInv, PageIsListing
  <2> QED  BY <1>0, <2>3, <2>4 DEF IInv
<1>3. ASSUME NEW n \in Numbers, NEW s \in {"ok", "failed"}, Settle(n, s) PROVE IInv'
  <2>1. UNCHANGED <<catalog, query, cursor, at, page, first, seen, warned>>
    BY <1>3 DEF Settle
  <2>2. at = "gather"
    BY <1>3 DEF Settle
  <2>3. TilesSoFar'
    BY <2>1, <2>2 DEF IInv, TilesSoFar, ReceivedEndsAtCursor, Offset, Whole
  <2>4. PageIsListing'
    BY <2>1, <2>2 DEF IInv, PageIsListing
  <2> QED  BY <1>0, <2>3, <2>4 DEF IInv
<1>4. CASE Respond
  <2>1. TilesSoFar'
    BY <1>0, <1>4, RespondTiles DEF IInv, TilesSoFar
  <2>2. /\ page' = PageOf(Answered, Offset)
        /\ UNCHANGED <<catalog, query, status>>
    BY <1>4 DEF Respond, Offset
  <2>3. Listing(page'.items, catalog, query.sort, Answered)
    BY <1>0, <2>2, PageIsWellFormed
  <2>4. Answered' = Answered /\ Answered \in SUBSET Numbers
    BY <2>2 DEF Answered
  <2>5. PageIsListing'
    BY <2>2, <2>3, <2>4 DEF PageIsListing
  <2> QED  BY <1>0, <2>1, <2>5 DEF IInv
<1>5. CASE UNCHANGED vars
  <2>1. TilesSoFar'
    BY <1>5 DEF vars, IInv, TilesSoFar, ReceivedEndsAtCursor, ReceivedIsRest, Offset, Whole
  <2>2. PageIsListing'
    BY <1>5 DEF vars, IInv, PageIsListing, Answered
  <2> QED  BY <1>0, <2>1, <2>2 DEF IInv
<1> QED  BY <1>1, <1>2, <1>3, <1>4, <1>5 DEF Next

(* The inductive invariant holds in every reachable state. *)
THEOREM SearchInvariant == Spec => []IInv
<1>1. Init => IInv
  <2> SUFFICES ASSUME Init PROVE IInv
    OBVIOUS
  <2>1. status \in [Numbers -> {"asked", "ok", "failed"}]
    BY DEF Init
  <2>2. first \in Nat /\ cursor \in FirstCursors \cup [offset : Nat]
    BY CursorsDecode DEF Init
  <2>3. TypeOK
    <3>1. \E s \in Searches : catalog = s.catalog /\ query = s.query
      BY DEF Init
    <3>2. seen \in Seq(Items)
      BY EmptySeq DEF Init
    <3>3. warned \in BOOLEAN /\ page = NoPage
      BY DEF Init
    <3>4. at \in {"start", "gather", "page", "end", "refused"}
      BY DEF Init
    <3> QED  BY <2>1, <2>2, <3>1, <3>2, <3>3, <3>4 DEF TypeOK
  <2>4. TilesSoFar
    BY DEF Init, TilesSoFar, ReceivedEndsAtCursor, Offset
  <2>5. PageIsListing
    BY DEF Init, PageIsListing
  <2> QED  BY <2>3, <2>4, <2>5 DEF IInv
<1> QED  BY <1>1, NextIInv, PTL DEF Spec

-----------------------------------------------------------------------------
(* Scores and dominance. *)

(* A finite set of integers has a least and a greatest element. *)
LEMMA ExtremesExist ==
    ASSUME NEW S \in SUBSET Int, IsFiniteSet(S), S # {}
    PROVE  /\ Max(S) \in S /\ \A x \in S : x <= Max(S)
           /\ Min(S) \in S /\ \A x \in S : Min(S) <= x
<1>1. PICK L \in Nat : ExistsSurjection(1 .. L, S)
  BY FS_NatSurjection
<1>2. PICK f : f \in [1 .. L -> S] /\ \A x \in S : \E i \in 1 .. L : f[i] = x
  BY <1>1 DEF ExistsSurjection, Surjection
<1> DEFINE Upper(m) == \E k \in 1 .. m : \A i \in 1 .. m : f[i] <= f[k]
           Lower(m) == \E k \in 1 .. m : \A i \in 1 .. m : f[k] <= f[i]
           T == {m \in 0 .. L : m = 0 \/ (Upper(m) /\ Lower(m))}
<1>3. 0 \in T
  OBVIOUS
<1>4. ASSUME NEW n \in 1 .. L, n - 1 \in T PROVE n \in T
  <2>1. ASSUME NEW i \in 1 .. n PROVE f[i] \in Int
    <3>1. i \in 1 .. L
      OBVIOUS
    <3>2. f[i] \in S
      BY <1>2, <3>1
    <3> QED  BY <3>2
  <2>2. Upper(n)
    <3>1. CASE n = 1
      BY <2>1, <3>1
    <3>2. CASE n # 1
      <4>1. PICK k \in 1 .. n - 1 : \A i \in 1 .. n - 1 : f[i] <= f[k]
        BY <1>4, <3>2
      <4>2. CASE f[n] <= f[k]
        <5>1. k \in 1 .. n /\ \A i \in 1 .. n : i = n \/ i \in 1 .. n - 1
          OBVIOUS
        <5> QED  BY <4>1, <4>2, <5>1
      <4>3. CASE ~(f[n] <= f[k])
        <5>1. ASSUME NEW i \in 1 .. n PROVE f[i] <= f[n]
          <6>1. CASE i = n
            BY <2>1, <6>1
          <6>2. CASE i # n
            <7>1. i \in 1 .. n - 1 /\ k \in 1 .. n
              BY <6>2
            <7> QED  BY <2>1, <4>1, <4>3, <7>1
          <6> QED  BY <6>1, <6>2
        <5> QED  BY <5>1
      <4> QED  BY <4>2, <4>3
    <3> QED  BY <3>1, <3>2
  <2>3. Lower(n)
    <3>1. CASE n = 1
      BY <2>1, <3>1
    <3>2. CASE n # 1
      <4>1. PICK k \in 1 .. n - 1 : \A i \in 1 .. n - 1 : f[k] <= f[i]
        BY <1>4, <3>2
      <4>2. CASE f[k] <= f[n]
        <5>1. k \in 1 .. n /\ \A i \in 1 .. n : i = n \/ i \in 1 .. n - 1
          OBVIOUS
        <5> QED  BY <4>1, <4>2, <5>1
      <4>3. CASE ~(f[k] <= f[n])
        <5>1. ASSUME NEW i \in 1 .. n PROVE f[n] <= f[i]
          <6>1. CASE i = n
            BY <2>1, <6>1
          <6>2. CASE i # n
            <7>1. i \in 1 .. n - 1 /\ k \in 1 .. n
              BY <6>2
            <7> QED  BY <2>1, <4>1, <4>3, <7>1
          <6> QED  BY <6>1, <6>2
        <5> QED  BY <5>1
      <4> QED  BY <4>2, <4>3
    <3> QED  BY <3>1, <3>2
  <2>4. n \in 0 .. L
    OBVIOUS
  <2> HIDE DEF Upper, Lower
  <2> QED  BY <2>2, <2>3, <2>4
<1> HIDE DEF T
<1>5. \A m \in 0 .. L : m \in T
  BY <1>3, <1>4, IntervalInduction
<1>6. Upper(L) /\ Lower(L)
  <2>1. L # 0
    <3>1. PICK x \in S : TRUE
      OBVIOUS
    <3>2. PICK i \in 1 .. L : f[i] = x
      BY <1>2
    <3> QED  OBVIOUS
  <2>2. L \in T
    BY <1>5
  <2> HIDE DEF Upper, Lower
  <2> QED  BY <2>1, <2>2 DEF T
<1>7. \E x \in S : \A y \in S : x >= y
  <2>1. PICK k \in 1 .. L : \A i \in 1 .. L : f[i] <= f[k]
    BY <1>6
  <2>2. f[k] \in S /\ \A y \in S : y <= f[k]
    BY <1>2, <2>1
  <2>3. \A y \in S : f[k] >= y
    BY <2>2
  <2> QED  BY <2>2, <2>3
<1>8. \E x \in S : \A y \in S : x =< y
  <2>1. PICK k \in 1 .. L : \A i \in 1 .. L : f[k] <= f[i]
    BY <1>6
  <2>2. f[k] \in S /\ \A y \in S : f[k] <= y
    BY <1>2, <2>1
  <2> QED  BY <2>2
<1>9. Max(S) \in S /\ \A y \in S : Max(S) >= y
  BY <1>7 DEF Max
<1>10. Min(S) \in S /\ \A y \in S : Min(S) =< y
  BY <1>8 DEF Min
<1> QED  BY <1>9, <1>10

(* Products and quotients grow with what is multiplied and divided. *)
LEMMA ProductMonotone ==
    ASSUME NEW a \in Int, NEW b \in Int, NEW k \in Nat, a <= b
    PROVE  a * k <= b * k /\ a * k \in Int /\ b * k \in Int
OBVIOUS

LEMMA QuotientMonotone ==
    ASSUME NEW a \in Int, NEW b \in Int, NEW d \in Nat \ {0}, a <= b
    PROVE  a \div d <= b \div d
OBVIOUS

LEMMA RoundedMonotone ==
    ASSUME NEW a \in Int, NEW b \in Int, NEW d \in Nat \ {0}, a <= b
    PROVE  Rounded(a, d) <= Rounded(b, d)
<1>1. 2 * a + d \in Int /\ 2 * b + d \in Int /\ 2 * a + d <= 2 * b + d /\ 2 * d \in Nat \ {0}
  OBVIOUS
<1> QED  BY <1>1, QuotientMonotone DEF Rounded

(* The image of a finite set of offers under a field. *)
LEMMA FieldsFinite ==
    ASSUME NEW S, IsFiniteSet(S), NEW a \in S, NEW f, DOMAIN f = S,
           \A o \in S : f[o] \in Int
    PROVE  /\ {f[o] : o \in S} \in SUBSET Int
           /\ IsFiniteSet({f[o] : o \in S})
           /\ {f[o] : o \in S} # {}
<1> DEFINE g == [o \in S |-> f[o]]
           V == {f[o] : o \in S}
<1>1. g \in Surjection(S, V)
  BY DEF Surjection
<1> HIDE DEF g
<1>2. IsFiniteSet(V)
  BY <1>1, FS_Surjection
<1> QED  BY <1>2

(* FlightAggregationService._rank: among flights ranked together, one that *)
(* is in nothing worse than another scores no less.                        *)
LEMMA FlightScoreMonotone ==
    ASSUME NEW S, IsFiniteSet(S), NEW a \in S, NEW b \in S, FlightNoWorse(a, b),
           \A o \in S : o.price \in Int /\ o.duration \in Int /\ o.stops \in Nat
    PROVE  FlightScore(a, S) >= FlightScore(b, S)
<1> DEFINE lowF == Min(Fares(S))
           lowD == Min(Durations(S))
           p == OrOne(Span(Fares(S)))
           d == OrOne(Span(Durations(S)))
           s == OrOne(Max(Stops(S)))
<1>1. lowF \in Int /\ p \in Nat \ {0}
  <2>1. /\ Fares(S) \in SUBSET Int /\ IsFiniteSet(Fares(S)) /\ Fares(S) # {}
    <3> DEFINE f == [o \in S |-> o.price]
    <3>1. DOMAIN f = S /\ \A o \in S : f[o] = o.price /\ f[o] \in Int
      OBVIOUS
    <3>2. Fares(S) = {f[o] : o \in S}
      BY <3>1 DEF Fares
    <3> HIDE DEF f
    <3> QED  BY <3>1, <3>2, FieldsFinite
  <2>2. Max(Fares(S)) \in Int /\ Min(Fares(S)) \in Int /\ Min(Fares(S)) <= Max(Fares(S))
    BY <2>1, ExtremesExist
  <2> QED  BY <2>2 DEF Span, OrOne
<1>2. lowD \in Int /\ d \in Nat \ {0}
  <2>1. /\ Durations(S) \in SUBSET Int /\ IsFiniteSet(Durations(S)) /\ Durations(S) # {}
    <3> DEFINE f == [o \in S |-> o.duration]
    <3>1. DOMAIN f = S /\ \A o \in S : f[o] = o.duration /\ f[o] \in Int
      OBVIOUS
    <3>2. Durations(S) = {f[o] : o \in S}
      BY <3>1 DEF Durations
    <3> HIDE DEF f
    <3> QED  BY <3>1, <3>2, FieldsFinite
  <2>2. /\ Max(Durations(S)) \in Int /\ Min(Durations(S)) \in Int
        /\ Min(Durations(S)) <= Max(Durations(S))
    BY <2>1, ExtremesExist
  <2> QED  BY <2>2 DEF Span, OrOne
<1>3. s \in Nat \ {0}
  <2>1. /\ Stops(S) \in SUBSET Int /\ IsFiniteSet(Stops(S)) /\ Stops(S) # {}
    <3> DEFINE f == [o \in S |-> o.stops]
    <3>1. DOMAIN f = S /\ \A o \in S : f[o] = o.stops /\ f[o] \in Int
      OBVIOUS
    <3>2. Stops(S) = {f[o] : o \in S}
      BY <3>1 DEF Stops
    <3> HIDE DEF f
    <3> QED  BY <3>1, <3>2, FieldsFinite
  <2>2. Max(Stops(S)) \in Stops(S)
    BY <2>1, ExtremesExist
  <2>3. Max(Stops(S)) \in Nat
    BY <2>2 DEF Stops
  <2> QED  BY <2>3 DEF OrOne
<1> DEFINE penalty(o) == 500 * (o.price - lowF) * d * s
                           + 300 * (o.duration - lowD) * p * s
                           + 200 * o.stops * p * d
<1>4. \A o : FlightScore(o, S) = Rounded(1000 * p * d * s - penalty(o), p * d * s)
  BY DEF FlightScore
<1> HIDE DEF lowF, lowD, p, d, s
<1>5. /\ d * s \in Nat /\ p * s \in Nat /\ p * d \in Nat \ {0} /\ p * d * s \in Nat \ {0}
      /\ 1000 * p * d * s \in Int
  BY <1>1, <1>2, <1>3
<1>6. ASSUME NEW o \in S
      PROVE  penalty(o) = (500 * (o.price - lowF)) * (d * s)
                            + (300 * (o.duration - lowD)) * (p * s)
                            + (200 * o.stops) * (p * d)
  BY <1>1, <1>2, <1>3
<1>7. /\ 500 * (a.price - lowF) <= 500 * (b.price - lowF)
      /\ 300 * (a.duration - lowD) <= 300 * (b.duration - lowD)
      /\ 200 * a.stops <= 200 * b.stops
  BY <1>1, <1>2 DEF FlightNoWorse
<1>8. /\ 500 * (a.price - lowF) \in Int /\ 500 * (b.price - lowF) \in Int
      /\ 300 * (a.duration - lowD) \in Int /\ 300 * (b.duration - lowD) \in Int
      /\ 200 * a.stops \in Int /\ 200 * b.stops \in Int
  BY <1>1, <1>2
<1> DEFINE f1 == (500 * (a.price - lowF)) * (d * s)
           f2 == (500 * (b.price - lowF)) * (d * s)
           d1 == (300 * (a.duration - lowD)) * (p * s)
           d2 == (300 * (b.duration - lowD)) * (p * s)
           s1 == (200 * a.stops) * (p * d)
           s2 == (200 * b.stops) * (p * d)
<1>9. f1 <= f2 /\ f1 \in Int /\ f2 \in Int
  BY <1>5, <1>7, <1>8, ProductMonotone
<1>10. d1 <= d2 /\ d1 \in Int /\ d2 \in Int
  BY <1>5, <1>7, <1>8, ProductMonotone
<1>11. s1 <= s2 /\ s1 \in Int /\ s2 \in Int
  BY <1>5, <1>7, <1>8, ProductMonotone
<1>12. penalty(a) = f1 + d1 + s1 /\ penalty(b) = f2 + d2 + s2
  BY <1>6
<1> HIDE DEF penalty, f1, f2, d1, d2, s1, s2
<1>13. penalty(a) \in Int /\ penalty(b) \in Int /\ penalty(a) <= penalty(b)
  BY <1>9, <1>10, <1>11, <1>12
<1> DEFINE den == p * d * s
           full == 1000 * p * d * s
<1>14. \A o : FlightScore(o, S) = Rounded(full - penalty(o), den)
  BY <1>4
<1>15. full \in Int /\ den \in Nat \ {0}
  BY <1>5
<1> HIDE DEF den, full
<1>16. /\ full - penalty(b) <= full - penalty(a)
       /\ full - penalty(b) \in Int /\ full - penalty(a) \in Int
  BY <1>13, <1>15
<1>17. Rounded(full - penalty(b), den) <= Rounded(full - penalty(a), den)
  BY <1>15, <1>16, RoundedMonotone
<1>18. Rounded(full - penalty(b), den) \in Int /\ Rounded(full - penalty(a), den) \in Int
  BY <1>15, <1>16 DEF Rounded
<1> QED  BY <1>14, <1>17, <1>18

(* HotelAggregationService._rank: among hotels ranked together, one that   *)
(* is no dearer and no worse rated than another scores no less.            *)
LEMMA HotelScoreMonotone ==
    ASSUME NEW S, IsFiniteSet(S), NEW a \in S, NEW b \in S, HotelNoWorse(a, b),
           \A o \in S : o.price \in Int /\ o.rating \in Int
    PROVE  HotelScore(a, S) >= HotelScore(b, S)
<1> DEFINE high == Max(Prices(S))
           span == high - Min(Prices(S))
           Part(o) == IF span = 0 THEN 400 ELSE Rounded(400 * (high - o.price), span)
<1>1. high \in Int /\ span \in Nat
  <2>1. /\ Prices(S) \in SUBSET Int /\ IsFiniteSet(Prices(S)) /\ Prices(S) # {}
    <3> DEFINE f == [o \in S |-> o.price]
    <3>1. DOMAIN f = S /\ \A o \in S : f[o] = o.price /\ f[o] \in Int
      OBVIOUS
    <3>2. Prices(S) = {f[o] : o \in S}
      BY <3>1 DEF Prices
    <3> HIDE DEF f
    <3> QED  BY <3>1, <3>2, FieldsFinite
  <2>2. high \in Int /\ Min(Prices(S)) \in Int /\ Min(Prices(S)) <= high
    BY <2>1, ExtremesExist
  <2> QED  BY <2>2
<1>2. \A o : HotelScore(o, S) = 12 * o.rating + Part(o)
  BY DEF HotelScore
<1> HIDE DEF high, span
<1>3. Part(a) \in Int /\ Part(b) \in Int /\ Part(b) <= Part(a)
  <2>1. CASE span = 0
    BY <2>1
  <2>2. CASE span # 0
    <3> DEFINE m == 400 * (high - a.price)
               n == 400 * (high - b.price)
    <3>1. m \in Int /\ n \in Int /\ n <= m /\ span \in Nat \ {0}
      BY <1>1, <2>2 DEF HotelNoWorse
    <3>2. Part(a) = Rounded(m, span) /\ Part(b) = Rounded(n, span)
      BY <2>2
    <3> HIDE DEF m, n
    <3>3. Rounded(n, span) <= Rounded(m, span)
      BY <3>1, RoundedMonotone
    <3>4. Rounded(n, span) \in Int /\ Rounded(m, span) \in Int
      BY <3>1 DEF Rounded
    <3> QED  BY <3>2, <3>3, <3>4
  <2> QED  BY <2>1, <2>2
<1>4. 12 * a.rating \in Int /\ 12 * b.rating \in Int /\ 12 * b.rating <= 12 * a.rating
  BY DEF HotelNoWorse
<1> HIDE DEF Part
<1>5. 12 * b.rating + Part(b) <= 12 * a.rating + Part(a)
  BY <1>3, <1>4
<1>6. 12 * b.rating + Part(b) \in Int /\ 12 * a.rating + Part(a) \in Int
  BY <1>3, <1>4
<1> QED  BY <1>2, <1>5, <1>6

-----------------------------------------------------------------------------
(* The variables of a search keep their types; a page never has more than  *)
(* limit items.                                                            *)
THEOREM SearchTypeCorrect == Spec => []TypeOK
<1>1. IInv => TypeOK
  BY DEF IInv
<1> QED  BY <1>1, SearchInvariant, PTL

(* Unless a page was flagged degraded, the pages a client received are a   *)
(* stretch of one list, and the last page is its end; for any number of    *)
(* providers, any page size and any cursor to start from.                  *)
THEOREM PagesTile == Spec => []UnwarnedPagesTile
<1>1. IInv => UnwarnedPagesTile
  <2> DEFINE W == Whole
             L == Len(W)
             rest == IF first < L THEN SubSeq(W, first + 1, L) ELSE << >>
  <2> SUFFICES ASSUME IInv, ~warned
               PROVE  IsPrefix(seen, rest) /\ (at = "end" => seen = rest)
    BY DEF UnwarnedPagesTile, Whole
  <2>1. TypeOK /\ TilesSoFar
    BY DEF IInv
  <2>2. PICK x \in Searches : catalog = x.catalog /\ query = x.query
    BY <2>1 DEF TypeOK
  <2>3. W \in Seq(Items) /\ L \in Nat /\ first \in Nat /\ Offset \in Nat
    <3>1. W \in Seq(Items)
      BY <2>2, OrderedIsListing DEF Whole
    <3>2. Offset \in Nat /\ first \in Nat
      BY <2>1, CursorsDecode DEF Offset, TypeOK
    <3> QED  BY <3>1, <3>2
  <2>4. rest \in Seq(Items)
    BY <2>3
  <2>5. CASE at = "end"
    <3>1. seen = rest
      BY <2>1, <2>5 DEF TilesSoFar, ReceivedIsRest
    <3> HIDE DEF rest
    <3>2. IsPrefix(rest, rest)
      BY <2>4 DEF IsPrefix
    <3> QED  BY <3>1, <3>2
  <2>6. CASE at # "end"
    <3>1. ReceivedEndsAtCursor
      BY <2>1, <2>6 DEF TilesSoFar
    <3>2. CASE Offset = first
      <4>1. seen = << >>
        BY <3>1, <3>2 DEF ReceivedEndsAtCursor
      <4>2. SubSeq(rest, 1, 0) = << >> /\ SubSeq(<< >>, 1, 0) = << >> /\ Len(<< >>) = 0
        BY SubSeqEmpty
      <4>3. Len(rest) \in Nat
        BY <2>4
      <4> HIDE DEF rest
      <4>4. IsPrefix(seen, rest)
        BY <4>1, <4>2, <4>3 DEF IsPrefix
      <4> QED  BY <2>6, <4>4
    <3>3. CASE Offset # first
      <4>1. first < Offset /\ Offset < L /\ seen = SubSeq(W, first + 1, Offset)
        BY <3>1, <3>3 DEF ReceivedEndsAtCursor
      <4>2. rest = SubSeq(W, first + 1, L)
        BY <2>3, <4>1
      <4> HIDE DEF rest
      <4>3. /\ Len(seen) = Offset - first /\ Len(rest) = L - first
            /\ \A i \in 1 .. Offset - first : seen[i] = W[first + i]
            /\ \A i \in 1 .. L - first : rest[i] = W[first + i]
        BY <2>3, <4>1, <4>2
      <4>4. seen \in Seq(Items)
        BY <2>1 DEF TypeOK
      <4>5. SubSeq(seen, 1, Len(seen)) = seen
        BY <4>4, SubSeqFull
      <4> DEFINE t == SubSeq(rest, 1, Len(seen))
      <4>6. /\ t \in Seq(Items) /\ Len(t) = Len(seen)
            /\ \A i \in 1 .. Len(seen) : t[i] = rest[i]
        BY <2>3, <2>4, <4>1, <4>3
      <4> HIDE DEF t
      <4>7. ASSUME NEW i \in 1 .. Len(seen) PROVE seen[i] = t[i]
        <5>1. i \in 1 .. Offset - first /\ i \in 1 .. L - first
          BY <2>3, <4>1, <4>3
        <5>2. seen[i] = W[first + i] /\ rest[i] = W[first + i]
          BY <4>3, <5>1
        <5> QED  BY <4>6, <5>2
      <4>8. seen = t
        BY <4>4, <4>6, <4>7, SeqEqual
      <4>9. Len(seen) <= Len(rest)
        BY <2>3, <4>1, <4>3
      <4>10. IsPrefix(seen, rest)
        BY <4>5, <4>8, <4>9 DEF IsPrefix, t
      <4> QED  BY <2>6, <4>10
    <3> QED  BY <3>2, <3>3
  <2> QED  BY <2>5, <2>6
<1> QED  BY <1>1, SearchInvariant, PTL

(* A page lists no product twice, and every offer on it is the cheapest of *)
(* its product among the providers that answered for that page.            *)
THEOREM ListsCheapestOnce == Spec => []CheapestListedOnce
<1>1. IInv => CheapestListedOnce
  <2> SUFFICES ASSUME IInv, at \in {"page", "end"},
                      NEW i \in DOMAIN page.items
               PROVE  /\ \A j \in DOMAIN page.items :
                           Product(page.items[j].offer) = Product(page.items[i].offer) => i = j
                      /\ \A n \in Answered : \A other \in ToSet(catalog[n]) :
                           Product(other) = Product(page.items[i].offer)
                             => Price(page.items[i].offer) <= Price(other)
    BY DEF CheapestListedOnce
  <2>1. Listing(page.items, catalog, query.sort, Answered)
    BY DEF IInv, PageIsListing
  <2> QED  BY <2>1 DEF Listing, ListedOnce, ListedCheapest
<1> QED  BY <1>1, SearchInvariant, PTL

(* Sorted by "best", an offer that is in nothing worse than another comes  *)
(* first or ties with it, on every page of flights or of hotels, whatever  *)
(* the filters and the failures left to be ranked together.                *)
THEOREM DominanceKept ==
    ASSUME \A x \in Searches : RanksFlights(x.catalog) \/ RanksHotels(x.catalog)
    PROVE  Spec => []BestOrderRespectsDominance
<1>1. IInv => BestOrderRespectsDominance
  <2> DEFINE r == page.items
  <2> SUFFICES ASSUME IInv, page # NoPage, query.sort = "best",
                      NEW i \in DOMAIN r, NEW j \in DOMAIN r, i < j,
                      NoWorse(r[j].offer, r[i].offer)
               PROVE  r[i].score = r[j].score
    BY DEF BestOrderRespectsDominance
  <2>1. PICK x \in Searches : catalog = x.catalog /\ query = x.query
    BY DEF IInv, TypeOK
  <2>2. r \in Seq(Items)
    BY DEF IInv, TypeOK
  <2>3. PICK answered \in SUBSET Numbers : Listing(r, catalog, "best", answered)
    BY DEF IInv, PageIsListing
  <2> HIDE DEF r
  <2>4. PICK S \in SUBSET Offered(catalog) :
          \A k \in DOMAIN r : r[k].offer \in S /\ r[k].score = Score(r[k].offer, S)
    BY <2>3 DEF Listing, RankedTogether
  <2>5. catalog \in [Numbers -> Seq(Offers)] /\ Rankable("best", S)
    BY <2>1, <2>4, AggregationAssumption
  <2>6. IsFiniteSet(S)
    BY <2>4, <2>5, OfferedFinite, FS_Subset
  <2>7. ASSUME NEW k \in DOMAIN r
        PROVE  SortValue("best", r[k]) = -Score(r[k].offer, S) /\ Score(r[k].offer, S) \in Int
    <3>1. r[k] \in Items
      BY <2>2
    <3>2. r[k] = [offer |-> r[k].offer, score |-> r[k].score]
      BY <3>1 DEF Items
    <3>3. r[k] = Ranked(r[k].offer, S)
      BY <2>4, <3>2 DEF Ranked
    <3>4. /\ Score(r[k].offer, S) \in 0 .. 1000
          /\ SortValue("best", Ranked(r[k].offer, S)) = -Score(r[k].offer, S)
      BY <2>4, <2>5 DEF Rankable
    <3> QED  BY <3>3, <3>4
  <2> DEFINE a == r[j].offer
             b == r[i].offer
  <2>8. Score(b, S) >= Score(a, S)
    <3>1. SortValue("best", r[i]) <= SortValue("best", r[j])
      BY <2>3 DEF Listing, InOrder
    <3>2. -Score(b, S) <= -Score(a, S) /\ Score(a, S) \in Int /\ Score(b, S) \in Int
      BY <2>7, <3>1
    <3> QED  BY <3>2
  <2>9. Score(a, S) >= Score(b, S)
    <3>1. a \in S /\ b \in S /\ NoWorse(a, b)
      BY <2>4
    <3> HIDE DEF a, b
    <3>2. CASE RanksFlights(catalog)
      <4>1. /\ \A o \in S : o.price \in Int /\ o.duration \in Int /\ o.stops \in Nat
            /\ \A o \in S : Score(o, S) = FlightScore(o, S)
            /\ FlightNoWorse(a, b)
        BY <2>4, <3>1, <3>2 DEF RanksFlights
      <4>2. FlightScore(a, S) >= FlightScore(b, S)
        BY <2>6, <3>1, <4>1, FlightScoreMonotone
      <4> QED  BY <3>1, <4>1, <4>2
    <3>3. CASE RanksHotels(catalog)
      <4>1. /\ \A o \in S : o.price \in Int /\ o.rating \in Int
            /\ \A o \in S : Score(o, S) = HotelScore(o, S)
            /\ HotelNoWorse(a, b)
        BY <2>4, <3>1, <3>3 DEF RanksHotels
      <4>2. HotelScore(a, S) >= HotelScore(b, S)
        BY <2>6, <3>1, <4>1, HotelScoreMonotone
      <4> QED  BY <3>1, <4>1, <4>2
    <3> QED  BY <2>1, <3>2, <3>3
  <2>10. Score(a, S) = Score(b, S)
    BY <2>7, <2>8, <2>9
  <2> QED  BY <2>4, <2>10
<1> QED  BY <1>1, SearchInvariant, PTL

=============================================================================
