------------------------------ MODULE Aggregation ------------------------------
(***************************************************************************)
(* The contract that FlightAggregationService and HotelAggregationService  *)
(* share: fan out to every provider, merge what comes back, keep the       *)
(* cheapest offer of each product, filter, rank, sort and cut a page.      *)
(* What differs between flights and hotels is the operators below.         *)
(*                                                                         *)
(* The client follows next_cursor from page to page.  Nothing is kept      *)
(* between two pages: each one asks the providers again, and each time     *)
(* other providers may fail.                                               *)
(***************************************************************************)
EXTENDS Integers, FiniteSets, SequencesExt

CONSTANTS
    Providers,          \* the configured providers, as a sequence
    Offers,             \* normalised offers
    Searches,           \* [catalog, query]: what the providers may offer, a sequence of
                        \* offers for each, and the endpoint's parameters, a record of
                        \* filters, sort, limit and whether the request makes sense
    FirstCursors,       \* the cursors a client may start from
    NoCursor, Garbled,  \* an absent cursor and one that does not decode
    Unset,              \* a filter that is None
    NoPage,
    MaxSeen,            \* bound: where the history of items stops
    Product(_),         \* the de-duplication key of an offer
    Price(_),           \* its price in minor units
    Matches(_, _),      \* filters.matches
    Score(_, _),        \* _rank, of one of a set of offers, in thousandths
    SortValue(_, _),    \* the key of _sort
    NoWorse(_, _)       \* in nothing that _rank looks at is the first offer worse

Numbers == 1 .. Len(Providers)
Cursors == [offset : Int]
Offered(offered) == UNION {ToSet(offered[n]) : n \in Numbers}
Ranked(o, S) == [offer |-> o, score |-> Score(o, S)]

(* What is asked of the operators, for offers that are ranked together. *)
Rankable(sort, S) ==
    \A o \in S :
        /\ Price(o) \in Int
        /\ Score(o, S) \in 0 .. 1000
        /\ SortValue(sort, Ranked(o, S)) \in Int
        /\ sort = "best" => SortValue(sort, Ranked(o, S)) = -Score(o, S)

ASSUME AggregationAssumption ==
    /\ Len(Providers) \in Nat \ {0}
    /\ MaxSeen \in Nat
    /\ FirstCursors \subseteq {NoCursor, Garbled} \cup Cursors
    /\ NoCursor \notin Cursors /\ Garbled \notin Cursors
    /\ \A s \in Searches :
         /\ s.catalog \in [Numbers -> Seq(Offers)]
         /\ s.query.limit \in Nat \ {0}
         /\ Cardinality({Product(o) : o \in Offered(s.catalog)}) <= MaxSeen
         /\ \A S \in SUBSET Offered(s.catalog) : Rankable(s.query.sort, S)

VARIABLES
    catalog,   \* what each provider has on offer
    query,     \* the search, the same on every page
    cursor,    \* the cursor sent with the request
    status,    \* status[n]: how provider n stands in this request
    at,        \* "start", "gather", "page" (there is another), "end", "refused"
    page       \* the latest response

(* History, read by the properties only. *)
VARIABLES
    first,     \* the offset the client started from
    seen,      \* all items received, page after page
    warned     \* some page was flagged degraded

vars == <<catalog, query, cursor, status, at, page, first, seen, warned>>

Items == [offer : Offers, score : 0 .. 1000]

(* encode_cursor *)
EncodeCursor(offset) == [offset |-> offset]

(* decode_cursor: absent and malformed cursors start over, negative ones too. *)
DecodeCursor(c) ==
    IF c \in {NoCursor, Garbled} THEN 0
    ELSE IF c.offset < 0 THEN 0 ELSE c.offset

(* The type of every variable. *)
TypeOK ==
    /\ \E s \in Searches : catalog = s.catalog /\ query = s.query
    /\ cursor \in FirstCursors \cup [offset : Nat]
    /\ status \in [Numbers -> {"asked", "ok", "failed"}]
    /\ at \in {"start", "gather", "page", "end", "refused"}
    /\ \/ page = NoPage
       \/ /\ page.items \in Seq(Items)
          /\ Len(page.items) <= query.limit
          /\ page.ok \in 0 .. Len(Providers)
          /\ page.failed \in 0 .. Len(Providers)
          /\ page.degraded \in BOOLEAN
          /\ page.total \in Nat
          /\ page.hasMore \in BOOLEAN
    /\ first \in Nat
    /\ seen \in Seq(Items)
    /\ warned \in BOOLEAN

Init ==
    /\ \E s \in Searches : catalog = s.catalog /\ query = s.query
    /\ cursor \in FirstCursors
    /\ status = [n \in Numbers |-> "asked"]
    /\ at = "start"
    /\ page = NoPage
    /\ first = DecodeCursor(cursor)
    /\ seen = << >>
    /\ warned = FALSE

-----------------------------------------------------------------------------
(* What is made of the answers. *)

(* _fan_out: the answers in the order of the providers, whatever the order *)
(* they came in, without those that failed.                                *)
Merge(offered, answered) ==
    LET merged[n \in 0 .. Len(Providers)] ==
          IF n = 0 THEN << >>
          ELSE IF n \in answered THEN merged[n - 1] \o offered[n] ELSE merged[n - 1]
    IN  merged[Len(Providers)]

(* Fault: the latest offer wins. *)
WinsByArrival(o, existing) == TRUE

(* flight.price.amount_minor < existing.price.amount_minor *)
Wins(o, existing) == Price(o) < Price(existing)

(* One turn of _dedupe: a dictionary keeps the place of its first key. *)
Keep(best, o) ==
    LET existing == {n \in DOMAIN best : Product(best[n]) = Product(o)}
    IN  IF existing = {}
          THEN Append(best, o)
          ELSE LET n == CHOOSE n \in existing : TRUE
               IN  IF Wins(o, best[n]) THEN [best EXCEPT ![n] = o] ELSE best

(* _dedupe *)
Dedupe(offers) ==
    LET best[n \in 0 .. Len(offers)] ==
          IF n = 0 THEN << >> ELSE Keep(best[n - 1], offers[n])
    IN  best[Len(offers)]

(* [f for f in deduped if filters.matches(f)] *)
Filter(filters, offers) ==
    LET kept[n \in 0 .. Len(offers)] ==
          IF n = 0 THEN << >>
          ELSE IF Matches(filters, offers[n]) THEN Append(kept[n - 1], offers[n])
          ELSE kept[n - 1]
    IN  kept[Len(offers)]

(* round(num / den, 3) in thousandths, given num in thousandths.  Exact    *)
(* halves, which floats round either way, do not occur for the spans used. *)
Rounded(num, den) == (2 * num + den) \div (2 * den)

(* _rank *)
Rank(offers) == [n \in DOMAIN offers |-> Ranked(offers[n], ToSet(offers))]

(* sorted() is stable: equal keys keep their order. *)
Before(sort, s, i, j) ==
    \/ SortValue(sort, s[i]) < SortValue(sort, s[j])
    \/ SortValue(sort, s[i]) = SortValue(sort, s[j]) /\ i < j

(* The place of the i-th element among all. *)
Place(sort, s, i) == Cardinality({j \in DOMAIN s : Before(sort, s, j, i)}) + 1

(* _sort *)
Sort(sort, s) ==
    [n \in DOMAIN s |-> s[CHOOSE i \in DOMAIN s : Place(sort, s, i) = n]]

(* The whole result, before a page is cut from it. *)
Ordered(offered, q, answered) ==
    Sort(q.sort, Rank(Filter(q.filters, Dedupe(Merge(offered, answered)))))

(* Fault: one failed provider is not worth a flag. *)
DegradedByTwo(failed) == failed > 1

(* failed > 0 *)
Degraded(failed) == failed > 0

(* Python's ordered[offset : offset + limit] *)
Slice(s, offset) ==
    SubSeq(s, offset + 1, IF offset + query.limit < Len(s) THEN offset + query.limit ELSE Len(s))

(* The response of search. *)
PageOf(answered, offset) ==
    LET ordered == Ordered(catalog, query, answered)
        ok == Cardinality(answered)
    IN  [items |-> Slice(ordered, offset),
         ok |-> ok,
         failed |-> Len(Providers) - ok,
         degraded |-> Degraded(Len(Providers) - ok),
         total |-> Len(ordered),
         hasMore |-> offset + query.limit < Len(ordered)]

-----------------------------------------------------------------------------
(* Actions. *)

(* A request, the first one or one that follows next_cursor: all providers *)
(* are asked at once.                                                      *)
Search ==
    /\ at \in {"start", "page"}
    /\ query.sensible
    /\ at' = "gather"
    /\ status' = [n \in Numbers |-> "asked"]
    /\ UNCHANGED <<catalog, query, cursor, page, first, seen, warned>>

(* The endpoint refuses a journey to where it starts, or a stay that ends  *)
(* before it begins (AppError).                                            *)
Refuse ==
    /\ at = "start"
    /\ ~query.sensible
    /\ at' = "refused"
    /\ UNCHANGED <<catalog, query, cursor, status, page, first, seen, warned>>

(* A provider's search returns or raises. *)
Settle(n, s) ==
    /\ at = "gather"
    /\ status[n] = "asked"
    /\ status' = [status EXCEPT ![n] = s]
    /\ UNCHANGED <<catalog, query, cursor, at, page, first, seen, warned>>

Gathered == at = "gather" /\ \A n \in Numbers : status[n] # "asked"
Answered == {n \in Numbers : status[n] = "ok"}

(* Fault: the cursor names the page it came with. *)
NextOffsetStays(offset) == offset

(* offset + limit *)
NextOffset(offset) == offset + query.limit

(* gather has all results: the page is built and sent. *)
Respond ==
    LET offset == DecodeCursor(cursor)
        p == PageOf(Answered, offset)
    IN
    /\ Gathered
    /\ page' = p
    /\ cursor' = IF p.hasMore THEN EncodeCursor(NextOffset(offset)) ELSE cursor
    /\ at' = IF p.hasMore THEN "page" ELSE "end"
    /\ seen' = IF Len(seen) < MaxSeen THEN seen \o p.items ELSE seen
    /\ warned' = (warned \/ p.degraded)
    /\ UNCHANGED <<catalog, query, status, first>>

Next ==
    \/ Search
    \/ Refuse
    \/ \E n \in Numbers : \E s \in {"ok", "failed"} : Settle(n, s)
    \/ Respond

Spec == Init /\ [][Next]_vars

(* A provider's search ends one way or the other, the client follows the   *)
(* cursor it is given, and the event loop resumes a gather that has all    *)
(* its results: the last conjunct is WF_vars(Respond) with its ENABLED     *)
(* written out.                                                            *)
FairSpec ==
    /\ Spec
    /\ WF_vars(Search)
    /\ WF_vars(Refuse)
    /\ \A n \in Numbers : WF_vars(\E s \in {"ok", "failed"} : Settle(n, s))
    /\ []<>~Gathered

-----------------------------------------------------------------------------
(* Properties. *)

(* As long as no page was flagged degraded, the pages put together are a   *)
(* stretch of one list, the result of all providers, without gap, repeat   *)
(* or change of order, and the last page is its end; although every page   *)
(* is computed from scratch out of answers that arrive in any order        *)
(* (search, _fan_out, _sort, decode_cursor).                               *)
UnwarnedPagesTile ==
    LET whole == Ordered(catalog, query, Numbers)
        rest == IF first < Len(whole) THEN SubSeq(whole, first + 1, Len(whole)) ELSE << >>
    IN  ~warned => /\ IsPrefix(seen, rest)
                   /\ at = "end" => seen = rest

(* A page lists no product twice, and every offer on it is the cheapest of *)
(* its product among the providers that answered for that page (_dedupe).  *)
CheapestListedOnce ==
    at \in {"page", "end"} =>
        \A i \in DOMAIN page.items :
            LET o == page.items[i].offer IN
            /\ \A j \in DOMAIN page.items : Product(page.items[j].offer) = Product(o) => i = j
            /\ \A n \in Answered : \A other \in ToSet(catalog[n]) :
                  Product(other) = Product(o) => Price(o) <= Price(other)

(* Sorted by "best", an offer that is in nothing worse than another comes  *)
(* first, unless the two tie after rounding; although scores are relative  *)
(* to whatever the filters and the failures left (_rank, _sort).           *)
BestOrderRespectsDominance ==
    (page # NoPage /\ query.sort = "best") =>
        \A i, j \in DOMAIN page.items :
            (i < j /\ NoWorse(page.items[j].offer, page.items[i].offer))
              => page.items[i].score = page.items[j].score

(* Following next_cursor ends, whichever providers fail on the way         *)
(* (search: next_cursor, has_more).                                        *)
TraversalEnds == <>(at \in {"end", "refused"})

=============================================================================
