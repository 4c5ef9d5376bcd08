----------------------------- MODULE FlightSearch -----------------------------
(***************************************************************************)
(* FlightAggregationService (app/services/aggregation.py): the flight      *)
(* operators of Aggregation.  An offer is [flight, airline, price,         *)
(* duration, stops, departure]; `flight` stands for the key (airline in    *)
(* lower case, origin, destination, departure_time).                       *)
(***************************************************************************)
EXTENDS Aggregation, FiniteSetsExt

Fares(offers) == {o.price : o \in offers}
Durations(offers) == {o.duration : o \in offers}
Stops(offers) == {o.stops : o \in offers}
Span(S) == Max(S) - Min(S)
OrOne(span) == IF span = 0 THEN 1 ELSE span

FlightProduct(o) == o.flight
FlightPrice(o) == o.price

(* FlightFilters.matches *)
FlightMatches(f, o) ==
    /\ f.directOnly => o.stops = 0
    /\ f.maxStops # Unset => o.stops <= f.maxStops
    /\ f.maxPrice # Unset => o.price <= f.maxPrice
    /\ f.airlines # {} => o.airline \in f.airlines

(* _rank: 1 - (0.5 price + 0.3 duration + 0.2 stops), each in relation to  *)
(* the spread among the offers; the fractions are brought to one           *)
(* denominator.                                                            *)
FlightScore(o, offers) ==
    LET p == OrOne(Span(Fares(offers)))
        d == OrOne(Span(Durations(offers)))
        s == OrOne(Max(Stops(offers)))
        penalty == 500 * (o.price - Min(Fares(offers))) * d * s
                     + 300 * (o.duration - Min(Durations(offers))) * p * s
                     + 200 * o.stops * p * d
    IN  Rounded(1000 * p * d * s - penalty, p * d * s)

(* The keys of _sort. *)
FlightSortValue(sort, item) ==
    CASE sort = "best" -> -item.score
      [] sort = "price" -> item.offer.price
      [] sort = "duration" -> item.offer.duration
      [] sort = "departure" -> item.offer.departure
      [] sort = "stops" -> item.offer.stops

(* No worse in price, duration and stops. *)
FlightNoWorse(a, b) ==
    a.price <= b.price /\ a.duration <= b.duration /\ a.stops <= b.stops

(* What is offered are flights, ranked as flights. *)
RanksFlights(offered) ==
    \A S \in SUBSET Offered(offered) : \A a, b \in S :
        /\ a.price \in Int /\ a.duration \in Int /\ a.stops \in Nat
        /\ Score(a, S) = FlightScore(a, S)
        /\ NoWorse(a, b) => FlightNoWorse(a, b)

=============================================================================
