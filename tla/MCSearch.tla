------------------------------- MODULE MCSearch -------------------------------
(* Model-checking instance of Aggregation with the operators of flights and *)
(* of hotels: a search is one of either kind.  Two providers have up to two *)
(* offers each of three products, so that both offer the same product, in   *)
(* either order and at either price; pages have one or two offers; cursors  *)
(* are absent, malformed, negative and past the end.                        *)
EXTENDS FlightSearch, HotelSearch

CONSTANTS p1, p2

MCProviders == <<p1, p2>>

Flight(k, price) ==
    [flight |-> k, airline |-> <<"x", "x", "y">>[k], price |-> price,
     duration |-> <<90, 60, 90>>[k], stops |-> <<0, 1, 2>>[k], departure |-> 4 - k]

Hotel(k, price) ==
    [hotel |-> k, price |-> price, rating |-> <<45, 30, 40>>[k], reviews |-> <<10, 50, 10>>[k],
     amenities |-> <<{"wifi"}, {}, {"wifi", "pool"}>>[k]]

MCFlights == {Flight(1, 1), Flight(1, 2), Flight(2, 1), Flight(2, 2), Flight(3, 2)}
MCHotels == {Hotel(1, 1), Hotel(1, 2), Hotel(2, 1), Hotel(2, 4), Hotel(3, 2)}
MCOffers == MCFlights \cup MCHotels

(* The operators, by kind of offer. *)
IsFlight(o) == o \in MCFlights
MCProduct(o) == IF IsFlight(o) THEN FlightProduct(o) ELSE HotelProduct(o)
MCPrice(o) == IF IsFlight(o) THEN FlightPrice(o) ELSE HotelPrice(o)
MCMatches(f, o) == IF IsFlight(o) THEN FlightMatches(f, o) ELSE HotelMatches(f, o)
MCScore(o, offers) == IF IsFlight(o) THEN FlightScore(o, offers) ELSE HotelScore(o, offers)
MCSortValue(sort, item) ==
    IF IsFlight(item.offer) THEN FlightSortValue(sort, item) ELSE HotelSortValue(sort, item)
MCNoWorse(a, b) == IF IsFlight(a) THEN FlightNoWorse(a, b) ELSE HotelNoWorse(a, b)

(* The first provider offers up to two products, the second two, which may *)
(* be the same one twice.                                                  *)
CatalogsOf(offers) ==
    LET pairs == {<<a, b>> : a \in offers, b \in offers}
        lists == {<< >>} \cup {<<a>> : a \in offers} \cup {l \in pairs : MCProduct(l[1]) # MCProduct(l[2])}
    IN  {<<a, b>> : a \in lists, b \in pairs}

Query(filters, sort, limit) ==
    [filters |-> filters, sort |-> sort, limit |-> limit, sensible |-> TRUE]

AnyFlight == [directOnly |-> FALSE, maxStops |-> Unset, maxPrice |-> Unset, airlines |-> {}]
AnyHotel == [minRating |-> Unset, maxPrice |-> Unset, amenities |-> {}]

FlightQueries ==
    {Query(AnyFlight, s, 2) : s \in {"best", "price", "duration", "departure"}}
      \cup {Query(AnyFlight, s, 1) : s \in {"best", "stops"}}
      \cup {Query([AnyFlight EXCEPT !.directOnly = TRUE], "best", 1),
            Query([AnyFlight EXCEPT !.maxPrice = 1, !.maxStops = 1], "price", 1),
            Query([AnyFlight EXCEPT !.airlines = {"x"}], "price", 1),
            [Query(AnyFlight, "best", 1) EXCEPT !.sensible = FALSE]}

HotelQueries ==
    {Query(AnyHotel, s, 2) : s \in {"best", "price", "rating", "reviews"}}
      \cup {Query([AnyHotel EXCEPT !.minRating = 40], "best", 1),
            Query([AnyHotel EXCEPT !.maxPrice = 2], "price", 1),
            Query([AnyHotel EXCEPT !.amenities = {"wifi"}], "best", 2)}

MCSearches ==
    [catalog : CatalogsOf(MCFlights), query : FlightQueries]
      \cup [catalog : CatalogsOf(MCHotels), query : HotelQueries]

(* The hypothesis under which the order of dominance is proved. *)
ASSUME MCSearchesRanked ==
    /\ \A c \in CatalogsOf(MCFlights) : RanksFlights(c)
    /\ \A c \in CatalogsOf(MCHotels) : RanksHotels(c)

MCFirstCursors == {NoCursor, Garbled, EncodeCursor(-1), EncodeCursor(2)}

=============================================================================
