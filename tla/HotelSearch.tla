------------------------------ MODULE HotelSearch ------------------------------
(***************************************************************************)
(* HotelAggregationService (app/services/hotel_aggregation.py): the hotel  *)
(* operators of Aggregation.  An offer is [hotel, price, rating, reviews,  *)
(* amenities]; `hotel` stands for the key (name and city in lower case),   *)
(* ratings are in tenths.                                                  *)
(***************************************************************************)
EXTENDS Aggregation, FiniteSetsExt

Prices(offers) == {o.price : o \in offers}

HotelProduct(o) == o.hotel
HotelPrice(o) == o.price

(* HotelFilters.matches *)
HotelMatches(f, o) ==
    /\ f.minRating # Unset => o.rating >= f.minRating
    /\ f.maxPrice # Unset => o.price <= f.maxPrice
    /\ f.amenities \subseteq o.amenities

(* Fault: the price is rewarded. *)
HotelScoreDear(o, offers) ==
    LET span == Max(Prices(offers)) - Min(Prices(offers))
    IN  12 * o.rating
          + (IF span = 0 THEN 400 ELSE Rounded(400 * (o.price - Min(Prices(offers))), span))

(* _rank: 0.6 rating / 5 + 0.4 (1 - price in relation to the spread).      *)
HotelScore(o, offers) ==
    LET span == Max(Prices(offers)) - Min(Prices(offers))
    IN  12 * o.rating
          + (IF span = 0 THEN 400 ELSE Rounded(400 * (Max(Prices(offers)) - o.price), span))

(* The keys of _sort. *)
HotelSortValue(sort, item) ==
    CASE sort = "best" -> -item.score
      [] sort = "price" -> item.offer.price
      [] sort = "rating" -> -item.offer.rating
      [] sort = "reviews" -> -item.offer.reviews

(* No dearer and no worse rated. *)
HotelNoWorse(a, b) == a.price <= b.price /\ a.rating >= b.rating

(* What is offered are hotels, ranked as hotels. *)
RanksHotels(offered) ==
    \A S \in SUBSET Offered(offered) : \A a, b \in S :
        /\ a.price \in Int /\ a.rating \in Int
        /\ Score(a, S) = HotelScore(a, S)
        /\ NoWorse(a, b) => HotelNoWorse(a, b)

=============================================================================
