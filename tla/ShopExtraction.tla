--------------------------- MODULE ShopExtraction ---------------------------
(***************************************************************************)
(* How one retailer's page becomes a product and a price: the normalising  *)
(* of listings, the choice among prices found by regular expressions, and  *)
(* the merge of both with what a language model answered                   *)
(* (shop_price_extract.py, app/services/shop_service.py).                  *)
(*                                                                         *)
(* A price is a number of whole dollars, 0 standing for a missing one, or  *)
(* a text no number can be made of without striking its $ and commas, like *)
(* "$1,299.00": a listing's price is read so, any other stays as it is.  A *)
(* payload is [items, name, price, error, rating]: its listings (a set,    *)
(* since the code sorts them by price), and the top-level fields.  A name  *)
(* is NoText when absent and CssName when it is a piece of a style sheet;  *)
(* a rating is a number (or missing) or a text, such as "4.5 out of 5".    *)
(***************************************************************************)
EXTENDS Naturals, FiniteSets, FiniteSetsExt

CONSTANTS CssName,     \* a name that starts with :root, @charset, { or --
          Texts,       \* the prices that are texts
          Reads,       \* the number in such a text, 0 if there is none
          QueryFloor   \* _query_price_floor of the query that is searched

ASSUME FloorAssumption == QueryFloor \in {25, 120, 280}
ASSUME TextsAssumption == Texts \cap Nat = {} /\ Reads \in [Texts -> Nat]

NotFound == "product_not_found"
NoText   == ""
NoPrice  == 0

\* _is_plausible_product_price.
Plausible(p) == 25 <= p /\ p <= 45000 /\ p \notin 1990 .. 2035

\* _coerce_listing_price, before it looks whether the number is plausible.
Number(price) == IF price \in Texts THEN Reads[price] ELSE price

\* _add_price on every match: an implausible number is no candidate.
Candidates(numbers) == {p \in numbers : Plausible(p)}

\* normalize_listing_item keeps this listing.
Listed(item) == /\ item.name \notin {NoText, CssName}
                /\ Plausible(Number(item.price))
                /\ Number(item.price) >= QueryFloor

Listing(item) == [name |-> item.name, price |-> Number(item.price)]

\* normalize_shop_data: the cheapest listing gives the top-level fields, which stay
\* as they are when none is kept.
NormalizeShopData(data) ==
  LET raw  == IF data.items # {} THEN data.items
                                 ELSE {[name |-> data.name, price |-> data.price]}
      kept == {Listing(i) : i \in {j \in raw : Listed(j)}}
      best == CHOOSE i \in kept : \A j \in kept : i.price <= j.price
  IN IF kept = {} THEN data
     ELSE [items |-> kept, name |-> best.name, price |-> best.price,
           error |-> IF data.error = NotFound THEN NoText ELSE data.error,
           rating |-> data.rating]

\* pick_best_price for the five retailers: the cheapest of what is left after
\* accessories (below the floor or $80) and the low end of a wide spread went.
PickBestPrice(candidates) ==
  LET AtLeast(S, p) == IF \E q \in S : q >= p THEN {q \in S : q >= p} ELSE S
      pool   == AtLeast(candidates, QueryFloor)
      high   == IF Cardinality(pool) = 1 THEN pool ELSE AtLeast(pool, Max({QueryFloor, 80}))
      wide   == Cardinality(high) >= 2 /\ Max(high) >= 3 * Max({Min(high), 1})
      Rank(p) == Cardinality({q \in high : q < p})
      pivot  == CHOOSE p \in high : Rank(p) = Cardinality(high) \div 2
  IN IF wide THEN Min({p \in high : 4 * p >= 3 * pivot}) ELSE Min(high)

\* merge_shop_extraction.  Listings none of which is kept are returned all the same;
\* a top-level price that is a text counts as none, unless the answer has an error.
MergeShopExtraction(answer, candidates) ==
  LET data   == IF answer.name = CssName THEN [answer EXCEPT !.name = NoText] ELSE answer
      found  == IF data.error = NotFound THEN NoText ELSE data.error
      picked == IF candidates = {} THEN NoPrice ELSE PickBestPrice(candidates)
  IN CASE answer.items # {}                                     -> NormalizeShopData(answer)
       [] answer.items = {} /\ data.error \notin {NoText, NotFound} -> data
       [] OTHER ->
            IF data.price \notin Texts /\ data.price >= QueryFloor
                                          THEN [data EXCEPT !.error = found]
            ELSE IF picked >= QueryFloor  THEN [data EXCEPT !.price = picked, !.error = found]
            ELSE NormalizeShopData([data EXCEPT !.price = NoPrice])

\* vision_flat_to_shopping_data and the rest of vision_extract_shopping.
VisionData(answer, candidates) ==
  LET data == NormalizeShopData(answer)
  IN IF candidates = {} THEN data ELSE MergeShopExtraction(data, candidates)

\* shopping_vision_has_signal: a listing counts before anyone looks at it.
HasSignal(data) == data.price # NoPrice \/ data.name # NoText \/ data.items # {}

\* extract_product_fields of a page, as its title and its price: it fails for want
\* of a title.  The selectors learnt from a page that failed never match one:
\* _text_near_selector looks for the text "(1, 200)" in it.
FieldsFailed(fields) == fields.title = NoText

(* _extract_with_llm, before and after it resorts to vision. *)
LlmData(page) == NormalizeShopData(MergeShopExtraction(page.answer, Candidates(page.numbers)))

LlmFoundNothing(page) == LlmData(page).items = {} /\ LlmData(page).price = NoPrice

WantsVision(page) == LlmFoundNothing(page) /\ FieldsFailed(page.fields)

\* What it returns when vision has no say.
PageData(page) ==
  IF ~LlmFoundNothing(page) \/ FieldsFailed(page.fields) THEN LlmData(page)
  ELSE NormalizeShopData([items |-> {}, name |-> page.fields.title,
                          price |-> page.fields.price, error |-> NoText, rating |-> "number"])
=============================================================================
