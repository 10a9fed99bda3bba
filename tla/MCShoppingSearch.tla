-------------------------- MODULE MCShoppingSearch --------------------------
(***************************************************************************)
(* Two searches, pages and titles for the runs of ShoppingSearch.          *)
(***************************************************************************)
EXTENDS ShoppingSearch

CONSTANTS s1, s2, amazon, ebay, api, api2, cheap, dear

TwoSearches  == {s1, s2}
TwoRetailers == {amazon, ebay}
Asked        == [s \in {s1, s2} |-> IF s = s1 THEN {amazon, ebay} ELSE {amazon}]
TwoProcesses == {api, api2}
TogetherOrApart == {[s \in {s1, s2} |-> api], [s \in {s1, s2} |-> IF s = s1 THEN api ELSE api2]}
OnlyStream   == {s1}

\* "camera sale" is "camera" without its promotional word; "kamera" is like it.
Titles       == {"", "camera", "camera sale", "kamera", "--css"}
Plain        == [n \in Titles |-> IF n = "camera sale" THEN "camera" ELSE n]
Similar      == {<<"camera", "kamera">>, <<"kamera", "camera">>}

\* "$300.00", and "$20.00", which is no plausible price.
TwoTexts     == {cheap, dear}
Amounts      == [x \in {cheap, dear} |-> IF x = dear THEN 300 ELSE 20]

Said(items, name, price, error) ==
  [items |-> items, name |-> name, price |-> price, error |-> error, rating |-> "number"]
Rated(answer) == [answer EXCEPT !.rating = "text"]
Item(name, price) == [name |-> name, price |-> price]

\* Two listings and an accessory, a price of them a text; two search pages the model
\* found nothing on, with prices and with that of an accessory only; an answer that could
\* not be parsed, on a page with a title.
SomePages ==
  {[answer  |-> Said({Item("camera sale", dear), Item("kamera", 400), Item("camera", cheap)}, "", 0, ""),
    numbers |-> {}, fields |-> [title |-> "", price |-> 0]],
   [answer  |-> Said({}, "camera sale", 0, NotFound), numbers |-> {30, 90, 500, 600, 2020},
    fields  |-> [title |-> "", price |-> 0]],
   [answer  |-> Said({}, "--css", 0, NotFound), numbers |-> {30},
    fields  |-> [title |-> "", price |-> 0]],
   [answer  |-> Said({}, "", 0, "json_parse_failed"), numbers |-> {},
    fields  |-> [title |-> "camera sale", price |-> 500]]}
SomeErrors == {NoText, NotFound, "json_parse_failed", "no_screenshots"}

\* A product whose price, no plausible one, and rating are texts.
SomeVisions == {Rated(Said({}, "kamera", cheap, ""))}
=============================================================================
