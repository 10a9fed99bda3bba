--------------------------- MODULE ShopCatalogue ----------------------------
(***************************************************************************)
(* What searches promise the tables they share, however many they are and  *)
(* whatever fails.  No row goes away; a product has a title no other has,  *)
(* or none; an offer is of a product that is there, and only searches of   *)
(* its own source touch it.  Whoever gives an offer a price owes it to the *)
(* offer's history: it pays that once, or it is cut off before it has and  *)
(* the offer counts as torn.  ShoppingSearch implements this               *)
(* specification, and says of itself when it tears an offer.               *)
(***************************************************************************)
EXTENDS Naturals, Sequences, SequencesExt

CONSTANTS Writers, SourceOf, NoText, NoPrice

VARIABLES products, offers, history,
          owed,  \* what a writer owes: [offer, price], or Nothing
          torn   \* offers whose history lacks a price

vars == <<products, offers, history, owed, torn>>

Nothing == [offer |-> 0, price |-> NoPrice]

Init ==
  /\ products = <<>> /\ offers = <<>> /\ history = <<>>
  /\ owed = [w \in Writers |-> Nothing] /\ torn = {}

\* From here on w owes a price to offer i, if it gave it one.
Owes(w, i, price) ==
  /\ owed[w] = Nothing
  /\ owed' = [owed EXCEPT ![w] =
                IF price = NoPrice THEN Nothing ELSE [offer |-> i, price |-> price]]

AddProduct(title) ==
  /\ title = NoText \/ title \notin ToSet(products)
  /\ products' = Append(products, title)
  /\ UNCHANGED <<offers, history, owed, torn>>

AddOffer(w, row) ==
  /\ row.source = SourceOf[w] /\ row.product \in DOMAIN products
  /\ offers'  = Append(offers, row)
  /\ history' = Append(history, <<>>)
  /\ Owes(w, Len(offers) + 1, row.price)
  /\ UNCHANGED <<products, torn>>

SetPrice(w, i, price) ==
  /\ i \in DOMAIN offers /\ offers[i].source = SourceOf[w] /\ price # NoPrice
  /\ Owes(w, i, price)
  /\ offers' = [offers EXCEPT ![i].price = price]
  /\ UNCHANGED <<products, history, torn>>

Pay(w) ==
  /\ owed[w] # Nothing
  /\ history' = [history EXCEPT ![owed[w].offer] = Append(@, owed[w].price)]
  /\ owed'    = [owed EXCEPT ![w] = Nothing]
  /\ UNCHANGED <<products, offers, torn>>

\* Its commit raised, or the session was closed under it.
Fail(w) ==
  /\ owed[w] # Nothing
  /\ torn' = torn \cup {owed[w].offer}
  /\ owed' = [owed EXCEPT ![w] = Nothing]
  /\ UNCHANGED <<products, offers, history>>

\* Titles, rows and prices are whatever the step leaves in the tables, or owes.  The
\* last three begin or end a debt.
Next ==
  \/ Len(products') > Len(products) /\ AddProduct(Last(products'))
  \/ Len(offers') > Len(offers) /\ \E w \in Writers : AddOffer(w, Last(offers'))
  \/ owed' # owed /\ \E w \in Writers :
       \/ SetPrice(w, owed'[w].offer, owed'[w].price)
       \/ Pay(w) \/ Fail(w)

Spec == Init /\ [][Next]_vars
=============================================================================
