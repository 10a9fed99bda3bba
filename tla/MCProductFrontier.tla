------------------------- MODULE MCProductFrontier --------------------------
(***************************************************************************)
(* Five URLs for the runs of ProductFrontier: the seed, a product page     *)
(* (rich), a category page on another port (thin), a page on the same      *)
(* domain without www (deep) and one outside the domain.                   *)
(***************************************************************************)
EXTENDS ProductFrontier, TLC

CONSTANTS seed, rich, thin, deep, foreign

FiveUrls == {seed, rich, thin, deep, foreign}
Scores   == seed :> 2 @@ rich :> 2 @@ thin :> 0 @@ deep :> 1 @@ foreign :> 2
Kinship  == seed :> 0 @@ rich :> 0 @@ thin :> 1 @@ deep :> 2 @@ foreign :> 3
AllPaths == FiveUrls

\* Every set of at most two links (links to the seed are dropped anyway).
ShortPages == {p \in SUBSET (FiveUrls \ {seed}) : Cardinality(p) <= 2}

\* A wide crawl, a narrow one, and a narrow one that is queued.
ThreeRequests == {[asked |-> 3, queued |-> FALSE], [asked |-> 1, queued |-> FALSE],
                  [asked |-> 0, queued |-> TRUE]}
=============================================================================
