--------------------------- MODULE ShoppingProofs ---------------------------
(***************************************************************************)
(* Proofs about a shopping search, and about the gate each of its fetches  *)
(* passes.                                                                 *)
(*                                                                         *)
(* ShopExtraction and ShoppingSearch: for any searches, retailers, pages   *)
(* and answers of the models, any placement on processes, any number of    *)
(* faults.                                                                 *)
(*                                                                         *)
(* SourceGate: for any sources of any kinds, any number of fetches, with   *)
(* and without the JavaScript probe.                                       *)
(***************************************************************************)
EXTENDS ShoppingSearch, SourceGate, FiniteSetTheorems, SequenceTheorems,
        WellFoundedInduction, TLAPS
-----------------------------------------------------------------------------
(***************************************************************************)
(* ShopExtraction: what a task may store.                                  *)
(***************************************************************************)
\* Induction over a set of numbers, as its least element.
LEMMA LeastElement ==
  ASSUME NEW T, T \subseteq Nat, T # {}
  PROVE  \E n \in T : \A m \in T : n <= m
<1> DEFINE Less == {p \in Nat \X Nat : p[1] < p[2]}
<1>1. \A m, n \in Nat : m < n => <<m, n>> \in Less
  OBVIOUS
<1>2. IsWellFoundedOn(Less, Nat)
  BY NatLessThanWellFounded DEF OpToRel
<1> HIDE DEF Less
<1>3. PICK n \in T : \A m \in T : <<m, n>> \notin Less
  BY <1>2, WFMin
<1>4. \A m \in T : ~(m < n)
  BY <1>1, <1>3
<1>5. QED
  BY <1>4

\* The cheapest of some listings.
LEMMA Cheapest ==
  ASSUME NEW kept, kept \subseteq [name : Names, price : Nat], kept # {}
  PROVE  (CHOOSE i \in kept : \A j \in kept : i.price <= j.price) \in kept
<1> DEFINE prices == {i.price : i \in kept}
<1>1. prices \subseteq Nat /\ prices # {}
  OBVIOUS
<1>2. PICK p \in prices : \A q \in prices : p <= q
  <2> HIDE DEF prices
  <2>1. QED
    BY <1>1, LeastElement
<1>3. PICK i \in kept : i.price = p
  BY <1>2
<1>4. \A j \in kept : i.price <= j.price
  BY <1>2, <1>3
<1>5. QED
  BY <1>4

\* The number in a price is one, if it has any.
LEMMA Numbers ==
  ASSUME NEW price \in Price
  PROVE  Number(price) \in Nat
BY TextsAssumption DEF Price, Number

\* Normalising a payload gives a payload.
LEMMA Normal ==
  ASSUME NEW d \in Payload
  PROVE  NormalizeShopData(d) \in Payload
<1> DEFINE raw  == IF d.items # {} THEN d.items ELSE {[name |-> d.name, price |-> d.price]}
           kept == {Listing(i) : i \in {j \in raw : Listed(j)}}
           best == CHOOSE i \in kept : \A j \in kept : i.price <= j.price
           why  == IF d.error = NotFound THEN NoText ELSE d.error
<1>1. NormalizeShopData(d) = IF kept = {} THEN d
                             ELSE [items |-> kept, name |-> best.name, price |-> best.price, error |-> why,
                                   rating |-> d.rating]
  BY DEF NormalizeShopData
<1>2. kept \subseteq [name : Names, price : Nat]
  <2>1. raw \subseteq [name : Names, price : Price]
    BY DEF Payload
  <2> HIDE DEF raw
  <2>2. \A i \in raw : Listing(i) \in [name : Names, price : Nat]
    BY <2>1, Numbers DEF Listing
  <2>3. QED
    BY <2>2
<1>3. why \in Errors /\ d.rating \in {"number", "text"}
  BY PagesAssumption DEF Payload
<1>4. kept # {} => best \in kept
  <2> HIDE DEF kept
  <2>1. QED
    BY <1>2, Cheapest
<1> HIDE DEF kept, best, why
<1>5. kept # {} => best.name \in Names /\ best.price \in Nat
  BY <1>2, <1>4
<1>6. kept \in SUBSET [name : Names, price : Price] /\ Nat \subseteq Price
  BY <1>2 DEF Price
<1>7. QED
  BY <1>1, <1>3, <1>5, <1>6 DEF Payload

\* What is at least a price, if there is such a thing.
LEMMA Least ==
  ASSUME NEW T, T \subseteq Nat, T # {}
  PROVE  Min(T) \in T
BY LeastElement DEF Min

\* Every rank of a finite set of prices is that of one of them.
LEMMA RankTaken ==
  ASSUME NEW high, high \subseteq Nat, IsFiniteSet(high), NEW k \in 0 .. Cardinality(high) - 1
  PROVE  \E p \in high : Cardinality({q \in high : q < p}) = k
<1> DEFINE Below(p) == {q \in high : q < p}
           rank == [p \in high |-> Cardinality(Below(p))]
           n == Cardinality(high)
<1>1. n \in Nat /\ \A p \in high : IsFiniteSet(Below(p)) /\ Cardinality(Below(p)) \in 0 .. n - 1
  <2>1. n \in Nat
    BY FS_CardinalityType
  <2>2. ASSUME NEW p \in high
        PROVE  IsFiniteSet(Below(p)) /\ Cardinality(Below(p)) \in 0 .. n - 1
    <3>1. Below(p) \in SUBSET high /\ Below(p) # high
      <4>1. p \notin Below(p)
        OBVIOUS
      <4>2. QED
        BY <4>1
    <3> HIDE DEF Below
    <3>2. IsFiniteSet(Below(p)) /\ Cardinality(Below(p)) <= n /\ n # Cardinality(Below(p))
      BY <3>1, FS_Subset
    <3>3. Cardinality(Below(p)) \in Nat
      BY <3>2, FS_CardinalityType
    <3>4. QED
      BY <2>1, <3>2, <3>3
  <2>3. QED
    BY <2>1, <2>2
<1>2. ASSUME NEW p \in high, NEW r \in high, p < r
      PROVE  Cardinality(Below(p)) # Cardinality(Below(r))
  <2>1. Below(p) \in SUBSET Below(r) /\ p \in Below(r) /\ p \notin Below(p)
    <3>1. \A q \in high : q \in Nat
      OBVIOUS
    <3>2. \A q \in high : q < p => q < r
      BY <1>2, <3>1
    <3>3. p \in Nat /\ ~(p < p)
      BY <3>1
    <3>4. QED
      BY <1>2, <3>2, <3>3
  <2>2. IsFiniteSet(Below(r))
    BY <1>1
  <2> HIDE DEF Below
  <2>3. QED
    BY <2>1, <2>2, FS_Subset
<1>3. rank \in Injection(high, 0 .. n - 1)
  <2>1. rank \in [high -> 0 .. n - 1]
    BY <1>1
  <2>2. ASSUME NEW p \in high, NEW r \in high, rank[p] = rank[r]
        PROVE  p = r
    <3>1. p < r \/ r < p \/ p = r
      OBVIOUS
    <3> HIDE DEF Below
    <3>2. QED
      BY <1>2, <2>2, <3>1
  <2> HIDE DEF rank
  <2>3. QED
    BY <2>1, <2>2 DEF Injection, IsInjective
<1>4. IsFiniteSet(0 .. n - 1) /\ Cardinality(0 .. n - 1) = n
  <2>1. 0 \in Int /\ n - 1 \in Int
    BY <1>1
  <2> HIDE DEF n
  <2>2. QED
    BY <1>1, <2>1, FS_Interval
<1>5. rank \in Surjection(high, 0 .. n - 1)
  <2> HIDE DEF rank
  <2>1. QED
    BY <1>3, <1>4, FS_Injection
<1>6. \E p \in high : rank[p] = k
  <2> HIDE DEF rank
  <2>1. QED
    BY <1>5 DEF Surjection
<1>7. QED
  BY <1>6

\* The price picked from those of a page is a price.
LEMMA Picked ==
  ASSUME NEW candidates, candidates \subseteq Nat, IsFiniteSet(candidates), candidates # {}
  PROVE  PickBestPrice(candidates) \in Nat
<1> DEFINE AtLeast(S, p) == IF \E q \in S : q >= p THEN {q \in S : q >= p} ELSE S
           pool   == AtLeast(candidates, QueryFloor)
           high   == IF Cardinality(pool) = 1 THEN pool ELSE AtLeast(pool, Max({QueryFloor, 80}))
           wide   == Cardinality(high) >= 2 /\ Max(high) >= 3 * Max({Min(high), 1})
           Rank(p) == Cardinality({q \in high : q < p})
           pivot  == CHOOSE p \in high : Rank(p) = Cardinality(high) \div 2
           left   == {p \in high : 4 * p >= 3 * pivot}
<1>1. PickBestPrice(candidates) = IF wide THEN Min(left) ELSE Min(high)
  BY DEF PickBestPrice
<1>2. \A S, p : AtLeast(S, p) \subseteq S /\ (S # {} => AtLeast(S, p) # {})
  OBVIOUS
<1>3. pool \subseteq candidates /\ pool # {}
  OBVIOUS
<1> HIDE DEF pool
<1>4. high \subseteq pool /\ high # {}
  BY <1>2, <1>3
<1>5. high \subseteq Nat /\ IsFiniteSet(high)
  BY <1>3, <1>4, FS_Subset
<1> HIDE DEF AtLeast, high
<1>6. Cardinality(high) \in Nat /\ Cardinality(high) # 0
  BY <1>4, <1>5, FS_CardinalityType, FS_EmptySet
<1>7. Cardinality(high) \div 2 \in 0 .. Cardinality(high) - 1
  BY <1>6
<1>8. \E p \in high : Rank(p) = Cardinality(high) \div 2
  BY <1>5, <1>7, RankTaken
<1>9. pivot \in high
  <2> HIDE DEF Rank
  <2>1. QED
    BY <1>8
<1>10. left \subseteq Nat /\ pivot \in left
  <2> HIDE DEF pivot
  <2>1. pivot \in Nat
    BY <1>5, <1>9
  <2>2. 4 * pivot >= 3 * pivot
    BY <2>1
  <2>3. QED
    BY <1>5, <1>9, <2>2
<1> HIDE DEF left, wide
<1>11. Min(left) \in Nat /\ Min(high) \in Nat
  BY <1>4, <1>5, <1>10, Least
<1>12. QED
  BY <1>1, <1>11

LEMMA CandidateNumbers ==
  ASSUME NEW numbers \in SUBSET Nat, IsFiniteSet(numbers)
  PROVE  Candidates(numbers) \subseteq Nat /\ IsFiniteSet(Candidates(numbers))
BY FS_Subset DEF Candidates

LEMMA Merged ==
  ASSUME NEW d \in Payload, NEW candidates, candidates \subseteq Nat, IsFiniteSet(candidates)
  PROVE  MergeShopExtraction(d, candidates) \in Payload
<1> DEFINE e      == IF d.name = CssName THEN [d EXCEPT !.name = NoText] ELSE d
           found  == IF e.error = NotFound THEN NoText ELSE e.error
           picked == IF candidates = {} THEN NoPrice ELSE PickBestPrice(candidates)
<1>1. e \in Payload
  BY PagesAssumption DEF Payload
<1>2. found \in Errors
  BY <1>1, PagesAssumption DEF Payload
<1>3. picked \in Nat
  BY Picked DEF NoPrice
<1>4. MergeShopExtraction(d, candidates) \in
        {NormalizeShopData(d), e, [e EXCEPT !.error = found],
         [e EXCEPT !.price = picked, !.error = found], NormalizeShopData([e EXCEPT !.price = NoPrice])}
  BY DEF MergeShopExtraction
<1> HIDE DEF e, found, picked
<1>5. [e EXCEPT !.error = found] \in Payload /\ [e EXCEPT !.price = picked, !.error = found] \in Payload
      /\ [e EXCEPT !.price = NoPrice] \in Payload
  BY <1>1, <1>2, <1>3 DEF Payload, Price, NoPrice
<1>6. QED
  BY <1>1, <1>4, <1>5, Normal

LEMMA Seen ==
  ASSUME NEW d \in Payload, NEW candidates, candidates \subseteq Nat, IsFiniteSet(candidates)
  PROVE  VisionData(d, candidates) \in Payload
BY Normal, Merged DEF VisionData

LEMMA Read ==
  ASSUME NEW page \in Pages
  PROVE  LlmData(page) \in Payload /\ PageData(page) \in Payload
<1>1. page \in Page /\ IsFiniteSet(page.numbers)
  BY PagesAssumption
<1>2. LlmData(page) \in Payload
  BY <1>1, CandidateNumbers, Merged, Normal DEF LlmData, Page
<1>3. [items |-> {}, name |-> page.fields.title, price |-> page.fields.price, error |-> NoText,
       rating |-> "number"] \in Payload
  BY <1>1, PagesAssumption DEF Page, Payload, Price
<1>4. QED
  BY <1>2, <1>3, Normal DEF PageData

LEMMA Given ==
  /\ Blank \in Payload /\ Visions \cup {NoVision} \subseteq Payload
  /\ {} \subseteq Nat /\ IsFiniteSet({})
<1>1. Blank \in Payload /\ NoVision \in Payload
  BY PagesAssumption DEF Blank, NoVision, Payload, Price, NoPrice
<1>2. QED
  BY <1>1, PagesAssumption, FS_EmptySet
-----------------------------------------------------------------------------
(***************************************************************************)
(* ShoppingSearch: types, the event loop and the rows.                     *)
(***************************************************************************)
Spots    == {"queued", "over"} \cup Awaiting \cup Persisting
Handles  == {"none", "fresh", "expired", "detachedFresh", "detachedExpired"}
Endings  == {"none", "returned", "raised", "illegible"}
Priced   == {"insertOffer", "updateOffer"} \cup Stored
TitleSet == {Canonical[n] : n \in Names}
Offer    == [source : Retailers, title : Names \cup {"Unknown"}, product : Nat, price : Nat]

Typed ==
  /\ host \in [Searches -> Processes] /\ loop \in [Processes -> Tasks \cup {Nobody}]
  /\ at \in [Tasks -> Spots] /\ source \in [Tasks -> Handles]
  /\ data \in [Tasks -> Payload \cup Pages] /\ hit \in [Tasks -> Nat]
  /\ result \in [Tasks -> Endings]
  /\ session \in [Searches -> {"ok", "broken"}]
  /\ outcome \in [Searches -> {"running", "answered", "failed", "closed"}]
  /\ products \in Seq(TitleSet) /\ offers \in Seq(Offer) /\ history \in Seq(Seq(Nat))
  /\ faults \in 0 .. MaxFaults /\ torn \in SUBSET Nat

\* What a task stands with at a place, when the tables have p products and o offers:
\* a payload and its price, an ending, the row of the product or of the offer.
TaskOk(place, d, h, how, p, o) ==
  /\ IF place = "visionIfEmpty" THEN d \in Pages ELSE d \in Payload
  /\ (place = "over") = (how \in {"returned", "raised", "illegible"})
  /\ place \in {"refreshProduct", "offer", "insertOffer"} => h \in 1 .. p
  /\ place \in {"updateOffer"} \cup Stored => h \in 1 .. o
  /\ place \in Priced => d.price \in Nat
  /\ place = "price" => d.price # NoPrice

TasksOk  == \A t \in Tasks : TaskOk(at[t], data[t], hit[t], result[t], Len(products), Len(offers))
LoopOk   == \A t \in Tasks : (at[t] \in Persisting) = HasLoop(t)

\* Only a task that has begun and is not over holds its source.
SourceOk == \A t \in Tasks : at[t] \in {"queued", "over"} => source[t] = "none"

RowsOk ==
  /\ \A i \in 1 .. Len(offers) : offers[i].product \in 1 .. Len(products)
  /\ Len(history) = Len(offers) /\ torn \subseteq 1 .. Len(offers)

ShopInv == Typed /\ TasksOk /\ LoopOk /\ SourceOk /\ RowsOk
-----------------------------------------------------------------------------
\* The tables lose no row.
Grow ==
  /\ products' \in Seq(TitleSet) /\ offers' \in Seq(Offer) /\ history' \in Seq(Seq(Nat))
  /\ torn' \in SUBSET Nat /\ Len(products) <= Len(products') /\ Len(offers) <= Len(offers')
  /\ RowsOk'

\* What a step of a task does besides moving it.
Around ==
  /\ UNCHANGED <<host, outcome>> /\ faults' \in 0 .. MaxFaults
  /\ session' \in [Searches -> {"ok", "broken"}] /\ Grow

\* Handles of the sources with which no task but t takes hold of one.
Holds(handles, t) ==
  /\ handles \in [Tasks -> Handles]
  /\ \A u \in Tasks \ {t} : source[u] = "none" => handles[u] = "none"

LEMMA TaskFacts ==
  /\ Nobody \notin Tasks
  /\ \A t \in Tasks : t[1] \in Searches /\ t[2] \in Retailers
BY DEF Tasks, Nobody

LEMMA MoreRows ==
  ASSUME NEW place, NEW d, NEW h, NEW how, NEW p \in Nat, NEW o \in Nat, NEW p2 \in Nat, NEW o2 \in Nat,
         TaskOk(place, d, h, how, p, o), p <= p2, o <= o2, h \in Nat
  PROVE  TaskOk(place, d, h, how, p2, o2)
BY DEF TaskOk

\* It suffices that the task which moved is as it should be: it keeps the event loop
\* of its process while it stores, and gives it back when it ends.
LEMMA ShopMoves ==
  ASSUME ShopInv, NEW t \in Tasks, MayRun(t), Around,
         NEW place \in Spots, at' = [at EXCEPT ![t] = place],
         NEW d \in Payload \cup Pages, data' = [data EXCEPT ![t] = d],
         NEW h \in Nat, hit' = [hit EXCEPT ![t] = h],
         NEW how \in Endings, result' = [result EXCEPT ![t] = how],
         TaskOk(place, d, h, how, Len(products'), Len(offers')),
         loop' = [loop EXCEPT ![Home(t)] = IF place \in Persisting THEN t ELSE Nobody],
         NEW handles, Holds(handles, t), place \notin {"queued", "over"} \/ handles[t] = "none",
         source' = handles
  PROVE  ShopInv'
<1> DEFINE keeper == IF place \in Persisting THEN t ELSE Nobody
           p == Home(t)
<1>1. p \in Processes /\ keeper \in Tasks \cup {Nobody} /\ \A u \in Tasks : Home(u) \in Processes
  BY TaskFacts DEF ShopInv, Typed, Home
<1>l. loop \in [Processes -> Tasks \cup {Nobody}] /\ loop' = [loop EXCEPT ![p] = keeper]
  BY DEF ShopInv, Typed
<1>2. Typed'
  <2> HIDE DEF keeper, p
  <2>1. QED
    BY <1>1 DEF ShopInv, Typed, Around, Grow, Holds
<1>3. \A u \in Tasks : u # t => at'[u] = at[u] /\ data'[u] = data[u] /\ hit'[u] = hit[u] /\ result'[u] = result[u]
  BY DEF ShopInv, Typed
<1>4. at'[t] = place /\ data'[t] = d /\ hit'[t] = h /\ result'[t] = how
  BY DEF ShopInv, Typed
<1>5. TasksOk'
  <2> SUFFICES ASSUME NEW u \in Tasks
               PROVE  TaskOk(at'[u], data'[u], hit'[u], result'[u], Len(products'), Len(offers'))
    BY DEF TasksOk
  <2>1. CASE u = t
    BY <1>4, <2>1
  <2>2. CASE u # t
    <3>1. TaskOk(at[u], data[u], hit[u], result[u], Len(products), Len(offers))
      BY DEF ShopInv, TasksOk
    <3>2. /\ Len(products) \in Nat /\ Len(offers) \in Nat /\ Len(products') \in Nat /\ Len(offers') \in Nat
          /\ Len(products) <= Len(products') /\ Len(offers) <= Len(offers') /\ hit[u] \in Nat
      BY DEF ShopInv, Typed, Around, Grow
    <3>3. QED
      BY <1>3, <2>2, <3>1, <3>2, MoreRows
  <2>3. QED
    BY <2>1, <2>2
<1>6. LoopOk'
  <2> SUFFICES ASSUME NEW u \in Tasks
               PROVE  (at'[u] \in Persisting) = (loop'[Home(u)] = u)
    BY DEF LoopOk, HasLoop, Home, Around
  <2>1. CASE u = t
    <3>1. loop'[p] = keeper
      <4> HIDE DEF keeper, p
      <4>1. QED
        BY <1>1, <1>l
    <3>2. QED
      BY <1>4, <2>1, <3>1, TaskFacts
  <2>2. CASE u # t /\ Home(u) = p
    <3>1. loop'[p] = keeper /\ loop[p] \in {Nobody, t}
      <4>1. loop[p] \in {Nobody, t}
        BY DEF MayRun
      <4> HIDE DEF keeper, p
      <4>2. QED
        BY <1>1, <1>l, <4>1
    <3>2. (at[u] \in Persisting) = (loop[Home(u)] = u)
      BY DEF ShopInv, LoopOk, HasLoop
    <3>3. u # Nobody /\ keeper \in {Nobody, t}
      BY TaskFacts
    <3> HIDE DEF keeper, p
    <3>4. QED
      BY <1>3, <2>2, <3>1, <3>2, <3>3
  <2>3. CASE u # t /\ Home(u) # p
    <3>1. loop'[Home(u)] = loop[Home(u)]
      <4> HIDE DEF keeper, p
      <4>1. QED
        BY <1>1, <1>l, <2>3
    <3>2. (at[u] \in Persisting) = (loop[Home(u)] = u)
      BY DEF ShopInv, LoopOk, HasLoop
    <3>3. QED
      BY <1>3, <2>3, <3>1, <3>2
  <2>4. QED
    BY <2>1, <2>2, <2>3
<1>7. SourceOk'
  BY <1>3, <1>4 DEF ShopInv, SourceOk, Holds
<1>8. QED
  BY <1>2, <1>5, <1>6, <1>7 DEF ShopInv, Around, Grow

LEMMA TaskTyped ==
  ASSUME ShopInv, NEW t \in Tasks
  PROVE  /\ at[t] \in Spots /\ source[t] \in Handles /\ data[t] \in Payload \cup Pages
         /\ hit[t] \in Nat /\ result[t] \in Endings
         /\ data = [data EXCEPT ![t] = data[t]] /\ hit = [hit EXCEPT ![t] = hit[t]]
         /\ result = [result EXCEPT ![t] = result[t]]
         /\ TaskOk(at[t], data[t], hit[t], result[t], Len(products), Len(offers))
         /\ (at[t] \in Persisting) = HasLoop(t)
         /\ at[t] \in {"queued", "over"} => source[t] = "none"
         /\ t[1] \in Searches /\ Home(t) \in Processes
BY TaskFacts DEF ShopInv, Typed, TasksOk, LoopOk, SourceOk, Home

\* Keeping the loop, or leaving it alone.
LEMMA LoopStays ==
  ASSUME ShopInv, NEW t \in Tasks, MayRun(t)
  PROVE  /\ HasLoop(t) => loop = [loop EXCEPT ![Home(t)] = t]
         /\ ~HasLoop(t) => loop = [loop EXCEPT ![Home(t)] = Nobody]
BY TaskTyped DEF ShopInv, Typed, HasLoop, MayRun

LEMMA StillTables ==
  ASSUME ShopInv, UNCHANGED <<tables, torn>>
  PROVE  Grow
<1>1. Len(products) \in Nat /\ Len(offers) \in Nat
  BY DEF ShopInv, Typed
<1>2. products' = products /\ offers' = offers /\ history' = history /\ torn' = torn
  BY DEF tables
<1>3. RowsOk'
  BY <1>2 DEF ShopInv, RowsOk
<1>4. QED
  BY <1>1, <1>2, <1>3 DEF ShopInv, Typed, Grow

LEMMA NothingAround ==
  ASSUME ShopInv, UNCHANGED <<search, tables, faults, torn>>
  PROVE  Around
BY StillTables DEF Around, search, ShopInv, Typed

LEMMA HeldHandles ==
  ASSUME ShopInv, NEW t \in Tasks
  PROVE  /\ Holds(source, t) /\ Holds(Expire(source, t), t)
         /\ \A handles : Holds(handles, t) => Holds(Reload(handles, t), t)
BY DEF ShopInv, Typed, Holds, Expire, Reload, Handles

LEMMA EndsKeeps ==
  ASSUME ShopInv, NEW t \in Tasks, MayRun(t), Around, NEW how \in {"returned", "raised", "illegible"},
         NEW handles, Holds(handles, t), Ends(t, how, handles)
  PROVE  ShopInv'
<1> DEFINE mine == [handles EXCEPT ![t] = "none"]
<1>1. Holds(mine, t) /\ mine[t] = "none"
  BY DEF Holds, Handles
<1>2. /\ "over" \in Spots /\ Blank \in Payload \cup Pages /\ 0 \in Nat /\ how \in Endings
      /\ "over" \notin Persisting
  BY Given DEF Spots, Endings, Persisting, Severed
<1>3. TaskOk("over", Blank, 0, how, Len(products'), Len(offers'))
  BY Given DEF TaskOk, Stored, Priced
<1>4. loop' = [loop EXCEPT ![Home(t)] = IF "over" \in Persisting THEN t ELSE Nobody]
  BY <1>2, LoopStays DEF Ends
<1>5. /\ at' = [at EXCEPT ![t] = "over"] /\ data' = [data EXCEPT ![t] = Blank]
      /\ hit' = [hit EXCEPT ![t] = 0] /\ result' = [result EXCEPT ![t] = how] /\ source' = mine
  BY DEF Ends
<1> HIDE DEF mine
<1>6. QED
  BY <1>1, <1>2, <1>3, <1>4, <1>5, ShopMoves

\* A task goes on to its next await.
LEMMA AwaitsKeeps ==
  ASSUME ShopInv, NEW t \in Tasks, MayRun(t), Around, NEW place \in Awaiting,
         at[t] \in {"queued"} \cup (Awaiting \ {"visionIfEmpty"}), place # "visionIfEmpty",
         NEW handles, Holds(handles, t), Goes(t, place, handles)
  PROVE  ShopInv'
<1>1. /\ place \in Spots /\ place \notin Persisting /\ at[t] \notin Persisting
      /\ place \notin {"queued", "over"} /\ at[t] # "over" /\ at[t] # "visionIfEmpty"
  BY DEF Spots, Awaiting, Persisting, Severed
<1>2. TaskOk(place, data[t], hit[t], result[t], Len(products'), Len(offers'))
  BY <1>1, TaskTyped DEF TaskOk, Stored, Priced, Awaiting
<1>3. loop' = [loop EXCEPT ![Home(t)] = IF place \in Persisting THEN t ELSE Nobody]
  BY <1>1, TaskTyped, LoopStays DEF Goes
<1>4. /\ at' = [at EXCEPT ![t] = place] /\ data' = [data EXCEPT ![t] = data[t]]
      /\ hit' = [hit EXCEPT ![t] = hit[t]] /\ result' = [result EXCEPT ![t] = result[t]] /\ source' = handles
  BY TaskTyped DEF Goes
<1>5. data[t] \in Payload \cup Pages /\ hit[t] \in Nat /\ result[t] \in Endings
  BY TaskTyped
<1>6. QED
  BY <1>1, <1>2, <1>3, <1>4, <1>5, ShopMoves

LEMMA StoresKeeps ==
  ASSUME ShopInv, NEW t \in Tasks, MayRun(t), Around, at[t] \in Awaiting,
         NEW payload \in Payload, Stores(t, payload)
  PROVE  ShopInv'
<1>1. /\ "match" \in Spots /\ "match" \in Persisting /\ at[t] # "over" /\ NormalizeShopData(payload) \in Payload
  BY Normal DEF Spots, Awaiting, Persisting, Severed
<1>2. TaskOk("match", NormalizeShopData(payload), hit[t], result[t], Len(products'), Len(offers'))
  BY <1>1, TaskTyped DEF TaskOk, Stored, Priced
<1>3. /\ at' = [at EXCEPT ![t] = "match"] /\ data' = [data EXCEPT ![t] = NormalizeShopData(payload)]
      /\ hit' = [hit EXCEPT ![t] = hit[t]] /\ result' = [result EXCEPT ![t] = result[t]] /\ source' = source
      /\ loop' = [loop EXCEPT ![Home(t)] = IF "match" \in Persisting THEN t ELSE Nobody]
  BY <1>1, TaskTyped DEF Stores
<1>4. hit[t] \in Nat /\ result[t] \in Endings /\ Holds(source, t)
  BY TaskTyped, HeldHandles
<1>5. QED
  BY <1>1, <1>2, <1>3, <1>4, ShopMoves

\* A task that stores goes from one write to the next.
LEMMA StepKeeps ==
  ASSUME ShopInv, NEW t \in Tasks, MayRun(t), Around, at[t] \in Persisting,
         NEW place \in Persisting, at' = [at EXCEPT ![t] = place], NEW h \in Nat, hit' = [hit EXCEPT ![t] = h],
         UNCHANGED <<loop, data, result>>, NEW handles, Holds(handles, t), source' = handles,
         place \in {"refreshProduct", "offer", "insertOffer"} => h \in 1 .. Len(products'),
         place \in {"updateOffer"} \cup Stored => h \in 1 .. Len(offers'),
         place \in Priced => data[t].price \in Nat,
         place = "price" => data[t].price # NoPrice
  PROVE  ShopInv'
<1>1. /\ place \in Spots /\ place \notin {"queued", "over", "visionIfEmpty"}
      /\ at[t] \notin {"over", "visionIfEmpty"}
  BY DEF Spots, Persisting, Severed
<1>2. TaskOk(place, data[t], h, result[t], Len(products'), Len(offers'))
  BY <1>1, TaskTyped DEF TaskOk, Stored, Priced
<1>3. loop' = [loop EXCEPT ![Home(t)] = IF place \in Persisting THEN t ELSE Nobody]
  BY TaskTyped, LoopStays
<1>4. /\ data' = [data EXCEPT ![t] = data[t]] /\ result' = [result EXCEPT ![t] = result[t]]
      /\ data[t] \in Payload \cup Pages /\ result[t] \in Endings
  BY TaskTyped
<1>5. place \notin {"queued", "over"} \/ handles[t] = "none"
  BY <1>1
<1>6. QED
  BY <1>1, <1>2, <1>3, <1>4, <1>5, ShopMoves

LEMMA StartKeeps ==
  ASSUME ShopInv, NEW t \in Tasks, Start(t)
  PROVE  ShopInv'
<1>1. MayRun(t) /\ at[t] = "queued" /\ Around /\ Holds(source, t)
  BY NothingAround, HeldHandles DEF Start
<1>2. ASSUME NEW how \in {"returned", "raised"}, Ends(t, how, source)
      PROVE  ShopInv'
  BY <1>1, <1>2, EndsKeeps
<1>3. CASE Goes(t, "fetch", [source EXCEPT ![t] = "fresh"])
  <2>1. Holds([source EXCEPT ![t] = "fresh"], t)
    BY <1>1 DEF Holds, Handles
  <2>2. QED
    BY <1>1, <1>3, <2>1, AwaitsKeeps DEF Awaiting
<1>4. QED
  BY <1>2, <1>3 DEF Start

LEMMA FetchReplyKeeps ==
  ASSUME ShopInv, NEW t \in Tasks, FetchReply(t)
  PROVE  ShopInv'
<1>1. MayRun(t) /\ at[t] = "fetch" /\ Around
  BY NothingAround DEF FetchReply
<1>2. CASE Ends(t, "raised", source)
  BY <1>1, <1>2, HeldHandles, EndsKeeps
<1>3. CASE \E reply \in {"usable", "unusable", "bad"}, logged \in BOOLEAN :
             LET read == Reload(IF logged THEN Expire(source, t) ELSE source, t) IN
                \/ Ends(t, "returned", read)
                \/ \E place \in {"visionIfBlocked", "visionIfUnusable", "llm"} : Goes(t, place, read)
  <2>1. PICK logged \in BOOLEAN :
             LET read == Reload(IF logged THEN Expire(source, t) ELSE source, t) IN
                \/ Ends(t, "returned", read)
                \/ \E place \in {"visionIfBlocked", "visionIfUnusable", "llm"} : Goes(t, place, read)
    BY <1>3
  <2> DEFINE read == Reload(IF logged THEN Expire(source, t) ELSE source, t)
  <2>2. Holds(read, t)
    BY HeldHandles
  <2>3. Ends(t, "returned", read) \/ \E place \in {"visionIfBlocked", "visionIfUnusable", "llm"} : Goes(t, place, read)
    BY <2>1
  <2> HIDE DEF read
  <2>4. QED
    BY <1>1, <2>2, <2>3, EndsKeeps, AwaitsKeeps DEF Awaiting
<1>4. QED
  BY <1>2, <1>3 DEF FetchReply

LEMMA VisionReplyKeeps ==
  ASSUME ShopInv, NEW t \in Tasks, VisionReply(t)
  PROVE  ShopInv'
<1>1. MayRun(t) /\ at[t] \in {"visionIfBlocked", "visionIfUnusable"} /\ Around /\ Holds(source, t)
  BY NothingAround, HeldHandles DEF VisionReply
<1>2. PICK answer \in Visions \cup {NoVision} :
        LET seen == VisionData(answer, {}) IN
        \/ Stores(t, seen) \/ Ends(t, "returned", source) \/ Goes(t, "llm", source)
  BY DEF VisionReply
<1>3. VisionData(answer, {}) \in Payload
  BY Given, Seen
<1>4. CASE Stores(t, VisionData(answer, {}))
  BY <1>1, <1>3, <1>4, StoresKeeps DEF Awaiting
<1>5. CASE Ends(t, "returned", source)
  BY <1>1, <1>5, EndsKeeps
<1>6. CASE Goes(t, "llm", source)
  BY <1>1, <1>6, AwaitsKeeps DEF Awaiting
<1>7. QED
  BY <1>2, <1>4, <1>5, <1>6

LEMMA LlmReplyKeeps ==
  ASSUME ShopInv, NEW t \in Tasks, LlmReply(t)
  PROVE  ShopInv'
<1>1. MayRun(t) /\ at[t] = "llm" /\ Around /\ Holds(source, t)
  BY NothingAround, HeldHandles DEF LlmReply
<1>2. ASSUME NEW page \in Pages, Stores(t, PageData(page))
      PROVE  ShopInv'
  BY <1>1, <1>2, Read, StoresKeeps DEF Awaiting
<1>3. ASSUME NEW page \in Pages, at' = [at EXCEPT ![t] = "visionIfEmpty"], data' = [data EXCEPT ![t] = page],
             UNCHANGED <<loop, source, hit, result>>
      PROVE  ShopInv'
  <2>1. /\ "visionIfEmpty" \in Spots /\ "visionIfEmpty" \notin Persisting \cup {"queued", "over"}
        /\ "llm" \notin Persisting
    BY DEF Spots, Awaiting, Persisting, Severed
  <2>2. TaskOk("visionIfEmpty", page, hit[t], result[t], Len(products'), Len(offers'))
    BY <1>1, TaskTyped DEF TaskOk, Stored, Priced
  <2>3. loop' = [loop EXCEPT ![Home(t)] = IF "visionIfEmpty" \in Persisting THEN t ELSE Nobody]
    BY <1>1, <1>3, <2>1, TaskTyped, LoopStays
  <2>4. /\ page \in Payload \cup Pages /\ hit' = [hit EXCEPT ![t] = hit[t]] /\ source' = source
        /\ result' = [result EXCEPT ![t] = result[t]] /\ hit[t] \in Nat /\ result[t] \in Endings
    BY <1>3, TaskTyped
  <2>5. "visionIfEmpty" \notin {"queued", "over"} \/ source[t] = "none"
    OBVIOUS
  <2>6. QED
    BY <1>1, <1>3, <2>1, <2>2, <2>3, <2>4, <2>5, ShopMoves
<1>4. QED
  BY <1>2, <1>3 DEF LlmReply

LEMMA VisionReplyLastKeeps ==
  ASSUME ShopInv, NEW t \in Tasks, VisionReplyLast(t)
  PROVE  ShopInv'
<1>1. MayRun(t) /\ at[t] = "visionIfEmpty" /\ Around
  BY NothingAround DEF VisionReplyLast
<1>2. data[t] \in Pages
  BY <1>1, TaskTyped DEF TaskOk, Stored, Priced
<1>3. PICK answer \in Visions \cup {NoVision} :
        LET seen == VisionData(answer, Candidates(data[t].numbers))
        IN Stores(t, seen) \/ Stores(t, LlmData(data[t]))
  BY DEF VisionReplyLast
<1>4. VisionData(answer, Candidates(data[t].numbers)) \in Payload /\ LlmData(data[t]) \in Payload
  <2>1. data[t].numbers \in SUBSET Nat /\ IsFiniteSet(data[t].numbers)
    BY <1>2, PagesAssumption DEF Page
  <2>2. QED
    BY <1>2, <2>1, CandidateNumbers, Given, Seen, Read
<1>5. QED
  BY <1>1, <1>3, <1>4, StoresKeeps DEF Awaiting

LEMMA FaultAround ==
  ASSUME ShopInv, Fault, UNCHANGED <<search, tables, torn>>
  PROVE  Around
<1>1. faults' \in 0 .. MaxFaults
  BY SearchesAssumption DEF Fault, ShopInv, Typed
<1>2. QED
  BY <1>1, StillTables DEF Around, search, ShopInv, Typed

LEMMA AwaitRaisesKeeps ==
  ASSUME ShopInv, NEW t \in Tasks, AwaitRaises(t)
  PROVE  ShopInv'
BY FaultAround, HeldHandles, EndsKeeps DEF AwaitRaises

LEMMA TimeoutKeeps ==
  ASSUME ShopInv, NEW t \in Tasks, Timeout(t)
  PROVE  ShopInv'
BY NothingAround, HeldHandles, EndsKeeps DEF Timeout

LEMMA MatchKeeps ==
  ASSUME ShopInv, NEW t \in Tasks, Match(t)
  PROVE  ShopInv'
<1>1. MayRun(t) /\ at[t] = "match" /\ Around /\ Holds(source, t)
  BY NothingAround, HeldHandles DEF Match
<1>2. CASE Ends(t, "raised", source)
  BY <1>1, <1>2, EndsKeeps
<1>3. ASSUME NEW place \in {"insert", "offer"}, at' = [at EXCEPT ![t] = place], NEW h \in Nat,
             hit' = [hit EXCEPT ![t] = h], place = "offer" => h \in DOMAIN products,
             UNCHANGED <<loop, source, data, result>>
      PROVE  ShopInv'
  <2>1. place \in Persisting /\ at[t] \in Persisting
    BY <1>1 DEF Persisting
  <2>2. place = "offer" => h \in 1 .. Len(products')
    <3>1. DOMAIN products = 1 .. Len(products) /\ Len(products) \in Nat
      BY DEF ShopInv, Typed
    <3>2. Len(products) <= Len(products') /\ Len(products') \in Nat
      BY <1>1 DEF Around, Grow
    <3>3. QED
      BY <1>3, <3>1, <3>2
  <2>3. place \notin Priced \cup Stored \cup {"updateOffer"}
    BY DEF Priced, Stored
  <2>4. place \in {"refreshProduct", "offer", "insertOffer"} => h \in 1 .. Len(products')
    BY <2>2
  <2>5. QED
    BY <1>1, <1>3, <2>1, <2>3, <2>4, StepKeeps
<1>4. CASE hit' = hit /\ at' = [at EXCEPT ![t] = "insert"] /\ UNCHANGED <<loop, source, data, result>>
  BY <1>3, <1>4, TaskTyped
<1>5. ASSUME NEW i \in DOMAIN products, hit' = [hit EXCEPT ![t] = i], at' = [at EXCEPT ![t] = "offer"],
             UNCHANGED <<loop, source, data, result>>
      PROVE  ShopInv'
  <2>1. i \in Nat
    BY DEF ShopInv, Typed
  <2>2. QED
    BY <1>3, <1>5, <2>1
<1>6. QED
  BY <1>2, <1>4, <1>5 DEF Match

\* What a task forgets is an offer that is there.
LEMMA ForgetsGrow ==
  ASSUME ShopInv, NEW t \in Tasks, Forgets(t), UNCHANGED tables
  PROVE  Grow
<1>1. /\ products' = products /\ offers' = offers /\ history' = history
      /\ Len(products) \in Nat /\ Len(offers) \in Nat
  BY DEF tables, ShopInv, Typed
<1>2. torn' \subseteq 1 .. Len(offers)
  <2>1. Owes(t) => hit[t] \in 1 .. Len(offers)
    BY TaskTyped DEF Owes, TaskOk
  <2>2. QED
    BY <2>1 DEF Forgets, ShopInv, RowsOk
<1>3. RowsOk'
  BY <1>1, <1>2 DEF ShopInv, RowsOk
<1>4. QED
  BY <1>1, <1>2, <1>3 DEF ShopInv, Typed, Grow

\* A statement that raises.
LEMMA BreaksKeeps ==
  ASSUME ShopInv, NEW t \in Tasks, MayRun(t), faults' \in 0 .. MaxFaults,
         NEW handles, Holds(handles, t), Breaks(t, handles)
  PROVE  ShopInv'
<1>1. /\ UNCHANGED tables /\ UNCHANGED <<host, outcome>> /\ Forgets(t) /\ Ends(t, "raised", handles)
      /\ session' = [session EXCEPT ![t[1]] = "broken"]
  BY DEF Breaks
<1>2. Grow
  BY <1>1, ForgetsGrow
<1>3. session' \in [Searches -> {"ok", "broken"}]
  BY <1>1, TaskTyped DEF ShopInv, Typed
<1>4. Around
  BY <1>1, <1>2, <1>3 DEF Around
<1>5. QED
  BY <1>1, <1>4, EndsKeeps

LEMMA TornTyped ==
  ASSUME ShopInv
  PROVE  /\ torn \in SUBSET (1 .. Len(offers)) /\ faults \in 0 .. MaxFaults
         /\ Fault => faults' \in 0 .. MaxFaults
BY SearchesAssumption DEF ShopInv, Typed, RowsOk, Fault

LEMMA TitleTyped ==
  ASSUME ShopInv, NEW t \in Tasks, at[t] \in Persisting
  PROVE  /\ data[t] \in Payload /\ data[t].price \in Price /\ Title(t) \in TitleSet
         /\ OfferTitle(t) \in Names \cup {"Unknown"}
         /\ at[t] \in Priced => data[t].price \in Nat
<1>1. data[t] \in Payload /\ (at[t] \in Priced => data[t].price \in Nat)
  <2>1. at[t] # "visionIfEmpty"
    BY DEF Persisting, Severed
  <2>2. QED
    BY <2>1, TaskTyped DEF TaskOk
<1>2. QED
  BY <1>1 DEF Payload, Title, TitleSet, OfferTitle

LEMMA InsertProductKeeps ==
  ASSUME ShopInv, NEW t \in Tasks, InsertProduct(t)
  PROVE  ShopInv'
<1>1. MayRun(t) /\ at[t] = "insert" /\ at[t] \in Persisting /\ faults' = faults
  BY DEF InsertProduct, Persisting
<1>2. CASE /\ products' = Append(products, Title(t))
           /\ hit'      = [hit EXCEPT ![t] = Len(products) + 1]
           /\ at'       = [at EXCEPT ![t] = "refreshProduct"]
           /\ source'   = Expire(source, t)
           /\ UNCHANGED <<loop, data, result, search, offers, history, torn>>
  <2>1. /\ products \in Seq(TitleSet) /\ products' \in Seq(TitleSet) /\ Len(products') = Len(products) + 1
        /\ Len(products) \in Nat /\ Len(products) + 1 \in 1 .. Len(products')
        /\ Len(offers) \in Nat
    BY <1>1, <1>2, TitleTyped DEF ShopInv, Typed
  <2>2. RowsOk'
    <3>1. \A i \in 1 .. Len(offers) : offers[i].product \in 1 .. Len(products')
      BY <2>1 DEF ShopInv, RowsOk
    <3>2. QED
      BY <1>1, <1>2, <3>1 DEF ShopInv, RowsOk
  <2>3. Around
    BY <1>1, <1>2, <2>1, <2>2 DEF Around, Grow, search, ShopInv, Typed
  <2>4. /\ "refreshProduct" \in Persisting /\ "refreshProduct" \notin Stored \cup Priced
        /\ Len(products) + 1 \in Nat /\ Holds(Expire(source, t), t)
    BY <2>1, HeldHandles DEF Persisting, Stored, Priced
  <2>5. QED
    BY <1>1, <1>2, <2>1, <2>3, <2>4, StepKeeps
<1>3. CASE Breaks(t, Expire(source, t))
  BY <1>1, <1>3, TornTyped, HeldHandles, BreaksKeeps
<1>4. QED
  BY <1>2, <1>3 DEF InsertProduct

LEMMA RefreshProductKeeps ==
  ASSUME ShopInv, NEW t \in Tasks, RefreshProduct(t)
  PROVE  ShopInv'
<1>1. /\ MayRun(t) /\ at[t] = "refreshProduct" /\ at[t] \in Persisting /\ Around /\ Holds(source, t)
      /\ Goes(t, "offer", source)
  BY NothingAround, HeldHandles DEF RefreshProduct, Persisting
<1>2. /\ "offer" \in Persisting /\ "offer" \notin Stored \cup Priced
      /\ hit[t] \in 1 .. Len(products) /\ hit[t] \in Nat /\ hit = [hit EXCEPT ![t] = hit[t]]
  BY <1>1, TaskTyped DEF TaskOk, Persisting, Stored, Priced
<1>3. hit[t] \in 1 .. Len(products')
  BY <1>2 DEF RefreshProduct, tables
<1>4. /\ at' = [at EXCEPT ![t] = "offer"] /\ hit' = [hit EXCEPT ![t] = hit[t]]
      /\ source' = source /\ UNCHANGED <<loop, data, result>>
  BY <1>1, <1>2 DEF Goes
<1>5. QED
  BY <1>1, <1>2, <1>3, <1>4, StepKeeps

LEMMA FindOfferKeeps ==
  ASSUME ShopInv, NEW t \in Tasks, FindOffer(t)
  PROVE  ShopInv'
<1>1. /\ MayRun(t) /\ at[t] = "offer" /\ at[t] \in Persisting /\ Around
      /\ Holds(source, t) /\ Holds(Reload(source, t), t)
  BY NothingAround, HeldHandles DEF FindOffer, Persisting
<1>2. CASE Ends(t, "raised", source) \/ Ends(t, "illegible", Reload(source, t))
  BY <1>1, <1>2, EndsKeeps
<1>3. /\ offers' = offers /\ products' = products /\ DOMAIN offers = 1 .. Len(offers)
      /\ hit[t] \in 1 .. Len(products) /\ hit[t] \in Nat /\ hit = [hit EXCEPT ![t] = hit[t]]
      /\ \A i \in 1 .. Len(offers) : i \in Nat
  BY <1>1, TaskTyped DEF TaskOk, FindOffer, tables, ShopInv, Typed
<1>4. CASE /\ hit' = hit /\ at' = [at EXCEPT ![t] = "insertOffer"] /\ source' = Reload(source, t)
           /\ UNCHANGED <<loop, data, result>> /\ data[t].price \notin Texts
  <2>1. /\ "insertOffer" \in Persisting /\ "insertOffer" \notin {"updateOffer", "price"} \cup Stored
        /\ data[t].price \in Nat
    BY <1>1, <1>4, TitleTyped DEF Persisting, Stored, Price
  <2>2. QED
    BY <1>1, <1>3, <1>4, <2>1, StepKeeps
<1>5. ASSUME NEW i \in DOMAIN offers, hit' = [hit EXCEPT ![t] = i], at' = [at EXCEPT ![t] = "updateOffer"],
             source' = Reload(source, t), UNCHANGED <<loop, data, result>>, data[t].price \notin Texts
      PROVE  ShopInv'
  <2>1. "updateOffer" \in Persisting /\ data[t].price \in Nat
    BY <1>1, <1>5, TitleTyped DEF Persisting, Price
  <2>2. QED
    BY <1>1, <1>3, <1>5, <2>1, StepKeeps
<1>6. QED
  BY <1>2, <1>4, <1>5 DEF FindOffer, Illegible

\* After the commit of an offer the task refreshes it.
LEMMA OfferStoredKeeps ==
  ASSUME ShopInv, NEW t \in Tasks, MayRun(t), at[t] \in {"insertOffer", "updateOffer"},
         NEW i \in 1 .. Len(offers'), Around, OfferStored(t, i)
  PROVE  ShopInv'
<1>1. /\ Holds(Expire(source, t), t) /\ "refresh" \in Persisting /\ i \in Nat
      /\ at[t] \in Persisting /\ data[t].price \in Nat
  BY HeldHandles, TitleTyped DEF Persisting, Priced, Around, Grow
<1>2. /\ at' = [at EXCEPT ![t] = "refresh"] /\ hit' = [hit EXCEPT ![t] = i]
      /\ source' = Expire(source, t) /\ UNCHANGED <<loop, data, result>>
  BY DEF OfferStored
<1>3. QED
  BY <1>1, <1>2, StepKeeps

LEMMA InsertOfferKeeps ==
  ASSUME ShopInv, NEW t \in Tasks, InsertOffer(t)
  PROVE  ShopInv'
<1> DEFINE new == [source |-> t[2], title |-> OfferTitle(t), product |-> hit[t], price |-> data[t].price]
<1>1. MayRun(t) /\ at[t] = "insertOffer" /\ at[t] \in Persisting /\ torn' = torn
  BY DEF InsertOffer, OfferStored, Persisting
<1>2. /\ offers' = Append(offers, new) /\ history' = Append(history, <<>>)
      /\ OfferStored(t, Len(offers) + 1)
  BY DEF InsertOffer
<1>3. new \in Offer /\ new.product \in 1 .. Len(products)
  BY <1>1, TitleTyped, TaskTyped, TaskFacts DEF Offer, TaskOk, Priced
<1> HIDE DEF new
<1>4. /\ offers \in Seq(Offer) /\ history \in Seq(Seq(Nat)) /\ Len(history) = Len(offers)
      /\ Len(products) \in Nat /\ products' = products
  BY <1>2 DEF ShopInv, Typed, RowsOk, OfferStored
<1>5. /\ offers' \in Seq(Offer) /\ Len(offers') = Len(offers) + 1 /\ Len(offers) \in Nat
      /\ \A i \in 1 .. Len(offers) : offers'[i] = offers[i]
      /\ offers'[Len(offers) + 1] = new
  BY <1>2, <1>3, <1>4
<1>6. history' \in Seq(Seq(Nat)) /\ Len(history') = Len(offers')
  <2>1. history' = Append(history, <<>>) /\ <<>> \in Seq(Nat)
    BY <1>2
  <2>2. history' \in Seq(Seq(Nat)) /\ Len(history') = Len(history) + 1
    BY <1>4, <2>1
  <2>3. QED
    BY <1>4, <1>5, <2>2
<1>7. RowsOk'
  <2>1. \A i \in 1 .. Len(offers') : offers'[i].product \in 1 .. Len(products)
    <3> TAKE i \in 1 .. Len(offers')
    <3>1. CASE i = Len(offers) + 1
      BY <1>3, <1>5, <3>1
    <3>2. CASE i # Len(offers) + 1
      <4>1. i \in 1 .. Len(offers)
        BY <1>5, <3>2
      <4>2. QED
        BY <1>5, <4>1 DEF ShopInv, RowsOk
    <3>3. QED
      BY <3>1, <3>2
  <2>2. torn' \subseteq 1 .. Len(offers')
    BY <1>1, <1>5, TornTyped
  <2>3. QED
    BY <1>4, <1>6, <2>1, <2>2 DEF RowsOk
<1>8. Around
  <2>1. UNCHANGED <<search, products, faults>>
    BY <1>2 DEF OfferStored
  <2>2. QED
    BY <1>1, <1>4, <1>5, <1>6, <1>7, <2>1 DEF Around, Grow, search, ShopInv, Typed
<1>9. Len(offers) + 1 \in 1 .. Len(offers')
  BY <1>5
<1>10. QED
  BY <1>1, <1>2, <1>8, <1>9, OfferStoredKeeps

LEMMA UpdateOfferKeeps ==
  ASSUME ShopInv, NEW t \in Tasks, UpdateOffer(t)
  PROVE  ShopInv'
<1> DEFINE p == data[t].price
           i == hit[t]
<1>1. /\ MayRun(t) /\ at[t] = "updateOffer" /\ at[t] \in Persisting /\ torn' = torn
      /\ OfferStored(t, hit[t])
  BY DEF UpdateOffer, OfferStored, Persisting
<1>2. p \in Nat /\ i \in 1 .. Len(offers)
  BY <1>1, TitleTyped, TaskTyped DEF TaskOk, Priced
<1>3. offers' = IF p = NoPrice THEN offers ELSE [offers EXCEPT ![i].price = p]
  BY DEF UpdateOffer
<1>4. products' = products /\ history' = history /\ Len(products) \in Nat
  BY DEF UpdateOffer, OfferStored, ShopInv, Typed
<1> HIDE DEF p, i
<1>5. offers \in Seq(Offer) /\ \A j \in 1 .. Len(offers) : offers[j].product \in 1 .. Len(products)
  BY DEF ShopInv, Typed, RowsOk
<1>6. offers' \in Seq(Offer) /\ Len(offers') = Len(offers) /\ Len(offers) \in Nat
      /\ \A j \in 1 .. Len(offers) : offers'[j].product = offers[j].product
  <2>1. [offers[i] EXCEPT !.price = p] \in Offer /\ [offers[i] EXCEPT !.price = p].product = offers[i].product
    <3>1. offers[i] \in Offer
      BY <1>2, <1>5
    <3>2. QED
      BY <1>2, <3>1 DEF Offer
  <2>2. [offers EXCEPT ![i].price = p] = [offers EXCEPT ![i] = [offers[i] EXCEPT !.price = p]]
    BY <1>2, <1>5
  <2> DEFINE row == [offers[i] EXCEPT !.price = p]
  <2>3. offers' = offers \/ offers' = [offers EXCEPT ![i] = row]
    BY <1>3, <2>2
  <2>4. row \in Offer /\ row.product = offers[i].product
    BY <2>1
  <2> HIDE DEF row
  <2>5. QED
    BY <1>2, <1>5, <2>3, <2>4
<1>7. RowsOk'
  BY <1>1, <1>4, <1>5, <1>6 DEF ShopInv, RowsOk
<1>8. Around
  <2>1. UNCHANGED <<search, products, faults>>
    BY <1>1 DEF OfferStored
  <2>2. QED
    BY <1>1, <1>4, <1>6, <1>7, <2>1 DEF Around, Grow, search, ShopInv, Typed
<1>9. hit[t] \in 1 .. Len(offers')
  BY <1>2, <1>6 DEF i
<1>10. QED
  BY <1>1, <1>8, <1>9, OfferStoredKeeps

LEMMA RefreshOfferKeeps ==
  ASSUME ShopInv, NEW t \in Tasks, RefreshOffer(t)
  PROVE  ShopInv'
<1>1. MayRun(t) /\ at[t] = "refresh" /\ at[t] \in Persisting /\ Around /\ Holds(source, t)
  BY NothingAround, HeldHandles DEF RefreshOffer, Persisting
<1>2. CASE Ends(t, "returned", source)
  BY <1>1, <1>2, EndsKeeps
<1>3. CASE Goes(t, "price", source) /\ data[t].price # NoPrice
  <2>1. /\ "price" \in Persisting /\ data[t].price \in Nat
        /\ hit[t] \in 1 .. Len(offers) /\ hit[t] \in Nat /\ hit = [hit EXCEPT ![t] = hit[t]]
    BY <1>1, TaskTyped DEF TaskOk, Persisting, Stored, Priced
  <2>2. hit[t] \in 1 .. Len(offers')
    BY <2>1 DEF RefreshOffer, tables
  <2>3. /\ at' = [at EXCEPT ![t] = "price"] /\ hit' = [hit EXCEPT ![t] = hit[t]]
        /\ source' = source /\ UNCHANGED <<loop, data, result>>
    BY <1>3, <2>1 DEF Goes
  <2>4. QED
    BY <1>1, <1>3, <2>1, <2>2, <2>3, StepKeeps
<1>4. QED
  BY <1>2, <1>3 DEF RefreshOffer

LEMMA WritePriceKeeps ==
  ASSUME ShopInv, NEW t \in Tasks, WritePrice(t)
  PROVE  ShopInv'
<1>1. /\ MayRun(t) /\ at[t] = "price" /\ at[t] \in Persisting /\ hit[t] \in 1 .. Len(offers)
      /\ data[t].price \in Nat
  BY TaskTyped DEF WritePrice, Persisting, TaskOk, Stored, Priced
<1>2. /\ history' = [history EXCEPT ![hit[t]] = Append(@, data[t].price)]
      /\ Ends(t, "returned", Expire(source, t))
      /\ UNCHANGED <<search, products, offers, faults, torn>>
  BY DEF WritePrice
<1>3. /\ history \in Seq(Seq(Nat)) /\ Len(history) = Len(offers)
      /\ Len(products) \in Nat /\ Len(offers) \in Nat
  BY DEF ShopInv, Typed, RowsOk
<1>4. Append(history[hit[t]], data[t].price) \in Seq(Nat)
  BY <1>1, <1>3
<1>5. history' \in Seq(Seq(Nat)) /\ Len(history') = Len(history)
  BY <1>1, <1>2, <1>3, <1>4
<1>6. RowsOk'
  BY <1>2, <1>3, <1>5 DEF ShopInv, RowsOk
<1>7. Around
  <2>1. Grow
    BY <1>2, <1>3, <1>5, <1>6 DEF Grow, ShopInv, Typed
  <2>2. QED
    BY <1>2, <2>1 DEF Around, search, ShopInv, Typed
<1>8. QED
  BY <1>1, <1>2, <1>7, HeldHandles, EndsKeeps

LEMMA WriteSeveredKeeps ==
  ASSUME ShopInv, NEW t \in Tasks, WriteSevered(t)
  PROVE  ShopInv'
<1>1. /\ MayRun(t) /\ Forgets(t) /\ UNCHANGED <<search, tables, faults>>
      /\ \E how \in {"returned", "raised"} : Ends(t, how, Expire(source, t))
  BY DEF WriteSevered
<1>2. Grow
  BY <1>1, ForgetsGrow
<1>3. Around
  BY <1>1, <1>2 DEF Around, search, ShopInv, Typed
<1>4. QED
  BY <1>1, <1>3, HeldHandles, EndsKeeps

LEMMA StatementRaisesKeeps ==
  ASSUME ShopInv, NEW t \in Tasks, StatementRaises(t)
  PROVE  ShopInv'
<1>1. /\ MayRun(t) /\ faults' \in 0 .. MaxFaults
      /\ Breaks(t, source) \/ Breaks(t, Expire(source, t))
  BY TornTyped DEF StatementRaises
<1>2. QED
  BY <1>1, HeldHandles, BreaksKeeps

\* A request that ends moves no task.
LEMMA RequestKeeps ==
  ASSUME ShopInv, NEW s \in Searches, Answer(s) \/ Fail(s) \/ ClientGone(s)
  PROVE  ShopInv'
<1>1. PICK o \in {"answered", "failed"} : outcome' = [outcome EXCEPT ![s] = o]
  BY DEF Answer, Fail, ClientGone
<1>2. UNCHANGED <<task, host, session, tables, faults, torn>>
  BY DEF Answer, Fail, ClientGone
<1>3. Typed'
  BY <1>1, <1>2 DEF ShopInv, Typed, task, tables
<1>4. TasksOk' /\ LoopOk' /\ SourceOk' /\ RowsOk'
  BY <1>2 DEF ShopInv, TasksOk, LoopOk, SourceOk, RowsOk, HasLoop, Home, task, tables
<1>5. QED
  BY <1>3, <1>4 DEF ShopInv

\* A session that is closed leaves a task that stores where it is or severs it from its
\* row, and what the task has stored stays so.
LEMMA PlaceFacts ==
  ASSUME NEW where \in Spots, NEW added \in BOOLEAN
  PROVE  /\ Place(where, added) \in Spots
         /\ (Place(where, added) \in Persisting) = (where \in Persisting)
         /\ (Place(where, added) \in Stored) = (where \in Stored)
         /\ \/ Place(where, added) = where
            \/ where \in Persisting /\ Place(where, added) \in Severed
BY DEF Place, Spots, Awaiting, Persisting, Severed, Stored

LEMMA CloseKeeps ==
  ASSUME ShopInv, NEW s \in Searches, Close(s)
  PROVE  ShopInv'
<1> DEFINE Left(t) == IF t[1] # s THEN source[t]
                      ELSE CASE source[t] = "fresh"   -> "detachedFresh"
                             [] source[t] = "expired" -> "detachedExpired"
                             [] OTHER                 -> source[t]
<1>0. PICK added \in BOOLEAN :
        at' = [t \in Tasks |-> IF t[1] = s THEN Place(at[t], added) ELSE at[t]]
  BY DEF Close
<1> DEFINE Put(t) == IF t[1] = s THEN Place(at[t], added) ELSE at[t]
<1>1. /\ source' = [t \in Tasks |-> Left(t)] /\ at' = [t \in Tasks |-> Put(t)]
      /\ UNCHANGED <<loop, data, hit, result, host, tables, faults, torn>>
      /\ outcome' = [outcome EXCEPT ![s] = "closed"] /\ session' = [session EXCEPT ![s] = "ok"]
  BY <1>0 DEF Close
<1>2. \A t \in Tasks : Left(t) \in Handles /\ (source[t] = "none" => Left(t) = "none")
  BY TaskTyped DEF Handles
<1>3. \A t \in Tasks : /\ Put(t) \in Spots
                       /\ (Put(t) \in Persisting) = (at[t] \in Persisting)
                       /\ (Put(t) \in Stored) = (at[t] \in Stored)
                       /\ Put(t) = at[t] \/ (at[t] \in Persisting /\ Put(t) \in Severed)
  BY TaskTyped, PlaceFacts
<1> HIDE DEF Left, Put
<1>4. source' \in [Tasks -> Handles] /\ at' \in [Tasks -> Spots]
      /\ \A t \in Tasks : source'[t] = Left(t) /\ at'[t] = Put(t)
  BY <1>1, <1>2, <1>3
<1>5. Typed'
  BY <1>1, <1>4 DEF ShopInv, Typed, tables
<1>6. TasksOk'
  <2> SUFFICES ASSUME NEW t \in Tasks
               PROVE  TaskOk(Put(t), data[t], hit[t], result[t], Len(products), Len(offers))
    BY <1>1, <1>4 DEF TasksOk, tables
  <2>1. TaskOk(at[t], data[t], hit[t], result[t], Len(products), Len(offers))
    BY TaskTyped
  <2>2. CASE Put(t) = at[t]
    BY <2>1, <2>2
  <2>3. CASE at[t] \in Persisting /\ Put(t) \in Severed
    <3>1. /\ Put(t) \notin {"over", "visionIfEmpty", "refreshProduct", "offer", "insertOffer",
                            "updateOffer", "price"}
          /\ at[t] \notin {"over", "visionIfEmpty"}
      BY <2>3 DEF Persisting, Severed
    <3>2. (Put(t) \in Stored) = (at[t] \in Stored)
      BY <1>3
    <3>3. QED
      BY <2>1, <3>1, <3>2 DEF TaskOk, Priced
  <2>4. QED
    BY <1>3, <2>2, <2>3
<1>7. LoopOk'
  BY <1>1, <1>3, <1>4 DEF ShopInv, LoopOk, HasLoop, Home
<1>8. SourceOk'
  <2>1. \A t \in Tasks : Put(t) \in {"queued", "over"} => Put(t) = at[t]
    BY <1>3 DEF Severed
  <2>2. QED
    BY <1>2, <1>4, <2>1 DEF ShopInv, SourceOk
<1>9. RowsOk'
  BY <1>1 DEF ShopInv, RowsOk, tables
<1>10. QED
  BY <1>5, <1>6, <1>7, <1>8, <1>9 DEF ShopInv

LEMMA StutterKeeps ==
  ASSUME ShopInv, UNCHANGED vars
  PROVE  ShopInv'
<1>1. Typed'
  BY DEF ShopInv, Typed, vars, task, search, tables
<1>2. QED
  BY <1>1 DEF ShopInv, TasksOk, LoopOk, SourceOk, RowsOk, HasLoop, Home, vars, task, search, tables

LEMMA ShopStepKeeps == ShopInv /\ [Next]_vars => ShopInv'
<1> SUFFICES ASSUME ShopInv, [Next]_vars PROVE ShopInv'
  OBVIOUS
<1>1. ASSUME NEW t \in Tasks, Start(t) \/ AwaitEnds(t)
      PROVE  ShopInv'
  BY <1>1, StartKeeps, FetchReplyKeeps, VisionReplyKeeps, LlmReplyKeeps, VisionReplyLastKeeps,
     AwaitRaisesKeeps, TimeoutKeeps DEF AwaitEnds, Reply
<1>2. ASSUME NEW t \in Tasks, Persist(t)
      PROVE  ShopInv'
  BY <1>2, MatchKeeps, InsertProductKeeps, RefreshProductKeeps, FindOfferKeeps, InsertOfferKeeps,
     UpdateOfferKeeps, RefreshOfferKeeps, WritePriceKeeps, WriteSeveredKeeps, StatementRaisesKeeps DEF Persist
<1>3. ASSUME NEW s \in Searches, RequestEnds(s) \/ ClientGone(s)
      PROVE  ShopInv'
  BY <1>3, RequestKeeps, CloseKeeps DEF RequestEnds
<1>4. CASE AllOver \/ UNCHANGED vars
  BY <1>4, StutterKeeps DEF AllOver
<1>5. QED
  BY <1>1, <1>2, <1>3, <1>4 DEF Next

LEMMA ShopInitHolds == Init => ShopInv
<1> SUFFICES ASSUME Init PROVE ShopInv
  OBVIOUS
<1>1. Typed
  <2>1. "queued" \in Spots /\ "none" \in Handles /\ "none" \in Endings /\ Blank \in Payload \cup Pages
    BY Given DEF Spots, Handles, Endings
  <2>2. host \in [Searches -> Processes] /\ MaxFaults \in Nat
    BY SearchesAssumption DEF Init
  <2>3. QED
    BY <2>1, <2>2 DEF Init, Typed
<1>2. TasksOk /\ SourceOk
  BY Given DEF Init, TasksOk, TaskOk, SourceOk, Stored, Priced
<1>3. LoopOk
  BY TaskFacts, <1>1 DEF Init, LoopOk, HasLoop, Home, Typed, Persisting, Severed
<1>4. RowsOk
  BY DEF Init, RowsOk
<1>5. QED
  BY <1>1, <1>2, <1>3, <1>4 DEF ShopInv

LEMMA ShopInvariant == Spec => []ShopInv
BY ShopInitHolds, ShopStepKeeps, PTL DEF Spec

\* A task keeps an event loop exactly while it stores, what it stores is a payload, and
\* rows refer to rows that exist.
THEOREM ShopTypeCorrect == Spec => []TypeOK
<1>1. ShopInv => TypeOK
  <2> SUFFICES ASSUME ShopInv PROVE TypeOK
    OBVIOUS
  <2>1. /\ host \in [Searches -> Processes] /\ faults \in 0 .. MaxFaults
        /\ \A p \in Processes : loop[p] \in Tasks \cup {Nobody}
        /\ session \in [Searches -> {"ok", "broken"}]
        /\ outcome \in [Searches -> {"running", "answered", "failed", "closed"}]
    BY DEF ShopInv, Typed
  <2>2. /\ DOMAIN products = 1 .. Len(products) /\ DOMAIN offers = 1 .. Len(offers)
        /\ DOMAIN history = 1 .. Len(history)
    BY DEF ShopInv, Typed
  <2>3. /\ \A i \in DOMAIN offers : offers[i].product \in DOMAIN products
        /\ DOMAIN history = DOMAIN offers /\ torn \subseteq DOMAIN offers
    BY <2>2 DEF ShopInv, RowsOk
  <2>4. ASSUME NEW t \in Tasks
        PROVE  /\ at[t] \in {"queued", "over"} \cup Awaiting \cup Persisting
               /\ at[t] \in Persisting <=> HasLoop(t)
               /\ at[t] # "visionIfEmpty" => data[t] \in Payload
               /\ source[t] \in {"none", "fresh", "expired", "detachedFresh", "detachedExpired"}
               /\ at[t] = "over" <=> result[t] \in {"returned", "raised", "illegible"}
               /\ at[t] \in {"refreshProduct", "offer", "insertOffer"} => hit[t] \in DOMAIN products
               /\ at[t] \in {"updateOffer"} \cup Stored => hit[t] \in DOMAIN offers
    BY <2>2, TaskTyped DEF TaskOk, Spots, Handles
  <2>5. QED
    BY <2>1, <2>3, <2>4 DEF TypeOK
<1>2. QED
  BY <1>1, ShopInvariant, PTL
-----------------------------------------------------------------------------
(***************************************************************************)
(* ShoppingSearch: what a step of a task leaves alone.                     *)
(***************************************************************************)
Works(t) == Start(t) \/ AwaitEnds(t) \/ Persist(t)

\* Handles with which no task holds a row that is expired and out of its session
\* unless it held that before.
Attached(handles) ==
  /\ handles \in [Tasks -> Handles]
  /\ \A u \in Tasks : handles[u] = "detachedExpired" => source[u] = "detachedExpired"

\* A step of t leaves the other tasks alone, expires rows at most, and severs none.
Apart(t) ==
  /\ \A u \in Tasks \ {t} : /\ at'[u] = at[u] /\ data'[u] = data[u]
                            /\ hit'[u] = hit[u] /\ result'[u] = result[u]
  /\ Attached(source') /\ at'[t] \notin Severed

LEMMA AttachedHandles ==
  ASSUME ShopInv, NEW t \in Tasks
  PROVE  /\ Attached(source) /\ Attached(Expire(source, t)) /\ Attached([source EXCEPT ![t] = "fresh"])
         /\ \A handles : Attached(handles) => Attached(Reload(handles, t))
<1>1. source \in [Tasks -> Handles] /\ "fresh" \in Handles
  BY DEF ShopInv, Typed, Handles
<1>2. Attached(source) /\ Attached(Expire(source, t))
  BY <1>1 DEF Attached, Expire, Handles
<1>3. ASSUME NEW handles, Attached(handles)
      PROVE  Attached([handles EXCEPT ![t] = "fresh"])
  BY <1>1, <1>3 DEF Attached
<1>4. QED
  BY <1>2, <1>3 DEF Reload

LEMMA EndsApart ==
  ASSUME ShopInv, NEW t \in Tasks, NEW how, NEW handles, Attached(handles), Ends(t, how, handles)
  PROVE  Apart(t) /\ at'[t] = "over" /\ result'[t] = how
<1>1. at'[t] = "over" /\ result'[t] = how /\ "over" \notin Severed
  BY DEF Ends, ShopInv, Typed, Severed
<1>2. \A u \in Tasks \ {t} : at'[u] = at[u] /\ data'[u] = data[u] /\ hit'[u] = hit[u] /\ result'[u] = result[u]
  BY DEF Ends, ShopInv, Typed
<1>3. Attached(source')
  <2>1. "none" \in Handles /\ source' = [handles EXCEPT ![t] = "none"]
    BY DEF Ends, Handles
  <2>2. QED
    BY <2>1 DEF Attached
<1>4. QED
  BY <1>1, <1>2, <1>3 DEF Apart

\* A step that does not end moves one task to another place.
LEMMA GoesApart ==
  ASSUME ShopInv, NEW t \in Tasks, NEW place, place \notin Severed, at' = [at EXCEPT ![t] = place],
         NEW d, data' = [data EXCEPT ![t] = d] \/ data' = data,
         NEW h, hit' = [hit EXCEPT ![t] = h] \/ hit' = hit, UNCHANGED result, Attached(source')
  PROVE  Apart(t) /\ at'[t] = place /\ result'[t] = result[t]
<1>1. at'[t] = place /\ result'[t] = result[t]
  BY DEF ShopInv, Typed
<1>2. \A u \in Tasks \ {t} : at'[u] = at[u] /\ data'[u] = data[u] /\ hit'[u] = hit[u] /\ result'[u] = result[u]
  BY DEF ShopInv, Typed
<1>3. QED
  BY <1>1, <1>2 DEF Apart

\* What a task does while it awaits reaches none of the tables; it raises when an await
\* does, or when the session or its source is of no more use.
LEMMA AwaitApart ==
  ASSUME ShopInv, NEW t \in Tasks, Start(t) \/ AwaitEnds(t)
  PROVE  /\ Apart(t) /\ MayRun(t) /\ at[t] \in {"queued"} \cup Awaiting
         /\ UNCHANGED <<search, tables, torn>>
         /\ at'[t] \in {"over", "match"} \cup Awaiting
         /\ result'[t] = "raised" /\ result[t] # "raised" => Fault \/ Broken(t) \/ Unreadable(t)
         /\ UNCHANGED faults \/ Fault
<1>1. /\ MayRun(t) /\ at[t] \in {"queued"} \cup Awaiting /\ UNCHANGED <<search, tables, torn>>
      /\ UNCHANGED faults \/ Fault
  BY DEF AwaitEnds, Reply, Start, FetchReply, VisionReply, LlmReply, VisionReplyLast, AwaitRaises, Timeout, Awaiting
<1> DEFINE Goal == /\ Apart(t) /\ at'[t] \in {"over", "match"} \cup Awaiting
                   /\ result'[t] = "raised" /\ result[t] # "raised" => Fault \/ Broken(t) \/ Unreadable(t)
<1>2. ASSUME NEW handles, Attached(handles), Ends(t, "returned", handles)
      PROVE  Goal
  BY <1>2, EndsApart
<1>3. ASSUME NEW handles, Attached(handles), Ends(t, "raised", handles), Fault \/ Broken(t) \/ Unreadable(t)
      PROVE  Goal
  BY <1>3, EndsApart
<1>4. ASSUME NEW handles, Attached(handles), NEW place \in Awaiting, Goes(t, place, handles)
      PROVE  Goal
  <2>1. place \notin Severed
    BY DEF Awaiting, Severed
  <2>2. QED
    BY <1>4, <2>1, GoesApart DEF Goes
<1>5. ASSUME NEW payload, Stores(t, payload)
      PROVE  Goal
  BY <1>5, AttachedHandles, GoesApart DEF Stores, Severed
<1>6. ASSUME NEW page, at' = [at EXCEPT ![t] = "visionIfEmpty"], data' = [data EXCEPT ![t] = page],
             UNCHANGED <<loop, source, hit, result>>
      PROVE  Goal
  BY <1>6, AttachedHandles, GoesApart DEF Awaiting, Severed
<1>s. SUFFICES Goal
  BY <1>1
<1> HIDE DEF Goal
<1>7. Attached(source) /\ Attached([source EXCEPT ![t] = "fresh"])
      /\ \A logged \in BOOLEAN : Attached(Reload(IF logged THEN Expire(source, t) ELSE source, t))
  BY AttachedHandles
<1>8. CASE Start(t)
  BY <1>2, <1>3, <1>4, <1>7, <1>8 DEF Start, Awaiting
<1>9. CASE FetchReply(t)
  <2>1. CASE Ends(t, "raised", source) /\ (Broken(t) \/ Unreadable(t))
    BY <1>3, <1>7, <2>1
  <2>2. ASSUME NEW logged \in BOOLEAN,
               LET read == Reload(IF logged THEN Expire(source, t) ELSE source, t) IN
                  \/ Ends(t, "returned", read)
                  \/ \E place \in {"visionIfBlocked", "visionIfUnusable", "llm"} : Goes(t, place, read)
        PROVE  Goal
    <3> DEFINE read == Reload(IF logged THEN Expire(source, t) ELSE source, t)
    <3>1. Attached(read) /\ (\/ Ends(t, "returned", read)
                             \/ \E place \in {"visionIfBlocked", "visionIfUnusable", "llm"} : Goes(t, place, read))
      BY <1>7, <2>2
    <3> HIDE DEF read
    <3>2. QED
      BY <1>2, <1>4, <3>1 DEF Awaiting
  <2>3. QED
    BY <1>9, <2>1, <2>2 DEF FetchReply
<1>10. CASE VisionReply(t)
  <2>1. PICK answer : LET seen == VisionData(answer, {}) IN
                      \/ Stores(t, seen) \/ Ends(t, "returned", source) \/ Goes(t, "llm", source)
    BY <1>10 DEF VisionReply
  <2>2. QED
    BY <1>2, <1>4, <1>5, <1>7, <2>1 DEF Awaiting
<1>11. CASE LlmReply(t)
  BY <1>5, <1>6, <1>11 DEF LlmReply
<1>12. CASE VisionReplyLast(t)
  BY <1>5, <1>12 DEF VisionReplyLast
<1>13. CASE AwaitRaises(t) \/ Timeout(t)
  BY <1>2, <1>3, <1>7, <1>13 DEF AwaitRaises, Timeout
<1>14. QED
  BY <1>8, <1>9, <1>10, <1>11, <1>12, <1>13 DEF AwaitEnds, Reply

\* A statement that raises ends its task and nothing else of the tasks.
LEMMA BreaksApart ==
  ASSUME ShopInv, NEW t \in Tasks, NEW handles, Attached(handles), Breaks(t, handles)
  PROVE  /\ Apart(t) /\ at'[t] = "over" /\ result'[t] = "raised" /\ Forgets(t)
         /\ UNCHANGED <<host, outcome, products, offers, history>>
<1>1. Ends(t, "raised", handles) /\ Forgets(t) /\ UNCHANGED <<host, outcome, products, offers, history>>
  BY DEF Breaks, tables
<1>2. QED
  BY <1>1, EndsApart

\* A task that has not stored an offer forgets nothing when it ends.
LEMMA NothingForgotten ==
  ASSUME NEW t \in Tasks, at[t] \notin Stored
  PROVE  ~Owes(t) /\ (Forgets(t) => torn' = torn)
BY DEF Owes, Forgets

LEMMA StoredApart ==
  ASSUME ShopInv, NEW t \in Tasks, NEW i, OfferStored(t, i)
  PROVE  /\ Apart(t) /\ UNCHANGED <<search, products, faults, torn>> /\ result'[t] = result[t]
         /\ at'[t] = "refresh" /\ hit'[t] = i /\ data'[t] = data[t]
<1>1. Attached(Expire(source, t)) /\ hit \in [Tasks -> Nat] /\ "refresh" \notin Severed
  BY AttachedHandles DEF ShopInv, Typed, Severed
<1>2. /\ at' = [at EXCEPT ![t] = "refresh"] /\ hit' = [hit EXCEPT ![t] = i] /\ source' = Expire(source, t)
      /\ UNCHANGED <<loop, data, result, search, products, faults, torn>>
  BY DEF OfferStored
<1>3. Apart(t) /\ at'[t] = "refresh" /\ result'[t] = result[t]
  BY <1>1, <1>2, GoesApart
<1>4. QED
  BY <1>1, <1>2, <1>3

LEMMA MatchApart ==
  ASSUME ShopInv, NEW t \in Tasks, Match(t)
  PROVE  /\ Apart(t) /\ MayRun(t) /\ at[t] = "match" /\ UNCHANGED <<search, tables, faults, torn>>
         /\ at'[t] \in {"over", "insert", "offer"}
         /\ result'[t] = "raised" /\ result[t] # "raised" => Broken(t)
         /\ at'[t] = "insert" => data'[t] = data[t] /\ \A i \in DOMAIN products : products[i] # Title(t)
<1> DEFINE same == {i \in DOMAIN products : products[i] = Title(t)}
           like == {i \in DOMAIN products : <<products[i], Title(t)>> \in Alike}
<1>1. MayRun(t) /\ at[t] = "match" /\ UNCHANGED <<search, tables, faults, torn>>
      /\ "insert" \notin Severed /\ "offer" \notin Severed
  BY DEF Match, Severed
<1>2. CASE Broken(t) /\ Ends(t, "raised", source)
  BY <1>1, <1>2, AttachedHandles, EndsApart
<1>3. CASE same \cup like = {} /\ hit' = hit /\ at' = [at EXCEPT ![t] = "insert"] /\ UNCHANGED <<source, data, result>>
  <2>1. Apart(t) /\ at'[t] = "insert" /\ result'[t] = result[t]
    BY <1>1, <1>3, AttachedHandles, GoesApart
  <2>2. \A i \in DOMAIN products : products[i] # Title(t)
    BY <1>3
  <2>3. QED
    BY <1>1, <1>3, <2>1, <2>2
<1>4. CASE \E i : hit' = [hit EXCEPT ![t] = i] /\ at' = [at EXCEPT ![t] = "offer"] /\ UNCHANGED <<source, data, result>>
  <2>1. PICK i : hit' = [hit EXCEPT ![t] = i]
    BY <1>4
  <2>2. Attached(source')
    BY <1>4, AttachedHandles
  <2>3. Apart(t) /\ at'[t] = "offer" /\ result'[t] = result[t]
    BY <1>1, <1>4, <2>1, <2>2, GoesApart
  <2>4. QED
    BY <1>1, <2>3
<1>5. QED
  BY <1>2, <1>3, <1>4 DEF Match

LEMMA InsertProductApart ==
  ASSUME ShopInv, NEW t \in Tasks, InsertProduct(t)
  PROVE  /\ Apart(t) /\ MayRun(t) /\ at[t] = "insert" /\ UNCHANGED <<host, outcome, offers, history, torn, faults>>
         /\ at'[t] \in {"over", "refreshProduct"}
         /\ \/ UNCHANGED session /\ result'[t] = result[t]
            \/ Title(t) # NoText /\ Title(t) \in ToSet(products)
<1>1. MayRun(t) /\ at[t] = "insert" /\ faults' = faults /\ at[t] \notin Stored /\ "refreshProduct" \notin Severed
  BY DEF InsertProduct, Stored, Severed
<1>2. CASE /\ hit' = [hit EXCEPT ![t] = Len(products) + 1] /\ at' = [at EXCEPT ![t] = "refreshProduct"]
           /\ source' = Expire(source, t) /\ UNCHANGED <<loop, data, result, search, offers, history, torn>>
  <2>1. Apart(t) /\ at'[t] = "refreshProduct" /\ result'[t] = result[t]
    BY <1>1, <1>2, AttachedHandles, GoesApart
  <2>2. QED
    BY <1>1, <1>2, <2>1 DEF search
<1>3. CASE Breaks(t, Expire(source, t)) /\ Title(t) # NoText /\ Title(t) \in ToSet(products)
  <2>1. /\ Apart(t) /\ at'[t] = "over" /\ Forgets(t)
        /\ UNCHANGED <<host, outcome, products, offers, history>>
    BY <1>3, AttachedHandles, BreaksApart
  <2>2. QED
    BY <1>1, <1>3, <2>1, NothingForgotten
<1>4. QED
  BY <1>2, <1>3 DEF InsertProduct

LEMMA RefreshProductApart ==
  ASSUME ShopInv, NEW t \in Tasks, RefreshProduct(t)
  PROVE  /\ Apart(t) /\ MayRun(t) /\ at[t] = "refreshProduct" /\ at'[t] = "offer"
         /\ result'[t] = result[t] /\ UNCHANGED <<search, tables, faults, torn>>
<1>1. "offer" \notin Severed /\ Goes(t, "offer", source)
  BY DEF RefreshProduct, Severed
<1>2. Apart(t) /\ at'[t] = "offer" /\ result'[t] = result[t]
  BY <1>1, AttachedHandles, GoesApart DEF Goes
<1>3. QED
  BY <1>2 DEF RefreshProduct

LEMMA FindOfferApart ==
  ASSUME ShopInv, NEW t \in Tasks, FindOffer(t)
  PROVE  /\ Apart(t) /\ MayRun(t) /\ at[t] = "offer" /\ UNCHANGED <<search, tables, faults, torn>>
         /\ at'[t] \in {"over", "insertOffer", "updateOffer"}
         /\ result'[t] = "raised" /\ result[t] # "raised" => Unreadable(t)
         /\ at'[t] = "insertOffer" =>
              /\ data'[t] = data[t]
              /\ \A i \in DOMAIN offers : ~(offers[i].source = t[2] /\ offers[i].title = OfferTitle(t))
<1> DEFINE found == {i \in DOMAIN offers : offers[i].source = t[2] /\ offers[i].title = OfferTitle(t)}
<1>1. /\ MayRun(t) /\ at[t] = "offer" /\ UNCHANGED <<search, tables, faults, torn>>
      /\ "insertOffer" \notin Severed /\ "updateOffer" \notin Severed
  BY DEF FindOffer, Severed
<1>2. CASE Unreadable(t) /\ Ends(t, "raised", source)
  BY <1>1, <1>2, AttachedHandles, EndsApart
<1>i. CASE Ends(t, "illegible", Reload(source, t))
  <2>1. Attached(Reload(source, t))
    BY AttachedHandles
  <2>2. Apart(t) /\ at'[t] = "over" /\ result'[t] = "illegible"
    BY <1>i, <2>1, EndsApart
  <2>3. QED
    BY <1>1, <2>2
<1>3. CASE found = {} /\ hit' = hit /\ at' = [at EXCEPT ![t] = "insertOffer"] /\ source' = Reload(source, t) /\ UNCHANGED <<data, result>>
  <2>1. Apart(t) /\ at'[t] = "insertOffer" /\ result'[t] = result[t]
    BY <1>1, <1>3, AttachedHandles, GoesApart
  <2>2. \A i \in DOMAIN offers : ~(offers[i].source = t[2] /\ offers[i].title = OfferTitle(t))
    BY <1>3
  <2>3. QED
    BY <1>1, <1>3, <2>1, <2>2
<1>4. CASE \E i : hit' = [hit EXCEPT ![t] = i] /\ at' = [at EXCEPT ![t] = "updateOffer"] /\ source' = Reload(source, t) /\ UNCHANGED <<data, result>>
  <2>1. PICK i : hit' = [hit EXCEPT ![t] = i]
    BY <1>4
  <2>2. Attached(source')
    <3>1. Attached(Reload(source, t)) /\ source' = Reload(source, t)
      BY <1>4, AttachedHandles
    <3>2. QED
      BY <3>1
  <2>3. Apart(t) /\ at'[t] = "updateOffer" /\ result'[t] = result[t]
    BY <1>1, <1>4, <2>1, <2>2, GoesApart
  <2>4. QED
    BY <1>1, <2>3
<1>5. QED
  BY <1>2, <1>i, <1>3, <1>4 DEF FindOffer

LEMMA InsertOfferApart ==
  ASSUME ShopInv, NEW t \in Tasks, InsertOffer(t)
  PROVE  /\ Apart(t) /\ MayRun(t) /\ at[t] = "insertOffer" /\ UNCHANGED <<search, products, faults, torn>>
         /\ offers' = Append(offers, [source |-> t[2], title |-> OfferTitle(t),
                                      product |-> hit[t], price |-> data[t].price])
         /\ history' = Append(history, <<>>)
         /\ OfferStored(t, Len(offers) + 1)
<1>1. OfferStored(t, Len(offers) + 1)
  BY DEF InsertOffer
<1>2. QED
  BY <1>1, StoredApart DEF InsertOffer

LEMMA UpdateOfferApart ==
  ASSUME ShopInv, NEW t \in Tasks, UpdateOffer(t)
  PROVE  /\ Apart(t) /\ MayRun(t) /\ at[t] = "updateOffer" /\ UNCHANGED <<search, products, history, faults, torn>>
         /\ offers' = IF data[t].price = NoPrice THEN offers
                      ELSE [offers EXCEPT ![hit[t]].price = data[t].price]
         /\ OfferStored(t, hit[t])
<1>1. OfferStored(t, hit[t])
  BY DEF UpdateOffer
<1>2. QED
  BY <1>1, StoredApart DEF UpdateOffer

LEMMA RefreshOfferApart ==
  ASSUME ShopInv, NEW t \in Tasks, RefreshOffer(t)
  PROVE  /\ Apart(t) /\ MayRun(t) /\ at[t] = "refresh" /\ UNCHANGED <<search, tables, faults, torn>>
         /\ IF data[t].price = NoPrice THEN at'[t] = "over" /\ result'[t] = "returned"
            ELSE at'[t] = "price" /\ hit'[t] = hit[t] /\ data'[t] = data[t] /\ result'[t] = result[t]
<1>1. /\ MayRun(t) /\ at[t] = "refresh" /\ UNCHANGED <<search, tables, faults, torn>>
      /\ "price" \notin Severed
  BY DEF RefreshOffer, Severed
<1>2. CASE data[t].price = NoPrice /\ Ends(t, "returned", source)
  BY <1>1, <1>2, AttachedHandles, EndsApart
<1>3. CASE data[t].price # NoPrice /\ Goes(t, "price", source)
  <2>1. Apart(t) /\ at'[t] = "price" /\ result'[t] = result[t]
    BY <1>1, <1>3, AttachedHandles, GoesApart DEF Goes
  <2>2. hit' = hit /\ data' = data
    BY <1>3 DEF Goes
  <2>3. QED
    BY <1>1, <1>3, <2>1, <2>2
<1>4. QED
  BY <1>2, <1>3 DEF RefreshOffer

LEMMA WritePriceApart ==
  ASSUME ShopInv, NEW t \in Tasks, WritePrice(t)
  PROVE  /\ Apart(t) /\ MayRun(t) /\ at[t] = "price" /\ at'[t] = "over" /\ result'[t] = "returned"
         /\ UNCHANGED <<search, products, offers, faults, torn>>
         /\ history' = [history EXCEPT ![hit[t]] = Append(@, data[t].price)]
BY AttachedHandles, EndsApart DEF WritePrice

LEMMA WriteSeveredApart ==
  ASSUME ShopInv, NEW t \in Tasks, WriteSevered(t)
  PROVE  /\ Apart(t) /\ MayRun(t) /\ at[t] \in Severed /\ at'[t] = "over"
         /\ Forgets(t) /\ UNCHANGED <<search, tables, faults>>
<1>1. PICK how : Ends(t, how, Expire(source, t))
  BY DEF WriteSevered
<1>2. Apart(t) /\ at'[t] = "over"
  BY <1>1, AttachedHandles, EndsApart
<1>3. QED
  BY <1>2 DEF WriteSevered

LEMMA StatementRaisesApart ==
  ASSUME ShopInv, NEW t \in Tasks, StatementRaises(t)
  PROVE  /\ Apart(t) /\ MayRun(t) /\ at[t] \in Persisting \ Severed /\ at'[t] = "over"
         /\ Fault /\ Forgets(t) /\ UNCHANGED <<host, outcome, products, offers, history>>
<1>1. /\ MayRun(t) /\ at[t] \in Persisting \ Severed /\ Fault
      /\ Breaks(t, source) \/ Breaks(t, Expire(source, t))
  BY DEF StatementRaises
<1>2. Attached(source) /\ Attached(Expire(source, t))
  BY AttachedHandles
<1>3. QED
  BY <1>1, <1>2, BreaksApart

\* Whatever a task does, the requests stay as they are.
LEMMA WorksApart ==
  ASSUME ShopInv, NEW t \in Tasks, Works(t)
  PROVE  /\ Apart(t) /\ MayRun(t) /\ at[t] # "over" /\ UNCHANGED <<host, outcome>>
         /\ UNCHANGED faults \/ Fault
<1>1. "over" \notin Persisting /\ "over" \notin Severed /\ "over" \notin Awaiting
  BY DEF Persisting, Severed, Awaiting
<1>2. CASE Start(t) \/ AwaitEnds(t)
  BY <1>1, <1>2, AwaitApart DEF search
<1>3. CASE Match(t) \/ InsertProduct(t) \/ RefreshProduct(t) \/ FindOffer(t)
  BY <1>1, <1>3, MatchApart, InsertProductApart, RefreshProductApart, FindOfferApart DEF search
<1>4. CASE InsertOffer(t) \/ UpdateOffer(t) \/ RefreshOffer(t) \/ WritePrice(t)
  BY <1>1, <1>4, InsertOfferApart, UpdateOfferApart, RefreshOfferApart, WritePriceApart DEF search
<1>5. CASE WriteSevered(t) \/ StatementRaises(t)
  BY <1>1, <1>5, WriteSeveredApart, StatementRaisesApart DEF search
<1>6. QED
  BY <1>2, <1>3, <1>4, <1>5 DEF Works, Persist
-----------------------------------------------------------------------------
(***************************************************************************)
(* ShoppingSearch: requests that ended before their tasks.                 *)
(***************************************************************************)
\* A request is answered when all of its tasks are over; one that failed, and one whose
\* session is closed under tasks, left them behind.  Only a closed session severs a task
\* from its rows, or takes a source away from it.
Ended(s) ==
  /\ outcome[s] = "answered" => \A t \in Tasks : t[1] = s => at[t] = "over"
  /\ outcome[s] = "failed" => LeftBehind(s)
  /\ outcome[s] = "closed" => LeftBehind(s) \/ \A t \in Tasks : t[1] = s => at[t] = "over"
  /\ \A t \in Tasks : t[1] = s /\ (at[t] \in Severed \/ source[t] = "detachedExpired")
                        => outcome[s] = "closed"

EndedOk == \A s \in Searches : Ended(s)

\* A task that is over stays so, with the result it has.
LEMMA OverStays ==
  ASSUME ShopInv, NEW t \in Tasks, Apart(t), at[t] # "over", NEW u \in Tasks,
         at[u] = "over" \/ result[u] # "none"
  PROVE  at'[u] = "over" /\ result'[u] = result[u]
<1>1. at[u] = "over"
  <2>1. (at[u] = "over") = (result[u] \in {"returned", "raised", "illegible"}) /\ result[u] \in Endings
    BY TaskTyped DEF TaskOk
  <2>2. QED
    BY <2>1 DEF Endings
<1>2. QED
  BY <1>1 DEF Apart

LEMMA WorksEnded ==
  ASSUME ShopInv, EndedOk, NEW t \in Tasks, Works(t)
  PROVE  EndedOk'
<1>1. Apart(t) /\ at[t] # "over" /\ outcome' = outcome
  BY WorksApart
<1>2. \A u \in Tasks : at[u] = "over" => at'[u] = "over"
  BY <1>1, OverStays
<1>3. \A u \in Tasks : result[u] \in {"raised", "illegible"} => result'[u] = result[u]
  BY <1>1, OverStays
<1>4. \A u \in Tasks : /\ at'[u] \in Severed => at[u] \in Severed
                       /\ source'[u] = "detachedExpired" => source[u] = "detachedExpired"
  BY <1>1 DEF Apart, Attached
<1> SUFFICES ASSUME NEW s \in Searches PROVE Ended(s)'
  BY DEF EndedOk
<1>5. Ended(s)
  BY DEF EndedOk
<1>6. LeftBehind(s) => LeftBehind(s)'
  BY <1>3 DEF LeftBehind
<1>7. QED
  BY <1>1, <1>2, <1>4, <1>5, <1>6 DEF Ended

LEMMA RequestEnded ==
  ASSUME ShopInv, EndedOk, NEW s \in Searches, Answer(s) \/ Fail(s) \/ ClientGone(s)
  PROVE  EndedOk'
<1>1. /\ outcome[s] = "running"
      /\ \/ outcome' = [outcome EXCEPT ![s] = "answered"] /\ \A t \in Tasks : t[1] = s => at[t] = "over"
         \/ outcome' = [outcome EXCEPT ![s] = "failed"] /\ LeftBehind(s)
  BY DEF Answer, Fail, ClientGone, LeftBehind
<1>2. UNCHANGED <<at, result, source>>
  BY DEF Answer, Fail, ClientGone, task
<1>3. outcome \in [Searches -> {"running", "answered", "failed", "closed"}]
  BY DEF ShopInv, Typed
<1> SUFFICES ASSUME NEW r \in Searches PROVE Ended(r)'
  BY DEF EndedOk
<1>4. Ended(r) /\ LeftBehind(r)' = LeftBehind(r)
  BY <1>2 DEF EndedOk, LeftBehind
<1>5. CASE r = s
  BY <1>1, <1>2, <1>3, <1>4, <1>5 DEF Ended
<1>6. CASE r # s
  <2>1. outcome'[r] = outcome[r]
    BY <1>1, <1>3, <1>6
  <2>2. QED
    BY <1>2, <1>4, <2>1 DEF Ended
<1>7. QED
  BY <1>5, <1>6

LEMMA CloseEnded ==
  ASSUME ShopInv, EndedOk, NEW s \in Searches, Close(s)
  PROVE  EndedOk'
<1>1. outcome[s] \in {"answered", "failed"} /\ outcome' = [outcome EXCEPT ![s] = "closed"] /\ result' = result
  BY DEF Close
<1>2. /\ \A t \in Tasks : t[1] # s => at'[t] = at[t] /\ source'[t] = source[t]
      /\ \A t \in Tasks : at[t] = "over" => at'[t] = "over"
  BY DEF Close, Place
<1>3. outcome \in [Searches -> {"running", "answered", "failed", "closed"}]
  BY DEF ShopInv, Typed
<1> SUFFICES ASSUME NEW r \in Searches PROVE Ended(r)'
  BY DEF EndedOk
<1>4. Ended(r) /\ LeftBehind(r)' = LeftBehind(r)
  BY <1>1 DEF EndedOk, LeftBehind
<1>5. CASE r = s
  <2>1. outcome'[r] = "closed"
    BY <1>1, <1>3, <1>5
  <2>2. LeftBehind(r) \/ \A t \in Tasks : t[1] = r => at[t] = "over"
    BY <1>1, <1>4, <1>5 DEF Ended
  <2>3. QED
    BY <1>2, <1>4, <2>1, <2>2 DEF Ended
<1>6. CASE r # s
  <2>1. outcome'[r] = outcome[r]
    BY <1>1, <1>3, <1>6
  <2>2. \A t \in Tasks : t[1] = r => at'[t] = at[t] /\ source'[t] = source[t]
    BY <1>2, <1>6
  <2>3. QED
    BY <1>4, <2>1, <2>2 DEF Ended
<1>7. QED
  BY <1>5, <1>6

LEMMA EndedKept == ShopInv /\ EndedOk /\ [Next]_vars => EndedOk'
<1> SUFFICES ASSUME ShopInv, EndedOk, [Next]_vars PROVE EndedOk'
  OBVIOUS
<1>1. CASE AllOver \/ UNCHANGED vars
  <2>1. UNCHANGED <<at, result, source, outcome>>
    BY <1>1 DEF AllOver, vars, task, search
  <2>2. QED
    BY <2>1 DEF EndedOk, Ended, LeftBehind
<1>2. QED
  BY <1>1, WorksEnded, RequestEnded, CloseEnded DEF Next, Works, RequestEnds

LEMMA EndedInit == Init => EndedOk
BY DEF Init, EndedOk, Ended, Severed

\* A task its closed session has taken a row from was left behind.
LEMMA SeveredLeft ==
  ASSUME EndedOk, NEW t \in Tasks, at[t] # "over", at[t] \in Severed \/ source[t] = "detachedExpired"
  PROVE  outcome[t[1]] = "closed" /\ LeftBehind(t[1])
<1>1. t[1] \in Searches
  BY TaskFacts
<1>2. QED
  BY <1>1 DEF EndedOk, Ended
-----------------------------------------------------------------------------
(***************************************************************************)
(* ShoppingSearch: prices.                                                 *)
(***************************************************************************)
\* The price of an offer is about to be added to its history, or it is one of it; and
\* while one process serves every search, it is the last one of it.
Explained(i) ==
  offers[i].price # NoPrice /\ i \notin torn =>
    \/ \E t \in Tasks : Owes(t) /\ hit[t] = i /\ data[t].price = offers[i].price
    \/ /\ offers[i].price \in ToSet(history[i])
       /\ OneProcess => Last(history[i]) = offers[i].price

\* While one process serves every search, a task adds the price its offer still shows.
Agrees == OneProcess => \A t \in Tasks : Owes(t) => offers[hit[t]].price = data[t].price

\* Why offers are torn.
TornOk == torn # {} => faults > 0 \/ \E s \in Searches : outcome[s] = "closed" /\ LeftBehind(s)

PricesOk == Agrees /\ \A i \in 1 .. Len(offers) : Explained(i)

\* While one process serves every search, a task that runs is the only one that stores.
LEMMA Alone ==
  ASSUME ShopInv, OneProcess, NEW t \in Tasks, MayRun(t), NEW u \in Tasks, u # t
  PROVE  at[u] \notin Persisting
<1>1. Home(u) = Home(t)
  BY TaskFacts DEF Home, OneProcess
<1>2. loop[Home(t)] \in {Nobody, t} /\ (at[u] \in Persisting) = (loop[Home(u)] = u) /\ u # Nobody
  BY TaskTyped, TaskFacts DEF MayRun, HasLoop
<1>3. QED
  BY <1>1, <1>2

\* Only a task that stores owes a price, and it has the offer.
LEMMA OwesFacts ==
  ASSUME ShopInv, NEW t \in Tasks, Owes(t)
  PROVE  /\ at[t] \in Persisting /\ at[t] \in Stored /\ data[t].price # NoPrice
         /\ hit[t] \in 1 .. Len(offers) /\ data[t].price \in Nat
<1>1. at[t] \in Stored /\ data[t].price # NoPrice
  BY DEF Owes
<1>2. at[t] \in Persisting /\ at[t] \in Priced
  BY <1>1 DEF Stored, Persisting, Severed, Priced
<1>3. QED
  BY <1>1, <1>2, TaskTyped DEF TaskOk

\* The debts of the tasks a step of t leaves alone stay.
LEMMA DebtsStay ==
  ASSUME NEW t \in Tasks, Apart(t)
  PROVE  \A u \in Tasks \ {t} : Owes(u)' = Owes(u) /\ hit'[u] = hit[u] /\ data'[u] = data[u]
BY DEF Apart, Owes

LEMMA PricesStay ==
  ASSUME ShopInv, PricesOk, UNCHANGED <<host, offers, history, torn>>,
         \A u \in Tasks : Owes(u)' = Owes(u) /\ (Owes(u) => hit'[u] = hit[u] /\ data'[u] = data[u])
  PROVE  PricesOk'
<1>1. OneProcess' = OneProcess
  BY DEF OneProcess
<1>2. Agrees'
  BY <1>1 DEF PricesOk, Agrees
<1>3. ASSUME NEW i \in 1 .. Len(offers)
      PROVE  Explained(i)'
  <2>1. Explained(i)
    BY DEF PricesOk
  <2>2. \A u \in Tasks : Owes(u) /\ hit[u] = i /\ data[u].price = offers[i].price
                           => Owes(u)' /\ hit'[u] = i /\ data'[u].price = offers'[i].price
    OBVIOUS
  <2>3. QED
    BY <1>1, <2>1, <2>2 DEF Explained
<1>4. QED
  BY <1>2, <1>3 DEF PricesOk

\* A step of a task that neither begins to owe nor pays.
LEMMA StepStays ==
  ASSUME ShopInv, PricesOk, NEW t \in Tasks, Apart(t), UNCHANGED <<host, offers, history, torn>>,
         at[t] \notin Stored, at'[t] \notin Stored
  PROVE  PricesOk'
<1>1. Owes(t)' = Owes(t) /\ ~Owes(t)
  BY DEF Owes
<1>2. \A u \in Tasks : Owes(u)' = Owes(u) /\ (Owes(u) => hit'[u] = hit[u] /\ data'[u] = data[u])
  BY <1>1, DebtsStay
<1>3. QED
  BY <1>2, PricesStay

\* A task writes an offer: it adds its price next, or it has none.
LEMMA OfferPriced ==
  ASSUME ShopInv, PricesOk, NEW t \in Tasks, Apart(t), MayRun(t), ~Owes(t), UNCHANGED <<host, torn>>,
         Owes(t)' => offers'[hit'[t]].price = data'[t].price,
         \A i \in 1 .. Len(offers') :
           \/ i \in 1 .. Len(offers) /\ offers'[i].price = offers[i].price /\ history'[i] = history[i]
           \/ offers'[i].price = NoPrice
           \/ Owes(t)' /\ hit'[t] = i
  PROVE  PricesOk'
<1>1. OneProcess' = OneProcess
  BY DEF OneProcess
<1>2. \A u \in Tasks \ {t} : Owes(u)' = Owes(u) /\ data'[u] = data[u] /\ hit'[u] = hit[u]
  BY DebtsStay
<1>3. Agrees'
  <2> SUFFICES ASSUME OneProcess, NEW u \in Tasks, Owes(u)'
               PROVE  offers'[hit'[u]].price = data'[u].price
    BY <1>1 DEF Agrees
  <2>1. CASE u = t
    BY <2>1
  <2>2. CASE u # t
    <3>1. Owes(u) /\ at[u] \notin Persisting
      BY <1>2, <2>2, Alone
    <3>2. QED
      BY <3>1, OwesFacts
  <2>3. QED
    BY <2>1, <2>2
<1>4. ASSUME NEW i \in 1 .. Len(offers')
      PROVE  Explained(i)'
  <2>1. CASE i \in 1 .. Len(offers) /\ offers'[i].price = offers[i].price /\ history'[i] = history[i]
    <3>1. Explained(i)
      BY <2>1 DEF PricesOk
    <3>2. \A u \in Tasks : Owes(u) => Owes(u)' /\ data'[u] = data[u] /\ hit'[u] = hit[u]
      BY <1>2
    <3>3. QED
      BY <1>1, <2>1, <3>1, <3>2 DEF Explained
  <2>2. CASE offers'[i].price = NoPrice
    BY <2>2 DEF Explained
  <2>3. CASE Owes(t)' /\ hit'[t] = i
    BY <2>3 DEF Explained
  <2>4. QED
    BY <2>1, <2>2, <2>3
<1>5. QED
  BY <1>3, <1>4 DEF PricesOk

\* After its offer is committed a task owes the price, if it has one.
LEMMA StoredOwing ==
  ASSUME ShopInv, NEW t \in Tasks, NEW i, OfferStored(t, i)
  PROVE  /\ Owes(t)' = (data[t].price # NoPrice) /\ hit'[t] = i /\ data'[t] = data[t]
         /\ Apart(t)
BY StoredApart DEF Owes, Stored

LEMMA InsertOfferPrices ==
  ASSUME ShopInv, PricesOk, NEW t \in Tasks, InsertOffer(t)
  PROVE  PricesOk'
<1> DEFINE new == [source |-> t[2], title |-> OfferTitle(t), product |-> hit[t], price |-> data[t].price]
<1>1. /\ Apart(t) /\ MayRun(t) /\ at[t] = "insertOffer" /\ UNCHANGED <<host, torn>>
      /\ offers' = Append(offers, new) /\ history' = Append(history, <<>>)
      /\ OfferStored(t, Len(offers) + 1)
  BY InsertOfferApart DEF search
<1>2. ~Owes(t)
  BY <1>1 DEF Owes, Stored
<1>3. /\ Owes(t)' = (data[t].price # NoPrice) /\ hit'[t] = Len(offers) + 1 /\ data'[t] = data[t]
  BY <1>1, StoredOwing
<1>4. new.price = data[t].price
  OBVIOUS
<1> HIDE DEF new
<1>5. offers \in Seq(Offer) /\ history \in Seq(Seq(Nat)) /\ Len(history) = Len(offers)
  BY DEF ShopInv, Typed, RowsOk
<1>6. /\ Len(offers') = Len(offers) + 1 /\ Len(offers) \in Nat /\ offers'[Len(offers) + 1] = new
      /\ \A i \in 1 .. Len(offers) : offers'[i] = offers[i]
  BY <1>1, <1>5
<1>7. \A i \in 1 .. Len(offers) : history'[i] = history[i]
  BY <1>1, <1>5
<1>8. ASSUME NEW i \in 1 .. Len(offers')
      PROVE  \/ i \in 1 .. Len(offers) /\ offers'[i].price = offers[i].price /\ history'[i] = history[i]
             \/ offers'[i].price = NoPrice
             \/ Owes(t)' /\ hit'[t] = i
  <2>1. CASE i = Len(offers) + 1
    BY <1>3, <1>4, <1>6, <2>1
  <2>2. CASE i # Len(offers) + 1
    <3>1. i \in 1 .. Len(offers)
      BY <1>6, <2>2
    <3>2. QED
      BY <1>6, <1>7, <3>1
  <2>3. QED
    BY <2>1, <2>2
<1>9. offers'[hit'[t]].price = data'[t].price
  BY <1>3, <1>4, <1>6
<1>10. QED
  BY <1>1, <1>2, <1>8, <1>9, OfferPriced

LEMMA UpdateOfferPrices ==
  ASSUME ShopInv, PricesOk, NEW t \in Tasks, UpdateOffer(t)
  PROVE  PricesOk'
<1> DEFINE p == data[t].price
           n == hit[t]
<1>1. /\ Apart(t) /\ MayRun(t) /\ at[t] = "updateOffer" /\ UNCHANGED <<host, torn>> /\ history' = history
      /\ offers' = IF p = NoPrice THEN offers ELSE [offers EXCEPT ![n].price = p]
      /\ OfferStored(t, n)
  BY UpdateOfferApart DEF search
<1>2. ~Owes(t)
  BY <1>1 DEF Owes, Stored
<1>3. Owes(t)' = (p # NoPrice) /\ hit'[t] = n /\ data'[t].price = p
  BY <1>1, StoredOwing
<1>4. n \in 1 .. Len(offers) /\ offers \in Seq(Offer)
  BY <1>1, TaskTyped DEF TaskOk, ShopInv, Typed
<1> HIDE DEF p, n
<1>5. CASE p = NoPrice
  <2>1. \A i \in 1 .. Len(offers') : i \in 1 .. Len(offers) /\ offers'[i].price = offers[i].price /\ history'[i] = history[i]
    BY <1>1, <1>5
  <2>2. QED
    BY <1>1, <1>2, <1>3, <1>5, <2>1, OfferPriced
<1>6. CASE p # NoPrice
  <2>1. offers' = [offers EXCEPT ![n].price = p]
    BY <1>1, <1>6
  <2>2. offers[n] \in Offer
    BY <1>4
  <2>3. Len(offers') = Len(offers) /\ \A i \in 1 .. Len(offers) : i # n => offers'[i] = offers[i]
    BY <1>4, <2>1
  <2>4. offers'[n].price = p
    <3>1. offers'[n] = [offers[n] EXCEPT !.price = p]
      BY <1>4, <2>1
    <3>2. QED
      BY <2>2, <3>1 DEF Offer
  <2>5. \A i \in 1 .. Len(offers') :
          \/ i \in 1 .. Len(offers) /\ offers'[i].price = offers[i].price /\ history'[i] = history[i]
          \/ offers'[i].price = NoPrice
          \/ Owes(t)' /\ hit'[t] = i
    BY <1>1, <1>3, <1>6, <2>3
  <2>6. Owes(t)' => offers'[hit'[t]].price = data'[t].price
    BY <1>3, <2>4
  <2>7. QED
    BY <1>1, <1>2, <2>5, <2>6, OfferPriced
<1>7. QED
  BY <1>5, <1>6

LEMMA RefreshOfferPrices ==
  ASSUME ShopInv, PricesOk, NEW t \in Tasks, RefreshOffer(t)
  PROVE  PricesOk'
<1>1. /\ Apart(t) /\ at[t] = "refresh" /\ UNCHANGED <<host, offers, history, torn>>
      /\ IF data[t].price = NoPrice THEN at'[t] = "over"
         ELSE at'[t] = "price" /\ hit'[t] = hit[t] /\ data'[t] = data[t]
  BY RefreshOfferApart DEF search, tables
<1>2. Owes(t)' = Owes(t) /\ (Owes(t) => hit'[t] = hit[t] /\ data'[t] = data[t])
  BY <1>1 DEF Owes, Stored
<1>3. QED
  BY <1>1, <1>2, DebtsStay, PricesStay

\* A task that ends and forgets the price it owes.
LEMMA ForgottenPrices ==
  ASSUME ShopInv, PricesOk, NEW t \in Tasks, Apart(t), at'[t] = "over", Forgets(t),
         UNCHANGED <<host, offers, history>>
  PROVE  PricesOk'
<1> DEFINE n == hit[t]
<1>1. OneProcess' = OneProcess /\ ~Owes(t)'
  BY DEF OneProcess, Owes, Stored
<1>2. \A u \in Tasks \ {t} : Owes(u)' = Owes(u) /\ data'[u] = data[u] /\ hit'[u] = hit[u]
  BY DebtsStay
<1>3. Agrees'
  BY <1>1, <1>2 DEF PricesOk, Agrees
<1>4. torn \subseteq torn' /\ (Owes(t) => n \in torn')
  BY DEF Forgets
<1> HIDE DEF n
<1>5. ASSUME NEW i \in 1 .. Len(offers)
      PROVE  Explained(i)'
  <2>1. CASE Owes(t) /\ i = n
    BY <1>4, <2>1 DEF Explained
  <2>2. CASE ~(Owes(t) /\ i = n)
    <3>1. Explained(i)
      BY DEF PricesOk
    <3>2. \A u \in Tasks : Owes(u) /\ hit[u] = i => Owes(u)' /\ data'[u] = data[u] /\ hit'[u] = hit[u]
      BY <1>2, <2>2 DEF n
    <3>3. QED
      BY <1>1, <1>4, <3>1, <3>2 DEF Explained
  <2>3. QED
    BY <2>1, <2>2
<1>6. QED
  BY <1>3, <1>5 DEF PricesOk

LEMMA WritePricePrices ==
  ASSUME ShopInv, PricesOk, NEW t \in Tasks, WritePrice(t)
  PROVE  PricesOk'
<1> DEFINE p == data[t].price
           n == hit[t]
<1>1. /\ Apart(t) /\ MayRun(t) /\ at[t] = "price" /\ at'[t] = "over" /\ UNCHANGED <<host, offers, torn>>
      /\ history' = [history EXCEPT ![n] = Append(@, p)]
  BY WritePriceApart DEF search
<1>o. Owes(t) /\ ~Owes(t)'
  BY <1>1, TaskTyped DEF Owes, Stored, TaskOk
<1>2. /\ p \in Nat /\ n \in 1 .. Len(offers) /\ Len(history) = Len(offers) /\ history \in Seq(Seq(Nat))
      /\ Len(offers) \in Nat
  BY <1>o, OwesFacts DEF ShopInv, Typed, RowsOk
<1>3. OneProcess' = OneProcess /\ \A u \in Tasks \ {t} : Owes(u)' = Owes(u) /\ data'[u] = data[u] /\ hit'[u] = hit[u]
  BY <1>1, DebtsStay DEF OneProcess
<1>4. Agrees'
  BY <1>1, <1>o, <1>3 DEF PricesOk, Agrees
<1>5. OneProcess => offers[n].price = p
  BY <1>o DEF PricesOk, Agrees
<1>6. \A i \in 1 .. Len(offers) : Explained(i)
  BY DEF PricesOk
<1>7. \A u \in Tasks : Owes(u) /\ hit[u] # n => Owes(u)' /\ data'[u] = data[u] /\ hit'[u] = hit[u]
  BY <1>3
<1>p. /\ \A u \in Tasks : Owes(u) /\ hit[u] = n /\ u = t => data[u].price = p
      /\ \A u \in Tasks : Owes(u) /\ u # t => Owes(u)' /\ data'[u] = data[u] /\ hit'[u] = hit[u]
  BY <1>3
<1> HIDE DEF p, n
<1>8. history'[n] = Append(history[n], p) /\ \A i \in 1 .. Len(offers) : i # n => history'[i] = history[i]
  BY <1>1, <1>2
<1>9. p \in ToSet(history'[n]) /\ ToSet(history[n]) \subseteq ToSet(history'[n]) /\ Last(history'[n]) = p
  <2> DEFINE h == history[n]
  <2>1. h \in Seq(Nat) /\ history'[n] = Append(h, p)
    BY <1>2, <1>8
  <2> HIDE DEF h
  <2>2. /\ Append(h, p)[Len(h) + 1] = p /\ Len(Append(h, p)) = Len(h) + 1 /\ Len(h) \in Nat
        /\ DOMAIN h = 1 .. Len(h) /\ DOMAIN Append(h, p) = 1 .. Len(h) + 1
        /\ \A k \in 1 .. Len(h) : Append(h, p)[k] = h[k]
    BY <1>2, <2>1
  <2>3. p \in ToSet(Append(h, p)) /\ ToSet(h) \subseteq ToSet(Append(h, p)) /\ Last(Append(h, p)) = p
    BY <2>2 DEF ToSet, Last
  <2>4. QED
    BY <2>1, <2>3 DEF h
<1>10. ASSUME NEW i \in 1 .. Len(offers)
       PROVE  Explained(i)'
  <2>1. CASE i # n
    <3>1. history'[i] = history[i] /\ Explained(i)
      BY <1>6, <1>8, <2>1
    <3>2. QED
      BY <1>1, <1>3, <1>7, <2>1, <3>1 DEF Explained
  <2>2. CASE i = n
    <3> SUFFICES ASSUME offers[n].price # NoPrice, n \notin torn
                 PROVE  \/ \E u \in Tasks : Owes(u)' /\ hit'[u] = n /\ data'[u].price = offers[n].price
                        \/ /\ offers[n].price \in ToSet(history'[n])
                           /\ OneProcess => Last(history'[n]) = offers[n].price
      BY <1>1, <1>3, <2>2 DEF Explained
    <3>1. \/ \E u \in Tasks : Owes(u) /\ hit[u] = n /\ data[u].price = offers[n].price
          \/ offers[n].price \in ToSet(history[n])
      BY <1>2, <1>6 DEF Explained
    <3>2. ASSUME NEW u \in Tasks, Owes(u), hit[u] = n, data[u].price = offers[n].price
          PROVE  \/ \E v \in Tasks : Owes(v)' /\ hit'[v] = n /\ data'[v].price = offers[n].price
                 \/ offers[n].price = p
      BY <1>p, <3>2
    <3>3. QED
      BY <1>5, <1>9, <3>1, <3>2
  <2>3. QED
    BY <2>1, <2>2
<1>11. QED
  BY <1>1, <1>4, <1>10 DEF PricesOk

LEMMA PricesKept == ShopInv /\ PricesOk /\ [Next]_vars => PricesOk'
<1> SUFFICES ASSUME ShopInv, PricesOk, [Next]_vars PROVE PricesOk'
  OBVIOUS
<1>1. ASSUME NEW t \in Tasks, Start(t) \/ AwaitEnds(t)
      PROVE  PricesOk'
  <2>1. Apart(t) /\ UNCHANGED <<host, offers, history, torn>> /\ at[t] \notin Stored /\ at'[t] \notin Stored
    BY <1>1, AwaitApart DEF Awaiting, Stored, search, tables
  <2>2. QED
    BY <2>1, StepStays
<1>2. ASSUME NEW t \in Tasks, Match(t) \/ InsertProduct(t) \/ RefreshProduct(t) \/ FindOffer(t)
      PROVE  PricesOk'
  <2>1. Apart(t) /\ UNCHANGED <<host, offers, history, torn>> /\ at[t] \notin Stored /\ at'[t] \notin Stored
    BY <1>2, MatchApart, InsertProductApart, RefreshProductApart, FindOfferApart DEF Stored, search, tables
  <2>2. QED
    BY <2>1, StepStays
<1>3. ASSUME NEW t \in Tasks, WriteSevered(t) \/ StatementRaises(t)
      PROVE  PricesOk'
  BY <1>3, WriteSeveredApart, StatementRaisesApart, ForgottenPrices DEF search, tables
<1>4. ASSUME NEW s \in Searches, Close(s)
      PROVE  PricesOk'
  <2>1. UNCHANGED <<host, offers, history, torn, hit, data>>
    BY <1>4 DEF Close, tables
  <2>2. \A u \in Tasks : (at'[u] \in Stored) = (at[u] \in Stored)
    BY <1>4, TaskTyped, PlaceFacts DEF Close
  <2>3. \A u \in Tasks : Owes(u)' = Owes(u)
    BY <2>1, <2>2 DEF Owes
  <2>4. QED
    BY <2>1, <2>3, PricesStay
<1>5. CASE UNCHANGED <<task, host, tables, torn>>
  <2>1. UNCHANGED <<at, hit, data, host, offers, history, torn>>
    BY <1>5 DEF task, tables
  <2>2. \A u \in Tasks : Owes(u)' = Owes(u)
    BY <2>1 DEF Owes
  <2>3. QED
    BY <2>1, <2>2, PricesStay
<1>6. CASE \E s \in Searches : Answer(s) \/ Fail(s) \/ ClientGone(s)
  BY <1>5, <1>6 DEF Answer, Fail, ClientGone
<1>7. CASE AllOver \/ UNCHANGED vars
  BY <1>5, <1>7 DEF AllOver, vars, search
<1>8. QED
  BY <1>1, <1>2, <1>3, <1>4, <1>6, <1>7, InsertOfferPrices, UpdateOfferPrices, RefreshOfferPrices,
     WritePricePrices DEF Next, Persist, RequestEnds

\* A step that tears no offer, keeps the results there are and closes no session again.
LEMMA TornStays ==
  ASSUME ShopInv, TornOk, torn' = torn, faults' = faults \/ Fault,
         \A s \in Searches : outcome[s] = "closed" => outcome'[s] = "closed",
         \A u \in Tasks : result[u] \in {"raised", "illegible"} => result'[u] = result[u]
  PROVE  TornOk'
<1>1. \A s \in Searches : LeftBehind(s) => LeftBehind(s)'
  BY DEF LeftBehind
<1>2. faults > 0 => faults' > 0
  BY DEF Fault, ShopInv, Typed
<1>3. QED
  BY <1>1, <1>2 DEF TornOk

LEMMA TornKept == ShopInv /\ EndedOk /\ TornOk /\ [Next]_vars => TornOk'
<1> SUFFICES ASSUME ShopInv, EndedOk, TornOk, [Next]_vars PROVE TornOk'
  OBVIOUS
<1>o. outcome \in [Searches -> {"running", "answered", "failed", "closed"}]
  BY DEF ShopInv, Typed
<1>1. ASSUME NEW t \in Tasks, Works(t), torn' = torn
      PROVE  TornOk'
  <2>1. Apart(t) /\ at[t] # "over" /\ outcome' = outcome /\ (faults' = faults \/ Fault)
    BY <1>1, WorksApart
  <2>2. \A u \in Tasks : result[u] \in {"raised", "illegible"} => result'[u] = result[u]
    BY <2>1, OverStays
  <2>3. QED
    BY <1>1, <2>1, <2>2, TornStays
<1>2. ASSUME NEW t \in Tasks, Start(t) \/ AwaitEnds(t) PROVE TornOk'
  <2>1. torn' = torn
    BY <1>2, AwaitApart
  <2>2. QED
    BY <1>1, <1>2, <2>1 DEF Works
<1>3. ASSUME NEW t \in Tasks, Match(t) \/ InsertProduct(t) \/ RefreshProduct(t) \/ FindOffer(t)
                              \/ InsertOffer(t) \/ UpdateOffer(t) \/ RefreshOffer(t) \/ WritePrice(t)
      PROVE  TornOk'
  <2>1. torn' = torn
    BY <1>3, MatchApart, InsertProductApart, RefreshProductApart, FindOfferApart, InsertOfferApart,
       UpdateOfferApart, RefreshOfferApart, WritePriceApart
  <2>2. QED
    BY <1>1, <1>3, <2>1 DEF Works, Persist
<1>4. ASSUME NEW t \in Tasks, StatementRaises(t) PROVE TornOk'
  <2>1. Fault
    BY <1>4, StatementRaisesApart
  <2>2. QED
    BY <2>1 DEF TornOk, Fault, ShopInv, Typed
<1>5. ASSUME NEW t \in Tasks, WriteSevered(t) PROVE TornOk'
  <2>1. /\ Apart(t) /\ at[t] \in Severed /\ at[t] # "over" /\ outcome' = outcome /\ t[1] \in Searches
    BY <1>5, WriteSeveredApart, TaskFacts DEF Severed, search
  <2>2. outcome[t[1]] = "closed" /\ LeftBehind(t[1])
    BY <2>1, SeveredLeft
  <2>3. \A u \in Tasks : result[u] \in {"raised", "illegible"} => result'[u] = result[u]
    BY <2>1, OverStays
  <2>4. LeftBehind(t[1])'
    BY <2>2, <2>3 DEF LeftBehind
  <2>5. QED
    BY <2>1, <2>2, <2>4 DEF TornOk
<1>6. ASSUME NEW s \in Searches, Answer(s) \/ Fail(s) \/ ClientGone(s) \/ Close(s) PROVE TornOk'
  <2>1. UNCHANGED <<torn, faults, result>> /\ \E o : outcome' = [outcome EXCEPT ![s] = o]
    BY <1>6 DEF Answer, Fail, ClientGone, Close, task
  <2>2. outcome[s] # "closed" \/ outcome'[s] = "closed"
    BY <1>6 DEF Answer, Fail, ClientGone, Close
  <2>3. QED
    BY <1>o, <2>1, <2>2, TornStays
<1>7. CASE AllOver \/ UNCHANGED vars
  <2>1. UNCHANGED <<torn, faults, result, outcome>>
    BY <1>7 DEF AllOver, vars, task, search
  <2>2. QED
    BY <2>1, TornStays
<1>8. QED
  BY <1>2, <1>3, <1>4, <1>5, <1>6, <1>7 DEF Next, Persist, RequestEnds

\* The price an offer shows is explained by its history, and is the last one there
\* while one process serves every search, unless a task is about to add it or the offer
\* is torn; and an offer is torn only where a statement raised, or where a session was
\* closed under tasks their request had left behind.
THEOREM PricesExplained == Spec => []OfferPriceExplained
<1>1. Init => PricesOk /\ TornOk
  BY TaskFacts DEF Init, PricesOk, Agrees, Owes, Stored, TornOk
<1>2. ShopInv /\ PricesOk /\ TornOk => OfferPriceExplained
  <2> SUFFICES ASSUME ShopInv, PricesOk, TornOk, NEW i \in DOMAIN offers
               PROVE  Explained(i)
    BY DEF OfferPriceExplained, Explained, TornOk
  <2>1. i \in 1 .. Len(offers)
    BY DEF ShopInv, Typed
  <2>2. QED
    BY <2>1 DEF PricesOk
<1>3. QED
  BY <1>1, <1>2, ShopInvariant, PricesKept, EndedInit, EndedKept, TornKept, PTL DEF Spec
-----------------------------------------------------------------------------
(***************************************************************************)
(* ShoppingSearch: one offer per title.                                    *)
(***************************************************************************)
\* A task that is about to insert an offer has found none of its source and title.
Absent(t) ==
  at[t] = "insertOffer" =>
    \A i \in 1 .. Len(offers) : ~(offers[i].source = t[2] /\ offers[i].title = OfferTitle(t))

Distinct ==
  \A i, j \in 1 .. Len(offers) :
    offers[i].source = offers[j].source /\ offers[i].title = offers[j].title => i = j

TitlesOk == OneProcess => Distinct /\ \A t \in Tasks : Absent(t)

LEMMA TitlesStay ==
  ASSUME TitlesOk, UNCHANGED <<host, offers>>,
         \A u \in Tasks : at'[u] = "insertOffer" => at[u] = at'[u] /\ data'[u] = data[u]
  PROVE  TitlesOk'
<1>1. OneProcess' = OneProcess
  BY DEF OneProcess
<1>2. CASE OneProcess
  BY <1>1, <1>2 DEF TitlesOk, Distinct, Absent, OfferTitle
<1>3. QED
  BY <1>1, <1>2 DEF TitlesOk

LEMMA FindOfferTitles ==
  ASSUME ShopInv, TitlesOk, NEW t \in Tasks, FindOffer(t)
  PROVE  TitlesOk'
<1>1. /\ Apart(t) /\ UNCHANGED <<host, offers>> /\ DOMAIN offers = 1 .. Len(offers)
      /\ at'[t] = "insertOffer" =>
           /\ data'[t] = data[t]
           /\ \A i \in DOMAIN offers : ~(offers[i].source = t[2] /\ offers[i].title = OfferTitle(t))
  BY FindOfferApart DEF search, tables, ShopInv, Typed
<1>2. OneProcess' = OneProcess
  BY <1>1 DEF OneProcess
<1>3. Absent(t)'
  BY <1>1 DEF Absent, OfferTitle
<1>4. \A u \in Tasks \ {t} : OneProcess => Absent(u)'
  BY <1>1 DEF TitlesOk, Absent, OfferTitle, Apart
<1>5. QED
  BY <1>1, <1>2, <1>3, <1>4 DEF TitlesOk, Distinct

LEMMA InsertOfferTitles ==
  ASSUME ShopInv, TitlesOk, NEW t \in Tasks, InsertOffer(t)
  PROVE  TitlesOk'
<1> DEFINE name == OfferTitle(t)
           new == [source |-> t[2], title |-> name, product |-> hit[t], price |-> data[t].price]
<1>1. /\ Apart(t) /\ MayRun(t) /\ at[t] = "insertOffer" /\ at'[t] # "insertOffer" /\ host' = host
  BY InsertOfferApart, StoredApart DEF search
<1>2. offers' = Append(offers, new)
  BY InsertOfferApart
<1>3. OneProcess' = OneProcess
  BY <1>1 DEF OneProcess
<1>4. SUFFICES ASSUME OneProcess PROVE Distinct' /\ \A u \in Tasks : Absent(u)'
  BY <1>3 DEF TitlesOk
<1>5. new.source = t[2] /\ new.title = name
  OBVIOUS
<1>6. \A i \in 1 .. Len(offers) : ~(offers[i].source = t[2] /\ offers[i].title = name)
  BY <1>1, <1>4 DEF TitlesOk, Absent
<1> HIDE DEF new, name
<1>7. /\ Len(offers') = Len(offers) + 1 /\ Len(offers) \in Nat /\ offers'[Len(offers) + 1] = new
      /\ \A i \in 1 .. Len(offers) : offers'[i] = offers[i]
  BY <1>2 DEF ShopInv, Typed
<1>8. Distinct'
  <2> SUFFICES ASSUME NEW i \in 1 .. Len(offers'), NEW j \in 1 .. Len(offers'),
                      offers'[i].source = offers'[j].source, offers'[i].title = offers'[j].title
               PROVE  i = j
    BY DEF Distinct
  <2>1. \A k \in 1 .. Len(offers') : k = Len(offers) + 1 \/ k \in 1 .. Len(offers)
    BY <1>7
  <2>2. CASE i \in 1 .. Len(offers) /\ j \in 1 .. Len(offers)
    BY <1>4, <1>7, <2>2 DEF TitlesOk, Distinct
  <2>3. CASE ~(i \in 1 .. Len(offers) /\ j \in 1 .. Len(offers))
    BY <1>5, <1>6, <1>7, <2>1, <2>3
  <2>4. QED
    BY <2>2, <2>3
<1>9. \A u \in Tasks : at'[u] # "insertOffer"
  <2>1. "insertOffer" \in Persisting
    BY DEF Persisting
  <2>2. QED
    BY <1>1, <1>4, <2>1, Alone DEF Apart
<1>10. QED
  BY <1>8, <1>9 DEF Absent

LEMMA UpdateOfferTitles ==
  ASSUME ShopInv, TitlesOk, NEW t \in Tasks, UpdateOffer(t)
  PROVE  TitlesOk'
<1> DEFINE p == data[t].price
           n == hit[t]
<1>1. /\ Apart(t) /\ at'[t] # "insertOffer" /\ host' = host
      /\ offers' = offers \/ offers' = [offers EXCEPT ![n].price = p]
  BY UpdateOfferApart, StoredApart DEF search
<1> HIDE DEF p, n
<1>2. Len(offers') = Len(offers) /\ Len(offers) \in Nat
      /\ \A i \in 1 .. Len(offers) : offers'[i].source = offers[i].source /\ offers'[i].title = offers[i].title
  <2>1. offers \in Seq(Offer) /\ \A i \in 1 .. Len(offers) : offers[i] \in Offer
    BY DEF ShopInv, Typed
  <2>2. CASE offers' = [offers EXCEPT ![n].price = p]
    <3>1. Len(offers') = Len(offers) /\ Len(offers) \in Nat
      BY <2>1, <2>2
    <3>2. \A i \in 1 .. Len(offers) : offers'[i] = offers[i] \/ offers'[i] = [offers[i] EXCEPT !.price = p]
      BY <2>1, <2>2
    <3>3. \A i \in 1 .. Len(offers) : [offers[i] EXCEPT !.price = p].source = offers[i].source
                                      /\ [offers[i] EXCEPT !.price = p].title = offers[i].title
      BY <2>1 DEF Offer
    <3>4. QED
      BY <3>1, <3>2, <3>3
  <2>3. QED
    BY <1>1, <2>1, <2>2
<1>3. OneProcess' = OneProcess
  BY <1>1 DEF OneProcess
<1>4. SUFFICES ASSUME OneProcess PROVE Distinct' /\ \A u \in Tasks : Absent(u)'
  BY <1>3 DEF TitlesOk
<1>5. Distinct'
  BY <1>2, <1>4 DEF TitlesOk, Distinct
<1>6. \A u \in Tasks : Absent(u)'
  <2> TAKE u \in Tasks
  <2>1. CASE u = t
    BY <1>1, <2>1 DEF Absent
  <2>2. CASE u # t
    <3>1. at'[u] = at[u] /\ data'[u] = data[u] /\ Absent(u)
      BY <1>1, <1>4, <2>2 DEF Apart, TitlesOk
    <3>2. QED
      BY <1>2, <3>1 DEF Absent, OfferTitle
  <2>3. QED
    BY <2>1, <2>2
<1>7. QED
  BY <1>5, <1>6

LEMMA TitlesKept == ShopInv /\ TitlesOk /\ [Next]_vars => TitlesOk'
<1> SUFFICES ASSUME ShopInv, TitlesOk, [Next]_vars PROVE TitlesOk'
  OBVIOUS
<1>1. ASSUME NEW t \in Tasks, Apart(t), at'[t] # "insertOffer", UNCHANGED <<host, offers>>
      PROVE  TitlesOk'
  BY <1>1, TitlesStay DEF Apart
<1>2. ASSUME NEW t \in Tasks, Start(t) \/ AwaitEnds(t)
      PROVE  TitlesOk'
  <2>1. /\ Apart(t) /\ at'[t] # "insertOffer" /\ UNCHANGED <<host, offers>>
    BY <1>2, AwaitApart DEF Awaiting, search, tables
  <2>2. QED
    BY <1>1, <2>1
<1>3. ASSUME NEW t \in Tasks, Match(t) \/ InsertProduct(t) \/ RefreshProduct(t) \/ RefreshOffer(t)
      PROVE  TitlesOk'
  <2>1. /\ Apart(t) /\ at'[t] # "insertOffer" /\ UNCHANGED <<host, offers>>
    BY <1>3, MatchApart, InsertProductApart, RefreshProductApart, RefreshOfferApart DEF search, tables
  <2>2. QED
    BY <1>1, <2>1
<1>4. ASSUME NEW t \in Tasks, WritePrice(t) \/ WriteSevered(t) \/ StatementRaises(t)
      PROVE  TitlesOk'
  <2>1. /\ Apart(t) /\ at'[t] # "insertOffer" /\ UNCHANGED <<host, offers>>
    BY <1>4, WritePriceApart, WriteSeveredApart, StatementRaisesApart DEF search, tables
  <2>2. QED
    BY <1>1, <2>1
<1>5. ASSUME NEW t \in Tasks, FindOffer(t) \/ InsertOffer(t) \/ UpdateOffer(t)
      PROVE  TitlesOk'
  BY <1>5, FindOfferTitles, InsertOfferTitles, UpdateOfferTitles
<1>6. ASSUME NEW s \in Searches, Close(s)
      PROVE  TitlesOk'
  <2>1. /\ UNCHANGED <<host, offers, data>>
        /\ \A u \in Tasks : at'[u] = "insertOffer" => at[u] = at'[u]
    BY <1>6, TaskTyped, PlaceFacts DEF Close, tables, Severed
  <2>2. QED
    BY <2>1, TitlesStay
<1>7. CASE UNCHANGED <<task, host, tables>>
  BY <1>7, TitlesStay DEF task, tables
<1>8. CASE \E s \in Searches : Answer(s) \/ Fail(s) \/ ClientGone(s)
  BY <1>7, <1>8 DEF Answer, Fail, ClientGone
<1>9. CASE AllOver \/ UNCHANGED vars
  BY <1>7, <1>9 DEF AllOver, vars, search
<1>10. QED
  BY <1>2, <1>3, <1>4, <1>5, <1>6, <1>8, <1>9 DEF Next, Persist, RequestEnds

\* While one process serves every search, no two offers of a source have the same
\* title, however many searches find the same things at once.
THEOREM TitlesOnce == Spec => []OneOfferPerTitle
<1>1. Init => TitlesOk
  BY DEF Init, TitlesOk, Distinct, Absent
<1>2. ShopInv /\ TitlesOk => OneOfferPerTitle
  <2>1. ShopInv => DOMAIN offers = 1 .. Len(offers)
    BY DEF ShopInv, Typed
  <2>2. QED
    BY <2>1 DEF TitlesOk, Distinct, OneOfferPerTitle
<1>3. QED
  BY <1>1, <1>2, ShopInvariant, TitlesKept, PTL DEF Spec
-----------------------------------------------------------------------------
(***************************************************************************)
(* ShoppingSearch: what fails a request.                                   *)
(***************************************************************************)
Calm == OneProcess /\ faults = 0

\* The product a task is about to insert is not there.
NewTitle(t) == at[t] = "insert" => Title(t) \notin ToSet(products)

\* The client of the search may have left, or a task of it met a price or a rating that
\* is no number.
Excused(s) == s \in Streams \/ \E t \in Tasks : t[1] = s /\ result[t] = "illegible"

\* Tasks raise where their request had ended for such a cause.
TaskCalm(t) ==
  /\ result[t] = "raised" => outcome[t[1]] \in {"failed", "closed"} /\ Excused(t[1])
  /\ NewTitle(t)

CalmOk == Calm => (\A s \in Searches : session[s] = "ok") /\ (\A t \in Tasks : TaskCalm(t))

\* A task that was left behind is so for one of the causes.
LEMMA LeftExcused ==
  ASSUME CalmOk, Calm, NEW s \in Searches, LeftBehind(s)
  PROVE  Excused(s)
BY DEF CalmOk, TaskCalm, Excused, LeftBehind

\* A step of a task that breaks no session, and does not raise unless its session was
\* closed before it.
LEMMA CalmStep ==
  ASSUME ShopInv, EndedOk, CalmOk, NEW t \in Tasks, Works(t),
         Calm => /\ UNCHANGED session \/ Fault
                 /\ result'[t] = "raised" =>
                      \/ Fault
                      \/ result[t] = "raised" \/ Broken(t) \/ Unreadable(t) \/ at[t] \in Severed,
         at'[t] = "insert" => Title(t)' = Title(t) /\ Title(t) \notin ToSet(products'),
         at[t] \in Persisting \/ UNCHANGED products
  PROVE  CalmOk'
<1>0. /\ Apart(t) /\ MayRun(t) /\ at[t] # "over" /\ UNCHANGED <<host, outcome>>
      /\ UNCHANGED faults \/ Fault
  BY WorksApart
<1> SUFFICES ASSUME Calm'
             PROVE  (\A s \in Searches : session'[s] = "ok") /\ (\A u \in Tasks : TaskCalm(u)')
  BY DEF CalmOk
<1>1. faults' = faults /\ ~Fault /\ Calm
  <2>1. faults \in Nat /\ OneProcess
    BY <1>0 DEF Calm, OneProcess, ShopInv, Typed
  <2>2. QED
    BY <1>0, <2>1 DEF Calm, Fault
<1>2. (\A s \in Searches : session[s] = "ok") /\ (\A u \in Tasks : TaskCalm(u))
  BY <1>1 DEF CalmOk
<1>3. session' = session /\ outcome' = outcome
  BY <1>0, <1>1
<1>4. \A u \in Tasks \ {t} : at'[u] = at[u] /\ data'[u] = data[u] /\ result'[u] = result[u]
  BY <1>0 DEF Apart
<1>5. result[t] = "none"
  BY <1>0, TaskTyped DEF TaskOk, Endings
<1>6. \A s : Excused(s) => Excused(s)'
  BY <1>4, <1>5 DEF Excused
<1>7. ASSUME NEW u \in Tasks, result'[u] = "raised"
      PROVE  outcome'[u[1]] \in {"failed", "closed"} /\ Excused(u[1])'
  <2>1. CASE u # t
    <3>1. result[u] = "raised"
      BY <1>4, <1>7, <2>1
    <3>2. outcome[u[1]] \in {"failed", "closed"} /\ Excused(u[1])
      BY <1>2, <3>1 DEF TaskCalm
    <3>3. QED
      BY <1>3, <1>6, <3>2
  <2>2. CASE u = t
    <3>1. Unreadable(t) \/ at[t] \in Severed
      BY <1>1, <1>2, <1>5, <1>7, <2>2, TaskFacts DEF Broken
    <3>2. outcome[t[1]] = "closed" /\ LeftBehind(t[1])
      BY <1>0, <3>1, SeveredLeft DEF Unreadable
    <3>3. Excused(t[1])
      BY <1>1, <3>2, LeftExcused, TaskFacts
    <3>4. QED
      BY <1>3, <1>6, <2>2, <3>2, <3>3
  <2>3. QED
    BY <2>1, <2>2
<1>8. ASSUME NEW u \in Tasks PROVE NewTitle(u)'
  <2>1. CASE u = t
    BY <2>1 DEF NewTitle
  <2>2. CASE u # t
    <3>1. CASE at[t] \in Persisting
      <4>1. at[u] \notin Persisting
        BY <1>0, <1>1, <2>2, Alone DEF Calm
      <4>2. QED
        BY <1>4, <2>2, <4>1 DEF NewTitle, Persisting
    <3>2. CASE UNCHANGED products
      <4>1. NewTitle(u)
        BY <1>2 DEF TaskCalm
      <4>2. QED
        BY <1>4, <2>2, <3>2, <4>1 DEF NewTitle, Title
    <3>3. QED
      BY <3>1, <3>2
  <2>3. QED
    BY <2>1, <2>2
<1>9. QED
  BY <1>2, <1>3, <1>7, <1>8 DEF TaskCalm

LEMMA AwaitCalm ==
  ASSUME ShopInv, EndedOk, CalmOk, NEW t \in Tasks, Start(t) \/ AwaitEnds(t)
  PROVE  CalmOk'
<1>1. /\ at'[t] # "insert" /\ UNCHANGED session /\ UNCHANGED products
      /\ result'[t] = "raised" /\ result[t] # "raised" => Fault \/ Broken(t) \/ Unreadable(t)
  BY AwaitApart DEF Awaiting, search, tables
<1>2. Works(t)
  BY DEF Works
<1>3. QED
  BY <1>1, <1>2, CalmStep

LEMMA MatchCalm ==
  ASSUME ShopInv, EndedOk, CalmOk, NEW t \in Tasks, Match(t)
  PROVE  CalmOk'
<1>1. /\ at[t] = "match" /\ UNCHANGED <<session, products>>
      /\ result'[t] = "raised" /\ result[t] # "raised" => Broken(t)
      /\ at'[t] = "insert" => data'[t] = data[t] /\ \A i \in DOMAIN products : products[i] # Title(t)
  BY MatchApart DEF search, tables
<1>2. at'[t] = "insert" => Title(t)' = Title(t) /\ Title(t) \notin ToSet(products')
  BY <1>1 DEF Title, ToSet
<1>3. Works(t)
  BY DEF Works, Persist
<1>4. QED
  BY <1>1, <1>2, <1>3, CalmStep

LEMMA InsertProductCalm ==
  ASSUME ShopInv, EndedOk, CalmOk, NEW t \in Tasks, InsertProduct(t)
  PROVE  CalmOk'
<1>1. /\ at[t] = "insert" /\ at'[t] # "insert" /\ at[t] \in Persisting
      /\ \/ UNCHANGED session /\ result'[t] = result[t]
         \/ Title(t) \in ToSet(products)
  BY InsertProductApart DEF Persisting
<1>2. Calm => Title(t) \notin ToSet(products)
  BY <1>1 DEF CalmOk, TaskCalm, NewTitle
<1>3. Works(t)
  BY DEF Works, Persist
<1>4. QED
  BY <1>1, <1>2, <1>3, CalmStep

LEMMA FindOfferCalm ==
  ASSUME ShopInv, EndedOk, CalmOk, NEW t \in Tasks, FindOffer(t)
  PROVE  CalmOk'
<1>1. /\ at'[t] # "insert" /\ UNCHANGED <<session, products>>
      /\ result'[t] = "raised" /\ result[t] # "raised" => Unreadable(t)
  BY FindOfferApart DEF search, tables
<1>2. Works(t)
  BY DEF Works, Persist
<1>3. QED
  BY <1>1, <1>2, CalmStep

\* The steps between the look-up of the offer and the end, as long as no statement raises.
LEMMA StoreCalm ==
  ASSUME ShopInv, EndedOk, CalmOk, NEW t \in Tasks,
         RefreshProduct(t) \/ InsertOffer(t) \/ UpdateOffer(t) \/ RefreshOffer(t) \/ WritePrice(t)
  PROVE  CalmOk'
<1>1. Works(t)
  BY DEF Works, Persist
<1>2. CASE InsertOffer(t) \/ UpdateOffer(t)
  <2>1. \E i : OfferStored(t, i)
    BY <1>2 DEF InsertOffer, UpdateOffer
  <2>2. /\ at'[t] # "insert" /\ UNCHANGED <<session, products>> /\ result'[t] = result[t]
    BY <2>1, StoredApart DEF search
  <2>3. QED
    BY <1>1, <2>2, CalmStep
<1>3. CASE RefreshProduct(t) \/ RefreshOffer(t) \/ WritePrice(t)
  <2>1. /\ at'[t] # "insert" /\ UNCHANGED <<session, products>>
        /\ result'[t] \in {result[t], "returned"}
    BY <1>3, RefreshProductApart, RefreshOfferApart, WritePriceApart DEF search, tables
  <2>2. QED
    BY <1>1, <2>1, CalmStep
<1>4. QED
  BY <1>2, <1>3

LEMMA RaiseCalm ==
  ASSUME ShopInv, EndedOk, CalmOk, NEW t \in Tasks, WriteSevered(t) \/ StatementRaises(t)
  PROVE  CalmOk'
<1>1. Works(t)
  BY DEF Works, Persist
<1>2. CASE WriteSevered(t)
  <2>1. at[t] \in Severed /\ at'[t] # "insert" /\ UNCHANGED <<session, products>>
    BY <1>2, WriteSeveredApart DEF search, tables
  <2>2. QED
    BY <1>1, <2>1, CalmStep
<1>3. CASE StatementRaises(t)
  <2>1. Fault /\ at'[t] # "insert" /\ UNCHANGED products
    BY <1>3, StatementRaisesApart
  <2>2. QED
    BY <1>1, <2>1, CalmStep
<1>4. QED
  BY <1>2, <1>3

\* A request that ends, or whose session is closed, moves no task to an insertion and
\* makes none raise.
LEMMA RequestCalm ==
  ASSUME ShopInv, CalmOk, NEW s \in Searches, Answer(s) \/ Fail(s) \/ ClientGone(s) \/ Close(s)
  PROVE  CalmOk'
<1>1. /\ UNCHANGED <<host, faults, data, result, products>>
      /\ session' = session \/ session' = [session EXCEPT ![s] = "ok"]
  BY DEF Answer, Fail, ClientGone, Close, task, tables
<1>2. \A t \in Tasks : at'[t] = "insert" => at[t] = "insert"
  <2>1. CASE Answer(s) \/ Fail(s) \/ ClientGone(s)
    BY <2>1 DEF Answer, Fail, ClientGone, task
  <2>2. CASE Close(s)
    BY <2>2, TaskTyped, PlaceFacts DEF Close, Severed
  <2>3. QED
    BY <2>1, <2>2
<1>3. SUFFICES ASSUME Calm PROVE (\A r \in Searches : session'[r] = "ok") /\ (\A t \in Tasks : TaskCalm(t)')
  BY <1>1 DEF CalmOk, Calm, OneProcess
<1>4. (\A r \in Searches : session[r] = "ok") /\ (\A t \in Tasks : TaskCalm(t))
  BY <1>3 DEF CalmOk
<1>5. session \in [Searches -> {"ok", "broken"}] /\ outcome \in [Searches -> {"running", "answered", "failed", "closed"}]
  BY DEF ShopInv, Typed
<1>6. \A r \in Searches : outcome[r] \in {"failed", "closed"} => outcome'[r] \in {"failed", "closed"}
  BY <1>5 DEF Answer, Fail, ClientGone, Close
<1>7. ASSUME NEW t \in Tasks PROVE TaskCalm(t)'
  <2>1. TaskCalm(t) /\ t[1] \in Searches
    BY <1>4, TaskFacts
  <2>2. Excused(t[1])' = Excused(t[1])
    BY <1>1 DEF Excused
  <2>3. NewTitle(t)'
    BY <1>1, <1>2, <2>1 DEF TaskCalm, NewTitle, Title
  <2>4. QED
    BY <1>1, <1>6, <2>1, <2>2, <2>3 DEF TaskCalm
<1>8. QED
  BY <1>1, <1>4, <1>5, <1>7

LEMMA CalmKept == ShopInv /\ EndedOk /\ CalmOk /\ [Next]_vars => CalmOk'
<1> SUFFICES ASSUME ShopInv, EndedOk, CalmOk, [Next]_vars PROVE CalmOk'
  OBVIOUS
<1>1. ASSUME NEW t \in Tasks, Start(t) \/ AwaitEnds(t)
      PROVE  CalmOk'
  BY <1>1, AwaitCalm
<1>2. ASSUME NEW t \in Tasks, Persist(t)
      PROVE  CalmOk'
  BY <1>2, MatchCalm, InsertProductCalm, FindOfferCalm, StoreCalm, RaiseCalm DEF Persist
<1>3. ASSUME NEW s \in Searches, RequestEnds(s) \/ ClientGone(s)
      PROVE  CalmOk'
  BY <1>3, RequestCalm DEF RequestEnds
<1>4. CASE AllOver \/ UNCHANGED vars
  <2>1. UNCHANGED vars
    BY <1>4 DEF AllOver
  <2>2. QED
    BY <2>1 DEF vars, task, search, tables, CalmOk, Calm, OneProcess, Excused, TaskCalm, NewTitle, Title
<1>5. QED
  BY <1>1, <1>2, <1>3, <1>4 DEF Next

\* While one process serves every search and nothing it calls raises, no task raises
\* unless its request had ended: its client had left, or a task of it met a price or a
\* rating that is no number.
THEOREM FaultsFailAlone == Spec => []OnlyFaultsFail
<1>1. Init => CalmOk
  BY DEF Init, CalmOk, TaskCalm, NewTitle
<1>2. CalmOk => OnlyFaultsFail
  BY DEF CalmOk, Calm, TaskCalm, Excused, OnlyFaultsFail
<1>3. QED
  BY <1>1, <1>2, ShopInvariant, EndedInit, EndedKept, CalmKept, PTL DEF Spec
-----------------------------------------------------------------------------
(***************************************************************************)
(* ShoppingSearch implements ShopCatalogue.                                *)
(***************************************************************************)
\* The offer a task is about to change is one of its own source.
OwnOffers == \A t \in Tasks : at[t] = "updateOffer" => offers[hit[t]].source = t[2]

\* No row of the table changes its source.
SameSources == \A i \in 1 .. Len(offers) : offers'[i].source = offers[i].source

LEMMA OwnStays ==
  ASSUME ShopInv, OwnOffers, SameSources,
         \A u \in Tasks : at'[u] = "updateOffer" => at[u] = "updateOffer" /\ hit'[u] = hit[u]
  PROVE  OwnOffers'
<1>1. ASSUME NEW u \in Tasks, at'[u] = "updateOffer" PROVE offers'[hit'[u]].source = u[2]
  <2>1. at[u] = "updateOffer" /\ hit'[u] = hit[u] /\ hit[u] \in 1 .. Len(offers)
    BY <1>1, TaskTyped DEF TaskOk
  <2>2. QED
    BY <2>1 DEF OwnOffers, SameSources
<1>2. QED
  BY <1>1 DEF OwnOffers

LEMMA FindOfferOwn ==
  ASSUME ShopInv, OwnOffers, NEW t \in Tasks, FindOffer(t)
  PROVE  OwnOffers'
<1>1. /\ Apart(t) /\ offers' = offers
  BY FindOfferApart DEF tables
<1>2. at'[t] = "updateOffer" => offers[hit'[t]].source = t[2]
  <2>1. CASE Ends(t, "raised", source) \/ Ends(t, "illegible", Reload(source, t))
    BY <2>1 DEF Ends, ShopInv, Typed
  <2>2. CASE at' = [at EXCEPT ![t] = "insertOffer"]
    BY <2>2 DEF ShopInv, Typed
  <2>3. ASSUME NEW i \in DOMAIN offers, offers[i].source = t[2], hit' = [hit EXCEPT ![t] = i]
        PROVE  offers[hit'[t]].source = t[2]
    BY <2>3 DEF ShopInv, Typed
  <2>4. QED
    BY <2>1, <2>2, <2>3 DEF FindOffer
<1>3. \A u \in Tasks \ {t} : at'[u] = at[u] /\ hit'[u] = hit[u]
  BY <1>1 DEF Apart
<1>4. QED
  BY <1>1, <1>2, <1>3 DEF OwnOffers

\* What a task does to the table of offers.
LEMMA OffersChange ==
  ASSUME ShopInv, NEW t \in Tasks, InsertOffer(t) \/ UpdateOffer(t)
  PROVE  Apart(t) /\ at'[t] = "refresh" /\ SameSources
<1>1. offers \in Seq(Offer) /\ Len(offers) \in Nat
  BY DEF ShopInv, Typed
<1>2. Apart(t) /\ at'[t] = "refresh"
  <2>1. \E i : OfferStored(t, i)
    BY DEF InsertOffer, UpdateOffer
  <2>2. QED
    BY <2>1, StoredApart
<1>3. CASE InsertOffer(t)
  <2> DEFINE row == [source |-> t[2], title |-> OfferTitle(t), product |-> hit[t], price |-> data[t].price]
  <2>1. offers' = Append(offers, row)
    BY <1>3, InsertOfferApart
  <2> HIDE DEF row
  <2>2. \A i \in 1 .. Len(offers) : offers'[i] = offers[i]
    BY <1>1, <2>1
  <2>3. QED
    BY <1>2, <2>2 DEF SameSources
<1>4. CASE UpdateOffer(t)
  <2> DEFINE p == data[t].price
             n == hit[t]
  <2>1. offers' = offers \/ offers' = [offers EXCEPT ![n].price = p]
    BY <1>4, UpdateOfferApart
  <2> HIDE DEF p, n
  <2>2. ASSUME NEW i \in 1 .. Len(offers) PROVE offers'[i].source = offers[i].source
    <3>1. offers[i] \in Offer /\ DOMAIN offers = 1 .. Len(offers)
      BY <1>1
    <3>2. offers'[i] = offers[i] \/ offers'[i] = [offers[i] EXCEPT !.price = p]
      BY <2>1, <3>1
    <3>3. QED
      BY <3>1, <3>2 DEF Offer
  <2>3. QED
    BY <1>2, <2>2 DEF SameSources
<1>5. QED
  BY <1>3, <1>4

LEMMA OwnKept == ShopInv /\ OwnOffers /\ [Next]_vars => OwnOffers'
<1> SUFFICES ASSUME ShopInv, OwnOffers, [Next]_vars PROVE OwnOffers'
  OBVIOUS
<1>1. ASSUME NEW t \in Tasks, Apart(t), at'[t] # "updateOffer", SameSources
      PROVE  OwnOffers'
  BY <1>1, OwnStays DEF Apart
<1>2. UNCHANGED offers => SameSources
  BY DEF SameSources
<1>3. ASSUME NEW t \in Tasks, Start(t) \/ AwaitEnds(t)
      PROVE  OwnOffers'
  BY <1>1, <1>2, <1>3, AwaitApart DEF Awaiting, tables
<1>4. ASSUME NEW t \in Tasks, Match(t) \/ InsertProduct(t) \/ RefreshProduct(t) \/ RefreshOffer(t)
      PROVE  OwnOffers'
  <2>1. Apart(t) /\ at'[t] # "updateOffer" /\ offers' = offers
    BY <1>4, MatchApart, InsertProductApart, RefreshProductApart, RefreshOfferApart DEF tables
  <2>2. QED
    BY <1>1, <1>2, <2>1
<1>5. ASSUME NEW t \in Tasks, WritePrice(t) \/ WriteSevered(t) \/ StatementRaises(t)
      PROVE  OwnOffers'
  <2>1. Apart(t) /\ at'[t] # "updateOffer" /\ offers' = offers
    BY <1>5, WritePriceApart, WriteSeveredApart, StatementRaisesApart DEF tables
  <2>2. QED
    BY <1>1, <1>2, <2>1
<1>6. ASSUME NEW t \in Tasks, InsertOffer(t) \/ UpdateOffer(t)
      PROVE  OwnOffers'
  BY <1>1, <1>6, OffersChange
<1>7. ASSUME NEW s \in Searches, Close(s)
      PROVE  OwnOffers'
  <2>1. /\ offers' = offers /\ hit' = hit
        /\ \A u \in Tasks : at'[u] = "updateOffer" => at[u] = "updateOffer"
    BY <1>7, TaskTyped, PlaceFacts DEF Close, tables, Severed
  <2>2. QED
    BY <1>2, <2>1, OwnStays
<1>8. CASE UNCHANGED <<at, hit, offers>>
  BY <1>2, <1>8, OwnStays
<1>9. CASE \E s \in Searches : Answer(s) \/ Fail(s) \/ ClientGone(s)
  BY <1>8, <1>9 DEF Answer, Fail, ClientGone, task, tables
<1>10. CASE AllOver \/ UNCHANGED vars
  BY <1>8, <1>10 DEF AllOver, vars, task, tables
<1>11. QED
  BY <1>3, <1>4, <1>5, <1>6, <1>7, <1>9, <1>10, FindOfferOwn DEF Next, Persist, RequestEnds
-----------------------------------------------------------------------------
Owing(i, p) == [offer |-> i, price |-> p]

\* A task owes something exactly between the commit of its offer and that of the price.
LEMMA OwedIs ==
  ASSUME NEW t \in Tasks
  PROVE  /\ Owes(t) => Owed[t] = Owing(hit[t], data[t].price) /\ Owed[t] # Catalogue!Nothing
         /\ ~Owes(t) => Owed[t] = Catalogue!Nothing
<1>1. Owes(t) => data[t].price # NoPrice
  BY DEF Owes
<1>2. QED
  BY <1>1 DEF Owed, Owing, Catalogue!Nothing

\* What a task owes is the price it wrote, to the offer it wrote it in.
LEMMA DebtOf ==
  ASSUME NEW t \in Tasks, Owes(t)
  PROVE  Owed[t] # Catalogue!Nothing /\ Owed[t].offer = hit[t] /\ Owed[t].price = data[t].price
<1>1. Owed[t] # Catalogue!Nothing /\ Owed[t] = Owing(hit[t], data[t].price)
  BY OwedIs
<1>2. \A i, p : Owing(i, p).offer = i /\ Owing(i, p).price = p
  BY DEF Owing
<1>3. QED
  BY <1>1, <1>2

\* A step of a task changes its own debt only.
LEMMA OwedMoves ==
  ASSUME NEW t \in Tasks, Apart(t)
  PROVE  Owed' = [Owed EXCEPT ![t] = IF Owes(t)' THEN Owing(hit'[t], data'[t].price)
                                     ELSE Catalogue!Nothing]
<1>1. \A u \in Tasks \ {t} : Owes(u)' = Owes(u) /\ data'[u] = data[u] /\ hit'[u] = hit[u]
  BY DebtsStay
<1>2. QED
  BY <1>1 DEF Owed, Owing, Catalogue!Nothing

LEMMA DebtEnds ==
  ASSUME NEW t \in Tasks, Owed[t] # Catalogue!Nothing,
         Owed' = [Owed EXCEPT ![t] = Catalogue!Nothing]
  PROVE  Owed' # Owed
<1>1. t \in DOMAIN Owed
  BY DEF Owed
<1>2. Owed'[t] = Catalogue!Nothing
  BY <1>1
<1>3. QED
  BY <1>2

\* Debts that are the same are owed alike.
LEMMA OwedStays ==
  ASSUME \A u \in Tasks : Owes(u)' = Owes(u) /\ (Owes(u) => hit'[u] = hit[u] /\ data'[u] = data[u])
  PROVE  Owed' = Owed
BY DEF Owed

Still == UNCHANGED <<products, offers, history, torn>> /\ Owed' = Owed

LEMMA StillRefines == ASSUME Still PROVE UNCHANGED Catalogue!vars
BY DEF Still, Catalogue!vars

\* A step that begins no debt and ends none.
LEMMA OwedKept ==
  ASSUME NEW t \in Tasks, Apart(t), at[t] \notin Stored, at'[t] \notin Stored
  PROVE  Owed' = Owed
<1>1. Owes(t)' = Owes(t) /\ ~Owes(t)
  BY DEF Owes
<1>2. \A u \in Tasks : Owes(u)' = Owes(u) /\ (Owes(u) => hit'[u] = hit[u] /\ data'[u] = data[u])
  BY <1>1, DebtsStay
<1>3. QED
  BY <1>2, OwedStays

LEMMA LastRow ==
  ASSUME NEW S, NEW q \in Seq(S), NEW x \in S
  PROVE  /\ Len(Append(q, x)) > Len(q) /\ Catalogue!Last(Append(q, x)) = x
         /\ Len(Append(q, x)) = Len(q) + 1
BY DEF Catalogue!Last

\* The product of a task is new, or there was one like it already.
LEMMA InsertProductRefines ==
  ASSUME ShopInv, NEW t \in Tasks, InsertProduct(t)
  PROVE  Catalogue!Next \/ Still
<1>1. /\ Apart(t) /\ at[t] = "insert" /\ at'[t] \in {"over", "refreshProduct"}
      /\ UNCHANGED <<offers, history, torn>>
  BY InsertProductApart
<1>2. Owed' = Owed
  BY <1>1, OwedKept DEF Stored
<1>3. CASE products' = products
  BY <1>1, <1>2, <1>3 DEF Still
<1>4. CASE /\ products' = Append(products, Title(t))
           /\ Title(t) = NoText \/ Title(t) \notin ToSet(products)
  <2>1. products \in Seq(TitleSet) /\ Title(t) \in TitleSet
    <3>1. at[t] \in Persisting
      BY <1>1 DEF Persisting
    <3>2. Title(t) \in TitleSet
      BY <3>1, TitleTyped
    <3>3. QED
      BY <3>2 DEF ShopInv, Typed
  <2>2. Len(products') > Len(products) /\ Catalogue!Last(products') = Title(t)
    BY <1>4, <2>1, LastRow
  <2>3. Catalogue!AddProduct(Catalogue!Last(products'))
    BY <1>1, <1>2, <1>4, <2>2 DEF Catalogue!AddProduct, Catalogue!ToSet, ToSet
  <2>4. QED
    BY <2>2, <2>3 DEF Catalogue!Next
<1>5. QED
  BY <1>3, <1>4 DEF InsertProduct, Breaks, tables

\* From the commit of its offer a task owes the price it wrote.
LEMMA StoredOwes ==
  ASSUME ShopInv, NEW t \in Tasks, at[t] \notin Stored, NEW i, OfferStored(t, i)
  PROVE  /\ Catalogue!Owes(t, i, data[t].price)
         /\ data[t].price # NoPrice => Owed'[t] = Owing(i, data[t].price)
         /\ data[t].price = NoPrice => Owed' = Owed
<1>1. Apart(t) /\ Owes(t)' = (data[t].price # NoPrice) /\ hit'[t] = i /\ data'[t] = data[t]
  BY StoredOwing
<1>2. Owed' = [Owed EXCEPT ![t] = IF data[t].price = NoPrice THEN Catalogue!Nothing
                                  ELSE Owing(i, data[t].price)]
  BY <1>1, OwedMoves
<1>3. Owed[t] = Catalogue!Nothing
  <2>1. ~Owes(t)
    BY DEF Owes
  <2>2. QED
    BY <2>1, OwedIs
<1>4. Owed = [u \in Tasks |-> Owed[u]]
  BY DEF Owed
<1>5. QED
  BY <1>2, <1>3, <1>4 DEF Catalogue!Owes, Owing

LEMMA InsertOfferRefines ==
  ASSUME ShopInv, NEW t \in Tasks, InsertOffer(t)
  PROVE  Catalogue!Next
<1> DEFINE row == [source |-> t[2], title |-> OfferTitle(t), product |-> hit[t], price |-> data[t].price]
<1>1. /\ at[t] = "insertOffer" /\ UNCHANGED <<products, torn>>
      /\ offers' = Append(offers, row) /\ history' = Append(history, <<>>)
      /\ OfferStored(t, Len(offers) + 1)
  BY InsertOfferApart
<1>2. hit[t] \in DOMAIN products
  BY <1>1, TaskTyped DEF TaskOk, ShopInv, Typed
<1>3. row.source = t[2] /\ row.product \in DOMAIN products /\ row.price = data[t].price
  BY <1>2
<1>4. Catalogue!Owes(t, Len(offers) + 1, row.price)
  <2>1. at[t] \notin Stored
    BY <1>1 DEF Stored
  <2>2. Catalogue!Owes(t, Len(offers) + 1, data[t].price)
    BY <1>1, <2>1, StoredOwes
  <2>3. QED
    BY <1>3, <2>2
<1>5. row \in Offer /\ offers \in Seq(Offer)
  <2>1. at[t] \in Persisting /\ at[t] \in Priced
    BY <1>1 DEF Persisting, Priced
  <2>2. /\ t[2] \in Retailers /\ hit[t] \in Nat
        /\ data[t].price \in Nat /\ OfferTitle(t) \in Names \cup {"Unknown"}
    BY <2>1, TitleTyped, TaskTyped, TaskFacts
  <2>3. QED
    BY <2>2 DEF Offer, ShopInv, Typed
<1> HIDE DEF row
<1>6. Len(offers') > Len(offers) /\ Catalogue!Last(offers') = row
  BY <1>1, <1>5, LastRow
<1>7. Catalogue!AddOffer(t, row)
  BY <1>1, <1>3, <1>4 DEF Catalogue!AddOffer
<1>8. QED
  BY <1>6, <1>7 DEF Catalogue!Next

LEMMA UpdateOfferRefines ==
  ASSUME ShopInv, OwnOffers, NEW t \in Tasks, UpdateOffer(t)
  PROVE  Catalogue!Next \/ Still
<1> DEFINE p == data[t].price
           n == hit[t]
<1>1. /\ at[t] = "updateOffer" /\ UNCHANGED <<products, history, torn>>
      /\ offers' = IF p = NoPrice THEN offers ELSE [offers EXCEPT ![n].price = p]
      /\ OfferStored(t, n) /\ at[t] \notin Stored
  BY UpdateOfferApart DEF Stored
<1>2. CASE p = NoPrice
  <2>1. Owed' = Owed
    BY <1>1, <1>2, StoredOwes
  <2>2. QED
    BY <1>1, <1>2, <2>1 DEF Still
<1>3. CASE p # NoPrice
  <2>1. n \in DOMAIN offers /\ offers[n].source = t[2]
    BY <1>1, TaskTyped DEF TaskOk, ShopInv, Typed, OwnOffers
  <2>2. Catalogue!Owes(t, n, p) /\ Owed'[t] = Owing(n, p)
    BY <1>1, <1>3, StoredOwes
  <2> HIDE DEF p, n
  <2>3. Owed'[t].offer = n /\ Owed'[t].price = p
    BY <2>2 DEF Owing
  <2>4. Catalogue!SetPrice(t, n, p)
    BY <1>1, <1>3, <2>1, <2>2 DEF Catalogue!SetPrice
  <2>5. Catalogue!SetPrice(t, Owed'[t].offer, Owed'[t].price)
    BY <2>3, <2>4
  <2>6. Owed'[t] # Owed[t]
    <3>1. Owed[t] = Catalogue!Nothing
      BY <2>2 DEF Catalogue!Owes
    <3>2. Catalogue!Nothing.price = NoPrice
      BY DEF Catalogue!Nothing
    <3>3. QED
      BY <1>3, <2>3, <3>1, <3>2
  <2>7. Owed' # Owed
    BY <2>6
  <2>8. QED
    BY <2>5, <2>7 DEF Catalogue!Next
<1>4. QED
  BY <1>2, <1>3

LEMMA RefreshOfferRefines ==
  ASSUME ShopInv, NEW t \in Tasks, RefreshOffer(t)
  PROVE  Still
<1>1. /\ Apart(t) /\ at[t] = "refresh" /\ UNCHANGED <<products, offers, history, torn>>
      /\ IF data[t].price = NoPrice THEN at'[t] = "over"
         ELSE at'[t] = "price" /\ hit'[t] = hit[t] /\ data'[t] = data[t]
  BY RefreshOfferApart DEF tables
<1>2. Owes(t)' = Owes(t) /\ (Owes(t) => hit'[t] = hit[t] /\ data'[t] = data[t])
  BY <1>1 DEF Owes, Stored
<1>3. \A u \in Tasks : Owes(u)' = Owes(u) /\ (Owes(u) => hit'[u] = hit[u] /\ data'[u] = data[u])
  BY <1>1, <1>2, DebtsStay
<1>4. QED
  BY <1>1, <1>3, OwedStays DEF Still

LEMMA WritePriceRefines ==
  ASSUME ShopInv, NEW t \in Tasks, WritePrice(t)
  PROVE  Catalogue!Next
<1>1. /\ Apart(t) /\ at[t] = "price" /\ at'[t] = "over" /\ UNCHANGED <<products, offers, torn>>
      /\ history' = [history EXCEPT ![hit[t]] = Append(@, data[t].price)]
  BY WritePriceApart
<1>2. Owes(t) /\ ~Owes(t)'
  BY <1>1, TaskTyped DEF Owes, Stored, TaskOk
<1>3. Owed[t] # Catalogue!Nothing /\ Owed[t].offer = hit[t] /\ Owed[t].price = data[t].price
  BY <1>2, DebtOf
<1>4. Owed' = [Owed EXCEPT ![t] = Catalogue!Nothing]
  BY <1>1, <1>2, OwedMoves
<1>5. Catalogue!Pay(t)
  BY <1>1, <1>3, <1>4 DEF Catalogue!Pay
<1>6. Owed' # Owed
  BY <1>3, <1>4, DebtEnds
<1>7. QED
  BY <1>5, <1>6 DEF Catalogue!Next

\* A task that ends with a debt fails its offer.
LEMMA ForgetsRefines ==
  ASSUME ShopInv, NEW t \in Tasks, Apart(t), at'[t] = "over", Forgets(t),
         UNCHANGED <<products, offers, history>>
  PROVE  Catalogue!Next \/ Still
<1>1. ~Owes(t)'
  BY DEF Owes, Stored
<1>2. Owed' = [Owed EXCEPT ![t] = Catalogue!Nothing]
  BY <1>1, OwedMoves
<1>3. CASE Owes(t)
  <2>1. torn' = torn \cup {hit[t]}
    BY <1>3 DEF Forgets
  <2>2. Owed[t] # Catalogue!Nothing /\ Owed[t].offer = hit[t]
    BY <1>3, DebtOf
  <2>3. Catalogue!Fail(t)
    BY <1>2, <2>1, <2>2 DEF Catalogue!Fail
  <2>4. Owed' # Owed
    BY <1>2, <2>2, DebtEnds
  <2>5. QED
    BY <2>3, <2>4 DEF Catalogue!Next
<1>4. CASE ~Owes(t)
  <2>1. torn' = torn /\ Owed[t] = Catalogue!Nothing
    BY <1>4, OwedIs DEF Forgets
  <2>2. Owed' = Owed
    BY <1>2, <2>1 DEF Owed
  <2>3. QED
    BY <2>1, <2>2 DEF Still
<1>5. QED
  BY <1>3, <1>4

LEMMA CatalogueStep == ShopInv /\ OwnOffers /\ [Next]_vars => [Catalogue!Next]_Catalogue!vars
<1> SUFFICES ASSUME ShopInv, OwnOffers, [Next]_vars PROVE Catalogue!Next \/ Still
  BY StillRefines
<1>1. ASSUME NEW t \in Tasks, Start(t) \/ AwaitEnds(t) PROVE Still
  <2>1. /\ Apart(t) /\ UNCHANGED <<products, offers, history, torn>>
        /\ at[t] \notin Stored /\ at'[t] \notin Stored
    BY <1>1, AwaitApart DEF Awaiting, Stored, tables
  <2>2. QED
    BY <2>1, OwedKept DEF Still
<1>2. ASSUME NEW t \in Tasks, Match(t) \/ RefreshProduct(t) \/ FindOffer(t) PROVE Still
  <2>1. /\ Apart(t) /\ UNCHANGED <<products, offers, history, torn>>
        /\ at[t] \notin Stored /\ at'[t] \notin Stored
    BY <1>2, MatchApart, RefreshProductApart, FindOfferApart DEF Stored, tables
  <2>2. QED
    BY <2>1, OwedKept DEF Still
<1>3. ASSUME NEW t \in Tasks, WriteSevered(t) \/ StatementRaises(t) PROVE Catalogue!Next \/ Still
  <2>1. Apart(t) /\ at'[t] = "over" /\ Forgets(t) /\ UNCHANGED <<products, offers, history>>
    BY <1>3, WriteSeveredApart, StatementRaisesApart DEF tables
  <2>2. QED
    BY <2>1, ForgetsRefines
<1>4. ASSUME NEW s \in Searches, Close(s) PROVE Still
  <2>1. UNCHANGED <<products, offers, history, torn, hit, data>>
    BY <1>4 DEF Close, tables
  <2>2. \A u \in Tasks : (at'[u] \in Stored) = (at[u] \in Stored)
    BY <1>4, TaskTyped, PlaceFacts DEF Close
  <2>3. \A u \in Tasks : Owes(u)' = Owes(u)
    BY <2>1, <2>2 DEF Owes
  <2>4. QED
    BY <2>1, <2>3, OwedStays DEF Still
<1>5. CASE UNCHANGED <<at, hit, data, products, offers, history, torn>>
  <2>1. \A u \in Tasks : Owes(u)' = Owes(u)
    BY <1>5 DEF Owes
  <2>2. QED
    BY <1>5, <2>1, OwedStays DEF Still
<1>6. CASE \E s \in Searches : Answer(s) \/ Fail(s) \/ ClientGone(s)
  BY <1>5, <1>6 DEF Answer, Fail, ClientGone, task, tables
<1>7. CASE AllOver \/ UNCHANGED vars
  BY <1>5, <1>7 DEF AllOver, vars, task, tables
<1>8. QED
  BY <1>1, <1>2, <1>3, <1>4, <1>6, <1>7, InsertProductRefines, InsertOfferRefines, UpdateOfferRefines,
     RefreshOfferRefines, WritePriceRefines DEF Next, Persist, RequestEnds

\* ImplementsCatalogue: for any number of searches, tasks and processes, any timeouts,
\* clients that leave, sessions closed at any point and statements that raise, whoever
\* gives an offer a price adds it to its history once or the offer is torn, no offer is
\* of a product that is not there, and none is touched by a search of another source.
THEOREM Refinement == Spec => ImplementsCatalogue
<1>1. Init => Catalogue!Init /\ OwnOffers
  BY DEF Init, Catalogue!Init, Owed, Owes, Stored, OwnOffers, Catalogue!Nothing
<1>2. QED
  BY <1>1, ShopInvariant, OwnKept, CatalogueStep, PTL DEF Spec, Catalogue!Spec, ImplementsCatalogue
-----------------------------------------------------------------------------
(***************************************************************************)
(* SourceGate: the robots file and the columns of the sources.             *)
(***************************************************************************)
\* A fetch that has not come to robots.txt yet has heard nothing of it.
Unheard == \A f \in Fetches : stage[f] \in {"new", "rate", "robots"} => can[f] = "unasked"

GateInv == GateTypeOK /\ RobotsObeyed /\ RobotsRemembered /\ Unheard

Places   == {"new"} \cup GateAwaits \cup Answers
Heardable == {"unasked", "allowed", "disallowed", "unavailable"}

\* What RobotsObeyed says of one fetch, by its source's columns, place and answer.
Obeys(k, place, verdict) ==
  /\ place = "compliant" /\ k.policy # "off" => verdict = "allowed"
  /\ place = "managed" /\ k.policy = "strict" /\ ~(k.managed /\ k.escalates)
       => verdict = "allowed"
  /\ place \in {"new", "rate", "robots"} => verdict = "unasked"

\* What RobotsRemembered says of one fetch, by its source, answer and the hosts' files.
Remembered(files, f, sources, answers) ==
  answers[f] # "unasked" =>
    /\ files[sources[f]] # "unread"
    /\ \/ answers[f] \in Verdicts(files[sources[f]])
       \/ \E g \in Fetches \ {f} :
            sources[g] = sources[f] /\ answers[g] \in Verdicts(files[sources[f]])

Files == {"unread", "parsed", "unavailable"}
-----------------------------------------------------------------------------
LEMMA GateTyped ==
  ASSUME GateInv
  PROVE  /\ kind \in [Sources -> AllKinds] /\ kind \in [Sources -> Kinds]
         /\ status \in [Sources -> Status]
         /\ robots \in [Sources -> {"unread", "parsed", "unavailable"}]
         /\ src \in [Fetches -> Sources \cup {NoSource}] /\ inside \in [Fetches -> BOOLEAN]
         /\ stage \in [Fetches -> Places] /\ can \in [Fetches -> Heardable]
         /\ \A f \in Fetches : stage[f] # "new" => src[f] \in Sources
         /\ \A f \in Fetches : Obeys(kind[src[f]], stage[f], can[f])
         /\ \A f \in Fetches : Remembered(robots, f, src, can)
<1>1. \A f \in Fetches : Obeys(kind[src[f]], stage[f], can[f])
  BY DEF GateInv, RobotsObeyed, Unheard, Obeys
<1>2. \A f \in Fetches : Remembered(robots, f, src, can)
  BY DEF GateInv, RobotsRemembered, Remembered
<1>3. QED
  BY <1>1, <1>2, KindsAssumption DEF GateInv, GateTypeOK, Places, Heardable

\* It suffices that the fetch which moved is of its type and obeys, the others and the
\* columns of the sources being as they were.
LEMMA MoveKeeps ==
  ASSUME GateInv, UNCHANGED kind, NEW f \in Fetches, NEW s \in Sources,
         NEW place \in Places, NEW verdict \in Heardable,
         src' = [src EXCEPT ![f] = s], Step(f, place), can' = [can EXCEPT ![f] = verdict],
         inside' \in [Fetches -> BOOLEAN], robots' \in [Sources -> Files],
         status' \in [Sources -> Status],
         Obeys(kind[s], place, verdict), \A g \in Fetches : Remembered(robots', g, src', can')
  PROVE  GateInv'
<1>t. /\ kind \in [Sources -> AllKinds] /\ kind \in [Sources -> Kinds]
      /\ src \in [Fetches -> Sources \cup {NoSource}]
      /\ stage \in [Fetches -> Places] /\ can \in [Fetches -> Heardable]
      /\ \A g \in Fetches : stage[g] # "new" => src[g] \in Sources
      /\ \A g \in Fetches : Obeys(kind[src[g]], stage[g], can[g])
  BY GateTyped
<1>1. src' \in [Fetches -> Sources \cup {NoSource}] /\ can' \in [Fetches -> Heardable]
      /\ stage' \in [Fetches -> Places]
  BY <1>t DEF Step
<1>2. ASSUME NEW g \in Fetches
      PROVE  (stage'[g] # "new" => src'[g] \in Sources) /\ Obeys(kind[src'[g]], stage'[g], can'[g])
  <2>1. CASE g = f
    BY <1>t, <2>1 DEF Step
  <2>2. CASE g # f
    BY <1>t, <2>2 DEF Step
  <2>3. QED
    BY <2>1, <2>2
<1>3. GateTypeOK'
  BY <1>t, <1>1, <1>2, NoSourceAssumption DEF GateTypeOK, Places, Heardable, Files
<1>4. RobotsObeyed' /\ Unheard'
  BY <1>2 DEF RobotsObeyed, Unheard, Obeys
<1>5. RobotsRemembered'
  BY DEF RobotsRemembered, Remembered
<1>6. QED
  BY <1>3, <1>4, <1>5 DEF GateInv

\* The files and the answers being as they were, so is what is remembered: a fetch that
\* gets its source has heard nothing yet.
LEMMA SilentRemember ==
  ASSUME GateInv, NEW f \in Fetches, NEW s \in Sources, UNCHANGED <<robots, can>>,
         src' = [src EXCEPT ![f] = s], src[f] = s \/ can[f] = "unasked"
  PROVE  \A g \in Fetches : Remembered(robots', g, src', can')
<1> SUFFICES ASSUME NEW g \in Fetches, can[g] # "unasked" PROVE Remembered(robots, g, src', can)
  BY DEF Remembered
<1>1. src \in [Fetches -> Sources \cup {NoSource}] /\ Remembered(robots, g, src, can)
  BY GateTyped
<1>2. src'[g] = src[g]
  BY <1>1
<1>3. \A h \in Fetches : can[h] # "unasked" => src'[h] = src[h]
  BY <1>1
<1>4. \A file : "unasked" \notin Verdicts(file)
  BY DEF Verdicts
<1>5. QED
  BY <1>1, <1>2, <1>3, <1>4 DEF Remembered

\* A fetch hears a verdict of the file its host's cache holds now: the others heard theirs
\* of the same file, or now find the fetch that contradicts them.
LEMMA HeardRemembers ==
  ASSUME GateInv, NEW f \in Fetches, NEW file \in {"parsed", "unavailable"},
         stage[f] \in {"rate", "robots"}, UNCHANGED src,
         robots' = [robots EXCEPT ![src[f]] = file],
         NEW verdict \in Verdicts(file), can' = [can EXCEPT ![f] = verdict]
  PROVE  \A g \in Fetches : Remembered(robots', g, src', can')
<1>t. /\ src[f] \in Sources /\ robots \in [Sources -> Files] /\ can \in [Fetches -> Heardable]
      /\ \A g \in Fetches : Remembered(robots, g, src, can)
      /\ can[f] = "unasked"
  BY GateTyped DEF Files, Obeys
<1> SUFFICES ASSUME NEW g \in Fetches PROVE Remembered(robots', g, src, can')
  OBVIOUS
<1>1. CASE g = f
  BY <1>t, <1>1 DEF Remembered
<1>2. CASE g # f /\ src[g] = src[f]
  BY <1>t, <1>2 DEF Remembered
<1>3. CASE g # f /\ src[g] # src[f]
  <2>1. can'[g] = can[g] /\ Remembered(robots, g, src, can)
    BY <1>t, <1>3
  <2>2. robots'[src[g]] = robots[src[g]]
    BY <1>t, <1>3
  <2>3. \A h \in Fetches : src[h] = src[g] => can'[h] = can[h]
    BY <1>t, <1>3
  <2>4. QED
    BY <2>1, <2>2, <2>3 DEF Remembered
<1>4. QED
  BY <1>1, <1>2, <1>3

\* The same for a fetch under way, which keeps its source and what it was told.
LEMMA ReplyKeeps ==
  ASSUME GateInv, UNCHANGED <<kind, robots, src, inside, can>>, NEW f \in Fetches, stage[f] # "new",
         NEW place \in Places, Step(f, place), status' \in [Sources -> Status],
         Obeys(kind[src[f]], place, can[f])
  PROVE  GateInv'
<1>1. src[f] \in Sources /\ can[f] \in Heardable
      /\ src' = [src EXCEPT ![f] = src[f]] /\ can' = [can EXCEPT ![f] = can[f]]
      /\ inside' \in [Fetches -> BOOLEAN] /\ robots' \in [Sources -> Files]
  BY GateTyped DEF Files
<1>2. \A g \in Fetches : Remembered(robots', g, src', can')
  BY <1>1, SilentRemember
<1>3. QED
  BY <1>1, <1>2, MoveKeeps

LEMMA BlockingKeeps ==
  ASSUME GateInv, NEW s \in Sources, BlockingEvent(s) \/ UNCHANGED status
  PROVE  status' \in [Sources -> Status]
BY GateTyped DEF BlockingEvent, Status

\* A route keeps to what robots.txt said.
LEMMA RouteObeys ==
  ASSUME NEW s \in Sources, NEW verdict \in Heardable, kind[s] \in AllKinds,
         (verdict = "unasked") => kind[s].policy = "off"
  PROVE  Route(s, verdict) \in Places /\ Obeys(kind[s], Route(s, verdict), verdict)
BY DEF Route, Obeys, Places, GateAwaits, InRouter, Answers, AllKinds, Policies, Heardable

LEMMA HeardKeeps ==
  ASSUME GateInv, UNCHANGED <<kind, status, src, inside>>, NEW f \in Fetches, stage[f] # "new",
         NEW verdict \in Heardable, Heard(f, verdict),
         (verdict = "unasked") => kind[src[f]].policy = "off",
         robots' \in [Sources -> Files], \A g \in Fetches : Remembered(robots', g, src', can')
  PROVE  GateInv'
<1>1. src[f] \in Sources /\ src' = [src EXCEPT ![f] = src[f]] /\ kind[src[f]] \in AllKinds
      /\ inside' \in [Fetches -> BOOLEAN] /\ status' \in [Sources -> Status]
  BY GateTyped
<1>2. Route(src[f], verdict) \in Places /\ Obeys(kind[src[f]], Route(src[f], verdict), verdict)
  BY <1>1, RouteObeys
<1>3. Exit(f) \in Places /\ Obeys(kind[src[f]], Exit(f), verdict)
  BY DEF Exit, Places, GateAwaits, Answers, Obeys
<1>4. PICK place \in Places : Step(f, place) /\ Obeys(kind[src[f]], place, verdict)
  BY <1>2, <1>3 DEF Heard
<1>5. can' = [can EXCEPT ![f] = verdict]
  BY DEF Heard
<1>6. QED
  BY <1>1, <1>4, <1>5, MoveKeeps
-----------------------------------------------------------------------------
LEMMA EnterKeeps ==
  ASSUME GateInv, UNCHANGED kind, NEW f \in Fetches, NEW s \in Sources, NEW d \in Doors,
         NEW single \in BOOLEAN, Enter(f, s, d, single)
  PROVE  GateInv'
<1> DEFINE healed == IF Heals(s, d) THEN "active" ELSE status[s]
           place  == IF healed = "active" THEN "rate" ELSE "rejected"
<1>1. /\ src' = [src EXCEPT ![f] = s] /\ inside' = [inside EXCEPT ![f] = single]
      /\ status' = [status EXCEPT ![s] = healed] /\ Step(f, place) /\ UNCHANGED <<robots, can>>
  BY DEF Enter
<1>0. can[f] = "unasked"
  BY GateTyped DEF Enter, Obeys
<1>2. healed \in Status
  BY GateTyped DEF Status
<1>3. place \in Places /\ Obeys(kind[s], place, can[f])
  BY <1>0 DEF Places, GateAwaits, InRouter, Answers, Obeys
<1> HIDE DEF healed, place
<1>4. /\ can[f] \in Heardable /\ can' = [can EXCEPT ![f] = can[f]]
      /\ inside' \in [Fetches -> BOOLEAN] /\ robots' \in [Sources -> Files]
      /\ status' \in [Sources -> Status]
  BY <1>1, <1>2, GateTyped DEF Files
<1>5. \A g \in Fetches : Remembered(robots', g, src', can')
  BY <1>0, <1>1, SilentRemember
<1>6. QED
  BY <1>1, <1>3, <1>4, <1>5, MoveKeeps

LEMMA NoDatabaseKeeps ==
  ASSUME GateInv, UNCHANGED kind, NEW f \in Fetches, NEW s \in Sources,
         NEW single \in BOOLEAN, NoDatabase(f, s, single)
  PROVE  GateInv'
<1> DEFINE place == IF single THEN "fallback_compliant" ELSE "error"
<1>1. /\ src' = [src EXCEPT ![f] = s] /\ inside' = [inside EXCEPT ![f] = single]
      /\ Step(f, place) /\ UNCHANGED <<status, robots, can>>
  BY DEF NoDatabase
<1>0. can[f] = "unasked"
  BY GateTyped DEF NoDatabase, Obeys
<1>2. place \in Places /\ Obeys(kind[s], place, can[f])
  BY DEF Places, GateAwaits, InRouter, Answers, Obeys
<1> HIDE DEF place
<1>3. /\ can[f] \in Heardable /\ can' = [can EXCEPT ![f] = can[f]]
      /\ inside' \in [Fetches -> BOOLEAN] /\ robots' \in [Sources -> Files]
      /\ status' \in [Sources -> Status]
  BY <1>1, GateTyped DEF Files
<1>4. \A g \in Fetches : Remembered(robots', g, src', can')
  BY <1>0, <1>1, SilentRemember
<1>5. QED
  BY <1>1, <1>2, <1>3, <1>4, MoveKeeps

LEMMA RateAllowedKeeps ==
  ASSUME GateInv, UNCHANGED kind, NEW f \in Fetches, RateAllowed(f)
  PROVE  GateInv'
<1>1. /\ stage[f] = "rate" /\ UNCHANGED <<status, robots, src, inside>> /\ src[f] \in Sources
      /\ can[f] = "unasked" /\ can \in [Fetches -> Heardable] /\ src' = [src EXCEPT ![f] = src[f]]
      /\ robots \in [Sources -> Files]
  BY GateTyped DEF RateAllowed, Obeys, Files
<1>2. CASE kind[src[f]].policy = "off" /\ Heard(f, "unasked")
  <2>1. UNCHANGED can
    BY <1>1, <1>2 DEF Heard
  <2>2. \A g \in Fetches : Remembered(robots', g, src', can')
    BY <1>1, <2>1, SilentRemember
  <2>3. QED
    BY <1>1, <1>2, <2>2, HeardKeeps DEF Heardable
<1>3. CASE Step(f, "robots") /\ UNCHANGED can
  <2>1. "robots" \in Places /\ Obeys(kind[src[f]], "robots", can[f])
    BY <1>1 DEF Places, GateAwaits, InRouter, Obeys
  <2>2. status' \in [Sources -> Status]
    BY <1>1, GateTyped
  <2>3. QED
    BY <1>1, <1>3, <2>1, <2>2, ReplyKeeps
<1>4. ASSUME robots[src[f]] # "unread", NEW verdict \in Verdicts(robots[src[f]]), Heard(f, verdict)
      PROVE  GateInv'
  <2>1. verdict \in Heardable /\ verdict # "unasked"
    BY <1>4 DEF Verdicts, Heardable
  <2>2. can' = [can EXCEPT ![f] = verdict]
    BY <1>4 DEF Heard
  <2>3. robots[src[f]] \in {"parsed", "unavailable"} /\ robots' = [robots EXCEPT ![src[f]] = robots[src[f]]]
    BY <1>1, <1>4 DEF Files
  <2>4. \A g \in Fetches : Remembered(robots', g, src', can')
    BY <1>1, <2>2, <2>3, HeardRemembers
  <2>5. QED
    BY <1>1, <1>4, <2>1, <2>4, HeardKeeps
<1>5. QED
  BY <1>2, <1>3, <1>4 DEF RateAllowed

LEMMA RobotsLoadedKeeps ==
  ASSUME GateInv, UNCHANGED kind, NEW f \in Fetches, NEW file \in {"parsed", "unavailable"},
         RobotsLoaded(f, file)
  PROVE  GateInv'
<1>1. PICK verdict \in Verdicts(file) : Heard(f, verdict)
  BY DEF RobotsLoaded
<1>2. verdict \in Heardable /\ verdict # "unasked"
  BY DEF Verdicts, Heardable
<1>3. /\ stage[f] = "robots" /\ UNCHANGED <<status, src, inside>>
      /\ robots' = [robots EXCEPT ![src[f]] = file] /\ robots' \in [Sources -> Files]
  BY GateTyped DEF RobotsLoaded, Files
<1>4. can' = [can EXCEPT ![f] = verdict]
  BY <1>1 DEF Heard
<1>5. \A g \in Fetches : Remembered(robots', g, src', can')
  BY <1>3, <1>4, HeardRemembers
<1>6. QED
  BY <1>1, <1>2, <1>3, <1>5, HeardKeeps

\* A fetch that returns, or leaves the router.
LEMMA OverKeeps ==
  ASSUME GateInv, UNCHANGED <<kind, robots, src, inside, can>>, NEW f \in Fetches, stage[f] # "new",
         BlockingEvent(src[f]) \/ UNCHANGED status,
         NEW place \in Answers \cup {"fallback_compliant", "fallback_managed"}, Step(f, place)
  PROVE  GateInv'
<1>1. place \in Places /\ Obeys(kind[src[f]], place, can[f])
  BY DEF Places, GateAwaits, Answers, Obeys
<1>2. src[f] \in Sources
  BY GateTyped
<1>3. QED
  BY <1>1, <1>2, BlockingKeeps, ReplyKeeps

\* Tier 1 hands over to the managed fetch only for a source that escalates, and was
\* itself allowed.
LEMMA CompliantReplyKeeps ==
  ASSUME GateInv, UNCHANGED kind, NEW f \in Fetches, NEW page \in Tier1Pages, CompliantReply(f, page)
  PROVE  GateInv'
<1>1. /\ stage[f] = "compliant" /\ UNCHANGED <<robots, src, inside, can>> /\ src[f] \in Sources
      /\ BlockingEvent(src[f]) \/ UNCHANGED status
  BY GateTyped DEF CompliantReply
<1>2. CASE Escalating(src[f], page)
  <2>1. Step(f, "managed") /\ "managed" \in Places
    BY <1>2 DEF CompliantReply, Places, GateAwaits, InRouter
  <2>2. Obeys(kind[src[f]], "managed", can[f])
    BY <1>1, GateTyped DEF Obeys
  <2>3. QED
    BY <1>1, <2>1, <2>2, BlockingKeeps, ReplyKeeps
<1>3. CASE ~Escalating(src[f], page)
  <2>1. PICK place \in {"blocked", "ok"} : Step(f, place)
    BY <1>3 DEF CompliantReply
  <2>2. QED
    BY <1>1, <2>1, OverKeeps DEF Answers
<1>4. QED
  BY <1>2, <1>3

LEMMA GateStepKeeps == ASSUME GateInv, [GateNext]_gateVars PROVE GateInv'
<1>1. CASE UNCHANGED gateVars
  BY <1>1 DEF gateVars, rows, fetch, GateInv, GateTypeOK, RobotsObeyed, RobotsRemembered, Unheard
<1>2. CASE GateNext
  <2>k. UNCHANGED kind
    BY <1>2 DEF GateNext
  <2>1. ASSUME NEW f \in Fetches, NEW s \in Sources, NEW single \in BOOLEAN, NEW d \in Doors,
               Enter(f, s, d, single)
        PROVE  GateInv'
    BY <2>k, <2>1, EnterKeeps
  <2>2. ASSUME NEW f \in Fetches, NEW s \in Sources, NEW single \in BOOLEAN, NoDatabase(f, s, single)
        PROVE  GateInv'
    BY <2>k, <2>2, NoDatabaseKeeps
  <2>3. ASSUME NEW f \in Fetches, RateAllowed(f) PROVE GateInv'
    BY <2>k, <2>3, RateAllowedKeeps
  <2>4. ASSUME NEW f \in Fetches, RateLimited(f) PROVE GateInv'
    <3>1. stage[f] # "new" /\ UNCHANGED <<robots, src, inside, can>> /\ BlockingEvent(src[f])
          /\ Step(f, "rejected")
      BY <2>4 DEF RateLimited
    <3>2. QED
      BY <2>k, <3>1, OverKeeps DEF Answers
  <2>5. ASSUME NEW f \in Fetches, NEW file \in {"parsed", "unavailable"}, RobotsLoaded(f, file)
        PROVE  GateInv'
    BY <2>k, <2>5, RobotsLoadedKeeps
  <2>6. ASSUME NEW f \in Fetches, NEW page \in Tier1Pages, CompliantReply(f, page) PROVE GateInv'
    BY <2>k, <2>6, CompliantReplyKeeps
  <2>7. ASSUME NEW f \in Fetches, NEW page \in ManagedPages, ManagedReply(f, page) PROVE GateInv'
    <3>1. /\ stage[f] # "new" /\ UNCHANGED <<robots, src, inside, can>>
          /\ BlockingEvent(src[f]) \/ UNCHANGED status
          /\ \E place \in {"ok", "blocked"} : Step(f, place)
      BY <2>7 DEF ManagedReply
    <3>2. QED
      BY <2>k, <3>1, OverKeeps DEF Answers
  <2>8. ASSUME NEW f \in Fetches,
               \/ \E page \in Tier1Pages : FallbackReply(f, page)
               \/ \E answer \in Answers \ {"rejected"} : FallbackManagedReply(f, answer)
        PROVE  GateInv'
    <3>1. /\ stage[f] # "new" /\ UNCHANGED <<status, robots, src, inside, can>>
          /\ \E place \in Answers \cup {"fallback_managed"} : Step(f, place)
      BY <2>8 DEF FallbackReply, FallbackManagedReply, Answers
    <3>2. QED
      BY <2>k, <3>1, OverKeeps
  <2>9. ASSUME NEW f \in Fetches, ProviderRaises(f) \/ DatabaseRaises(f) \/ Cancel(f) PROVE GateInv'
    <3>1. /\ stage[f] # "new" /\ UNCHANGED <<status, robots, src, inside, can>>
          /\ \E place \in {"error", "fallback_compliant"} : Step(f, place)
      BY <2>9 DEF ProviderRaises, DatabaseRaises, Cancel, Leaves, Exit, InRouter
    <3>2. QED
      BY <2>k, <3>1, OverKeeps DEF Answers
  <2>10. ASSUME NEW s \in Sources, Pause(s) \/ Activate(s) PROVE GateInv'
    <3>1. /\ UNCHANGED <<kind, robots, fetch>>
          /\ \E now \in {"active", "paused"} : status' = [status EXCEPT ![s] = now]
      BY <2>k, <2>10 DEF Pause, Activate
    <3>2. status' \in [Sources -> Status]
      BY <3>1, GateTyped DEF Status
    <3>3. GateTypeOK' /\ RobotsObeyed'
      BY <3>1, <3>2 DEF GateInv, GateTypeOK, RobotsObeyed, fetch
    <3>4. RobotsRemembered' /\ Unheard'
      BY <3>1 DEF GateInv, RobotsRemembered, Unheard, fetch
    <3>5. QED
      BY <3>3, <3>4 DEF GateInv
  <2>11. QED
    BY <1>2, <2>1, <2>2, <2>3, <2>4, <2>5, <2>6, <2>7, <2>8, <2>9, <2>10 DEF GateNext
<1>3. QED
  BY <1>1, <1>2

LEMMA GateInitHolds == ASSUME GateInit PROVE GateInv
<1>1. GateTypeOK
  BY DEF GateInit, GateTypeOK, Status
<1>2. RobotsObeyed
  BY DEF GateInit, RobotsObeyed
<1>3. RobotsRemembered /\ Unheard
  BY DEF GateInit, RobotsRemembered, Unheard
<1>4. QED
  BY <1>1, <1>2, <1>3 DEF GateInv

LEMMA GateInvariant == GateSpec => []GateInv
BY GateInitHolds, GateStepKeeps, PTL DEF GateSpec
-----------------------------------------------------------------------------
\* Every variable has its type, and a fetch that has begun has a source.
THEOREM GateTypeCorrect == GateSpec => []GateTypeOK
BY GateInvariant, PTL DEF GateInv

\* Inside the router Tier 1 asks only for what robots.txt allows under a policy that has
\* the file read, and the managed fetch of a strict source that may not escalate as well,
\* whoever loaded the file and whatever happened to the source's status meanwhile.
LEMMA RobotsKept == GateSpec => []RobotsObeyed
BY GateInvariant, PTL DEF GateInv

\* A host's robots.txt, read or not, stays what some fetch of the host heard: it is never
\* forgotten, and it contradicts a fetch only because another one raced it.
THEOREM RobotsStayRead == GateSpec => []RobotsRemembered
BY GateInvariant, PTL DEF GateInv
=============================================================================
