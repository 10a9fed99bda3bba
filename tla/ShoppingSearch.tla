--------------------------- MODULE ShoppingSearch ---------------------------
(***************************************************************************)
(* POST /shop/search and /shop/search/stream: one task per retailer, a     *)
(* semaphore and a timeout around each, all on one database session, and   *)
(* the products, offers and price history they write                       *)
(* (app/services/shop_service.py, app/services/matching/product_matcher.py, *)
(* app/api/shop.py, app/database.py).                                      *)
(*                                                                         *)
(* Every database call is synchronous, so a task that writes keeps the     *)
(* event loop of its process from the last reply it awaited until it ends; *)
(* another process, and the thread that closes a session, run in between,  *)
(* also between a commit and the refresh that follows it, or a row that is *)
(* added and its commit.                                                   *)
(***************************************************************************)
EXTENDS ShopExtraction, Sequences, SequencesExt

CONSTANTS Searches,      \* requests of the model, each made once
          Retailers,     \* those of a search, with a source each
          Configured,    \* retailers with a search_url_template
          AsksFor,       \* the retailers of each search
          Streams,       \* searches of /shop/search/stream
          MaxConcurrency,
          Timed,         \* TRUE: a per-retailer timeout is set
          Processes,
          Placements,    \* which process may serve which search
          Pages,         \* [answer, numbers, fields] a page and the model may give
          Errors,        \* what the error of an answer may say
          Visions,       \* payloads the vision model may give; NoVision: none
          VisionEnabled,
          Canonical,     \* a title without promotional words
          Alike,         \* pairs of canonical titles 80 % similar or more
          MaxFaults      \* bound: awaits, queries and commits that raise

NoVision == [items |-> {}, name |-> NoText, price |-> NoPrice, error |-> "no_screenshots",
             rating |-> "number"]

Names    == DOMAIN Canonical
Price    == Nat \cup Texts
Payload  == [items : SUBSET [name : Names, price : Price], name : Names, price : Price,
             error : Errors, rating : {"number", "text"}]
Page     == [answer : Payload, numbers : SUBSET Nat, fields : [title : Names, price : Nat]]

Tasks    == {t \in Searches \X Retailers : t[2] \in AsksFor[t[1]]}
Nobody   == <<"nobody">>

ASSUME SearchesAssumption ==
  /\ AsksFor \in [Searches -> SUBSET Retailers] /\ Streams \subseteq Searches
  /\ MaxConcurrency \in 1 .. 5 /\ MaxFaults \in Nat
  /\ Placements \subseteq [Searches -> Processes]
  /\ Timed \in BOOLEAN /\ VisionEnabled \in BOOLEAN /\ Configured \subseteq Retailers

ASSUME PagesAssumption ==
  /\ {NoText, CssName} \subseteq Names /\ {NoText, NoVision.error} \subseteq Errors
  /\ Visions \subseteq Payload /\ Pages \subseteq Page
  /\ \A page \in Pages : IsFiniteSet(page.numbers)

VARIABLES
  host,      \* the process a search runs in
  loop,      \* the task that keeps a process's event loop
  at,        \* where a task stands
  source,    \* what a task's source row is good for
  data,      \* the payload a task will store, or the page it asks vision about
  hit,       \* the product it matched, then the offer it found
  result,    \* returned, raised, or illegible: it raised over a price or a rating
             \* that is no number
  session,   \* ok, or broken by a flush that failed
  outcome,   \* of a search: running, answered, failed; then closed
  products, offers, history,   \* the tables, rows in the order of their insertion;
             \* the prices of an offer's history are kept together
  faults,
  torn       \* history: offers whose history lacks a price

task   == <<loop, at, source, data, hit, result>>
search == <<host, session, outcome>>
tables == <<products, offers, history>>
vars   == <<task, search, tables, faults, torn>>

Blank == [items |-> {}, name |-> NoText, price |-> NoPrice, error |-> NoText,
          rating |-> "number"]

Init ==
  /\ host \in Placements
  /\ loop = [p \in Processes |-> Nobody]
  /\ at = [t \in Tasks |-> "queued"] /\ source = [t \in Tasks |-> "none"]
  /\ data = [t \in Tasks |-> Blank] /\ hit = [t \in Tasks |-> 0]
  /\ result = [t \in Tasks |-> "none"]
  /\ session = [s \in Searches |-> "ok"] /\ outcome = [s \in Searches |-> "running"]
  /\ products = <<>> /\ offers = <<>> /\ history = <<>>
  /\ faults = 0 /\ torn = {}
-----------------------------------------------------------------------------
Awaiting   == {"fetch", "visionIfBlocked", "visionIfUnusable", "llm", "visionIfEmpty"}

\* "stranded", "cutOff" and "lost": the session was closed at a point where the row
\* just added, changed or committed is no longer its own.
Severed    == {"stranded", "cutOff", "lost"}
Persisting == {"match", "insert", "refreshProduct", "offer", "insertOffer", "updateOffer",
               "refresh", "price"} \cup Severed
Home(t)    == host[t[1]]

HasLoop(t)    == loop[Home(t)] = t

\* A task that stores keeps the loop; what awaits runs when nobody does.
MayRun(t)     == loop[Home(t)] \in {Nobody, t}
Broken(t)     == session[t[1]] = "broken"

\* A row that was expired by a commit and left its session cannot be read again.
Unreadable(t) == source[t] = "detachedExpired"

\* expire_on_commit: every row the session holds is read anew when next used.
Expire(src, t) ==
  [u \in Tasks |-> IF u[1] = t[1] /\ src[u] = "fresh" THEN "expired" ELSE src[u]]

\* Reading a column of it.
Reload(src, t) == IF src[t] = "expired" THEN [src EXCEPT ![t] = "fresh"] ELSE src

\* A task ends; the semaphore is free for the next.
Ends(t, how, src) ==
  /\ at'     = [at EXCEPT ![t] = "over"]
  /\ result' = [result EXCEPT ![t] = how]
  /\ source' = [src EXCEPT ![t] = "none"]
  /\ data'   = [data EXCEPT ![t] = Blank]
  /\ hit'    = [hit EXCEPT ![t] = 0]
  /\ loop'   = IF HasLoop(t) THEN [loop EXCEPT ![Home(t)] = Nobody] ELSE loop

Goes(t, where, src) ==
  at' = [at EXCEPT ![t] = where] /\ source' = src /\ UNCHANGED <<loop, data, hit, result>>

StoresWithoutLoop(t, payload) ==
  /\ at'   = [at EXCEPT ![t] = "match"]
  /\ data' = [data EXCEPT ![t] = NormalizeShopData(payload)]
  /\ UNCHANGED <<loop, source, hit, result>>

\* The payload is normalised once more, and the task goes on to store it at once.
Stores(t, payload) ==
  /\ at'   = [at EXCEPT ![t] = "match"]
  /\ data' = [data EXCEPT ![t] = NormalizeShopData(payload)]
  /\ loop' = [loop EXCEPT ![Home(t)] = t]
  /\ UNCHANGED <<source, hit, result>>

\* The offer is committed and has the task's price, its history has not.
Stored  == {"refresh", "cutOff", "price", "lost"}
Owes(t) == at[t] \in Stored /\ data[t].price # NoPrice

\* The price a task that ends has not added is never added.
Forgets(t) == torn' = IF Owes(t) THEN torn \cup {hit[t]} ELSE torn

\* A statement that raises leaves the session unusable until it is closed.
Breaks(t, src) ==
  /\ session' = [session EXCEPT ![t[1]] = "broken"]
  /\ Ends(t, "raised", src) /\ Forgets(t)
  /\ UNCHANGED <<host, outcome, tables>>

Fault == faults < MaxFaults /\ faults' = faults + 1

\* The tasks that hold one of the search's permits.
Inside(s) == {t \in Tasks : t[1] = s /\ at[t] \notin {"queued", "over"}}
-----------------------------------------------------------------------------
\* async with sem, and _run_one up to its first await.
Start(t) ==
  /\ at[t] = "queued" /\ MayRun(t)
  /\ Cardinality(Inside(t[1])) < MaxConcurrency
  /\ IF Broken(t) THEN Ends(t, "raised", source)
     ELSE IF t[2] \notin Configured THEN Ends(t, "returned", source)
     ELSE Goes(t, "fetch", [source EXCEPT ![t] = "fresh"])
  /\ UNCHANGED <<search, tables, faults, torn>>

\* hybrid_router.fetch returns.  It wrote its event, unless the page was blocked
\* in a way it does not log.
FetchReply(t) ==
  /\ at[t] = "fetch" /\ MayRun(t)
  /\ \/ /\ Broken(t) \/ Unreadable(t)
        /\ Ends(t, "raised", source)
     \/ /\ ~(Broken(t) \/ Unreadable(t))
        /\ \E status \in {"usable", "unusable", "bad"}, logged \in BOOLEAN :
             /\ status # "bad" => logged
             /\ LET read == Reload(IF logged THEN Expire(source, t) ELSE source, t) IN
                CASE status = "bad" /\ VisionEnabled      -> Goes(t, "visionIfBlocked", read)
                  [] status = "bad" /\ ~VisionEnabled     -> Ends(t, "returned", read)
                  [] status = "unusable" /\ VisionEnabled -> Goes(t, "visionIfUnusable", read)
                  [] OTHER                                -> Goes(t, "llm", read)
  /\ UNCHANGED <<search, tables, faults, torn>>

\* vision_extract_shopping of a page that was blocked, or not usable.
VisionReply(t) ==
  /\ at[t] \in {"visionIfBlocked", "visionIfUnusable"} /\ MayRun(t)
  /\ \E answer \in Visions \cup {NoVision} :
       LET seen == VisionData(answer, {}) IN
       CASE HasSignal(seen)                 -> Stores(t, seen)
         [] at[t] = "visionIfBlocked" /\ ~HasSignal(seen) -> Ends(t, "returned", source)
         [] OTHER                           -> Goes(t, "llm", source)
  /\ UNCHANGED <<search, tables, faults, torn>>

\* _extract_with_llm: the model's answer, merged with what the page says itself.
LlmReply(t) ==
  /\ at[t] = "llm" /\ MayRun(t)
  /\ \E page \in Pages :
       \/ /\ ~(WantsVision(page) /\ VisionEnabled)
          /\ Stores(t, PageData(page))
       \/ /\ WantsVision(page) /\ VisionEnabled
          /\ at'   = [at EXCEPT ![t] = "visionIfEmpty"]
          /\ data' = [data EXCEPT ![t] = page]
          /\ UNCHANGED <<loop, source, hit, result>>
  /\ UNCHANGED <<search, tables, faults, torn>>

VisionReplyLast(t) ==
  /\ at[t] = "visionIfEmpty" /\ MayRun(t)
  /\ \E answer \in Visions \cup {NoVision} :
       LET seen == VisionData(answer, Candidates(data[t].numbers))
       IN Stores(t, IF HasSignal(seen) THEN seen ELSE LlmData(data[t]))
  /\ UNCHANGED <<search, tables, faults, torn>>

\* Whatever is awaited raises.
AwaitRaises(t) ==
  /\ at[t] \in Awaiting /\ MayRun(t) /\ Fault
  /\ Ends(t, "raised", source)
  /\ UNCHANGED <<search, tables, torn>>

TimeoutAnywhere(t) ==
  /\ Timed /\ at[t] \in Awaiting \cup Persisting
  /\ Ends(t, "returned", source)
  /\ UNCHANGED <<search, tables, faults, torn>>

\* asyncio.wait_for: a cancellation reaches a task only where it awaits.
Timeout(t) ==
  /\ Timed /\ at[t] \in Awaiting /\ MayRun(t)
  /\ Ends(t, "returned", source)
  /\ UNCHANGED <<search, tables, faults, torn>>

-----------------------------------------------------------------------------
Title(t)      == Canonical[data[t].name]
OfferTitle(t) == IF data[t].name = NoText THEN "Unknown" ELSE data[t].name

\* find_or_create_product.  What the shop asks a page for has neither a GTIN nor a
\* brand, so the key is the title, and the row found by the key is the one whose
\* title is the same; an empty title has no key and is like an empty title only.
Match(t) ==
  LET same == {i \in DOMAIN products : products[i] = Title(t)}
      like == {i \in DOMAIN products : <<products[i], Title(t)>> \in Alike}
  IN
  /\ at[t] = "match" /\ MayRun(t)
  /\ IF Broken(t) THEN Ends(t, "raised", source)
     ELSE /\ IF same \cup like = {} THEN hit' = hit /\ at' = [at EXCEPT ![t] = "insert"]
             ELSE \E i \in (IF same # {} THEN same ELSE like) :
                    hit' = [hit EXCEPT ![t] = i] /\ at' = [at EXCEPT ![t] = "offer"]
          /\ UNCHANGED <<loop, source, data, result>>
  /\ UNCHANGED <<search, tables, faults, torn>>

InsertProductUncommitted(t) ==
  /\ at[t] = "insert" /\ MayRun(t)
  /\ hit' = [hit EXCEPT ![t] = Len(products) + 1]
  /\ at'  = [at EXCEPT ![t] = "refreshProduct"]
  /\ UNCHANGED <<loop, source, data, result, search, tables, faults, torn>>

\* The new product; normalized_key is unique, another process may have been faster.
InsertProduct(t) ==
  /\ at[t] = "insert" /\ MayRun(t)
  /\ \/ /\ Title(t) = NoText \/ Title(t) \notin ToSet(products)
        /\ products' = Append(products, Title(t))
        /\ hit'      = [hit EXCEPT ![t] = Len(products) + 1]
        /\ at'       = [at EXCEPT ![t] = "refreshProduct"]
        /\ source'   = Expire(source, t)
        /\ UNCHANGED <<loop, data, result, search, offers, history, torn>>
     \/ /\ Title(t) # NoText /\ Title(t) \in ToSet(products)
        /\ Breaks(t, Expire(source, t))
  /\ UNCHANGED faults

RefreshProduct(t) ==
  /\ at[t] = "refreshProduct" /\ MayRun(t)
  /\ Goes(t, "offer", source)
  /\ UNCHANGED <<search, tables, faults, torn>>

\* Decimal(str(...)) of a price, or of the rating a new offer gets, raises over a text.
Illegible(t, found) == data[t].price \in Texts \/ (found = {} /\ data[t].rating = "text")

\* _persist_offer looks for the offer of this source with this title.
FindOffer(t) ==
  LET found == {i \in DOMAIN offers : offers[i].source = t[2] /\ offers[i].title = OfferTitle(t)}
  IN
  /\ at[t] = "offer" /\ MayRun(t)
  /\ IF Unreadable(t) THEN Ends(t, "raised", source)
     ELSE IF Illegible(t, found) THEN Ends(t, "illegible", Reload(source, t))
     ELSE /\ IF found = {} THEN hit' = hit /\ at' = [at EXCEPT ![t] = "insertOffer"]
             ELSE \E i \in found :
                    hit' = [hit EXCEPT ![t] = i] /\ at' = [at EXCEPT ![t] = "updateOffer"]
          /\ source' = Reload(source, t)
          /\ UNCHANGED <<loop, data, result>>
  /\ UNCHANGED <<search, tables, faults, torn>>

\* After the commit of the offer with number i.
OfferStored(t, i) ==
  /\ at'  = [at EXCEPT ![t] = "refresh"]
  /\ hit' = [hit EXCEPT ![t] = i]
  /\ source' = Expire(source, t)
  /\ UNCHANGED <<loop, data, result, search, products, faults, torn>>

InsertOffer(t) ==
  /\ at[t] = "insertOffer" /\ MayRun(t)
  /\ offers' = Append(offers, [source |-> t[2], title |-> OfferTitle(t),
                               product |-> hit[t], price |-> data[t].price])
  /\ history' = Append(history, <<>>)
  /\ OfferStored(t, Len(offers) + 1)

\* The product of an offer that exists is left as it is, and so is its price when
\* none was found.
UpdateOffer(t) ==
  /\ at[t] = "updateOffer" /\ MayRun(t)
  /\ offers' = IF data[t].price = NoPrice THEN offers
               ELSE [offers EXCEPT ![hit[t]].price = data[t].price]
  /\ OfferStored(t, hit[t]) /\ UNCHANGED history

RefreshOffer(t) ==
  /\ at[t] = "refresh" /\ MayRun(t)
  /\ IF data[t].price = NoPrice THEN Ends(t, "returned", source) ELSE Goes(t, "price", source)
  /\ UNCHANGED <<search, tables, faults, torn>>

WritePrice(t) ==
  /\ at[t] = "price" /\ MayRun(t)
  /\ history' = [history EXCEPT ![hit[t]] = Append(@, data[t].price)]
  /\ Ends(t, "returned", Expire(source, t))
  /\ UNCHANGED <<search, products, offers, faults, torn>>

\* A row that left the session: a commit writes nothing of it and raises nothing,
\* and refresh, which no history row gets, raises.
WriteSevered(t) ==
  /\ at[t] \in Severed /\ MayRun(t)
  /\ Ends(t, IF at[t] = "lost" THEN "returned" ELSE "raised", Expire(source, t))
  /\ Forgets(t)
  /\ UNCHANGED <<search, tables, faults>>

\* Any statement may raise; the flush of a commit is rolled back, which expires what
\* the session holds.
StatementRaises(t) ==
  /\ at[t] \in Persisting \ Severed /\ MayRun(t) /\ Fault
  /\ Breaks(t, IF at[t] \in {"match", "offer"} THEN source ELSE Expire(source, t))

Persist(t) ==
  \/ Match(t) \/ InsertProduct(t) \/ RefreshProduct(t) \/ FindOffer(t) \/ InsertOffer(t)
  \/ UpdateOffer(t) \/ RefreshOffer(t) \/ WritePrice(t) \/ WriteSevered(t) \/ StatementRaises(t)
-----------------------------------------------------------------------------
\* gather, or the stream's loop over as_completed, has every result.
Answer(s) ==
  /\ outcome[s] = "running"
  /\ \A t \in Tasks : t[1] = s => at[t] = "over" /\ result[t] = "returned"
  /\ outcome' = [outcome EXCEPT ![s] = "answered"]
  /\ UNCHANGED <<task, host, session, tables, faults, torn>>

\* The first exception ends the request; the other tasks are not cancelled.
Fail(s) ==
  /\ outcome[s] = "running"
  /\ \E t \in Tasks : t[1] = s /\ result[t] \in {"raised", "illegible"}
  /\ outcome' = [outcome EXCEPT ![s] = "failed"]
  /\ UNCHANGED <<task, host, session, tables, faults, torn>>

\* The reader of a stream goes away: the generator is closed, its tasks live on.
ClientGone(s) ==
  /\ s \in Streams /\ outcome[s] = "running"
  /\ outcome' = [outcome EXCEPT ![s] = "failed"]
  /\ UNCHANGED <<task, host, session, tables, faults, torn>>

\* Where a task is once the rows of its session are no longer the session's; "added"
\* says whether it had added the new row it is to commit.
Place(where, added) ==
  CASE where \in {"refreshProduct", "updateOffer"}                -> "stranded"
    [] where \in {"insert", "insertOffer"} /\ added              -> "stranded"
    [] where = "refresh"                                          -> "cutOff"
    [] where = "price" /\ added                                   -> "lost"
    [] OTHER                                                      -> where

\* get_db closes the session, in a thread of its own.  It can be used again, but
\* the rows it held are no longer its own.
Close(s) ==
  /\ outcome[s] \in {"answered", "failed"}
  /\ outcome' = [outcome EXCEPT ![s] = "closed"]
  /\ session' = [session EXCEPT ![s] = "ok"]
  /\ source'  = [t \in Tasks |->
       IF t[1] # s THEN source[t]
       ELSE CASE source[t] = "fresh"   -> "detachedFresh"
              [] source[t] = "expired" -> "detachedExpired"
              [] OTHER                 -> source[t]]
  /\ \E added \in BOOLEAN :
       at' = [t \in Tasks |-> IF t[1] = s THEN Place(at[t], added) ELSE at[t]]
  /\ UNCHANGED <<loop, data, hit, result, host, tables, faults, torn>>

Reply(t)      == FetchReply(t) \/ VisionReply(t) \/ LlmReply(t) \/ VisionReplyLast(t)
AwaitEnds(t)  == Reply(t) \/ AwaitRaises(t) \/ Timeout(t)
RequestEnds(s) == Answer(s) \/ Fail(s) \/ Close(s)

\* Every search over and every task with it: the model stops here and nowhere else.
AllOver ==
  /\ \A s \in Searches : outcome[s] = "closed"
  /\ \A t \in Tasks : at[t] = "over"
  /\ UNCHANGED vars

Next ==
  \/ \E t \in Tasks : Start(t) \/ AwaitEnds(t) \/ Persist(t)
  \/ \E s \in Searches : RequestEnds(s) \/ ClientGone(s)
  \/ AllOver

Spec == Init /\ [][Next]_vars
-----------------------------------------------------------------------------
\* A task keeps an event loop exactly while it stores; rows refer to rows that
\* exist.
TypeOK ==
  /\ host \in [Searches -> Processes] /\ faults \in 0 .. MaxFaults
  /\ \A p \in Processes : loop[p] \in Tasks \cup {Nobody}
  /\ \A t \in Tasks :
       /\ at[t] \in {"queued", "over"} \cup Awaiting \cup Persisting
       /\ at[t] \in Persisting <=> HasLoop(t)
       /\ at[t] # "visionIfEmpty" => data[t] \in Payload
       /\ source[t] \in {"none", "fresh", "expired", "detachedFresh", "detachedExpired"}
       /\ at[t] = "over" <=> result[t] \in {"returned", "raised", "illegible"}
       /\ at[t] \in {"refreshProduct", "offer", "insertOffer"} => hit[t] \in DOMAIN products
       /\ at[t] \in {"updateOffer"} \cup Stored => hit[t] \in DOMAIN offers
  /\ session \in [Searches -> {"ok", "broken"}]
  /\ outcome \in [Searches -> {"running", "answered", "failed", "closed"}]
  /\ \A i \in DOMAIN offers : offers[i].product \in DOMAIN products
  /\ DOMAIN history = DOMAIN offers
  /\ torn \subseteq DOMAIN offers

OneProcess == \A s, u \in Searches : host[s] = host[u]

\* The client of a stream left the search, or one of its tasks raised: other tasks may
\* go on after its session was closed.
LeftBehind(s) ==
  s \in Streams \/ \E t \in Tasks : t[1] = s /\ result[t] \in {"raised", "illegible"}

\* The price an offer shows is one its history knows, and while one process serves
\* every search the last one there, unless a task is about to add it or the offer is
\* torn; and offers are torn only where a statement raised or a session was closed
\* while tasks of a request that had ended still ran.  No timeout, no other search
\* and no request that is answered comes between an offer and its history.
OfferPriceExplained ==
  /\ \A i \in DOMAIN offers :
       LET pending == \E t \in Tasks : Owes(t) /\ hit[t] = i
       IN offers[i].price # NoPrice /\ ~pending /\ i \notin torn
            => /\ offers[i].price \in ToSet(history[i])
               /\ OneProcess => Last(history[i]) = offers[i].price
  /\ torn # {} => faults > 0 \/ \E s \in Searches : outcome[s] = "closed" /\ LeftBehind(s)

\* No two offers of a source have the same title while one process serves every
\* search, although nothing but the absence of an await between the look-up and the
\* insertion prevents it.
OneOfferPerTitle ==
  OneProcess => \A i, j \in DOMAIN offers :
    offers[i].source = offers[j].source /\ offers[i].title = offers[j].title => i = j

\* While one process serves every search and nothing it calls raises, a task meets
\* neither a product another one has just inserted, nor a session another one has
\* broken, nor rows it can no longer read, unless its request had ended: its client
\* left, or a task of it found a price or a rating it cannot make a number of.
OnlyFaultsFail ==
  OneProcess /\ faults = 0 =>
    \A t \in Tasks : result[t] = "raised" =>
      /\ outcome[t[1]] \in {"failed", "closed"}
      /\ \/ t[1] \in Streams
         \/ \E u \in Tasks : u[1] = t[1] /\ result[u] = "illegible"

\* What a task owes: the price it has just given an offer.
Owed == [t \in Tasks |->
  IF Owes(t) THEN [offer |-> hit[t], price |-> data[t].price]
  ELSE [offer |-> 0, price |-> NoPrice]]

Catalogue == INSTANCE ShopCatalogue WITH
  Writers <- Tasks, SourceOf <- [t \in Tasks |-> t[2]], owed <- Owed

\* _persist_offer, in any number of tasks, searches and processes, keeps what
\* ShopCatalogue promises: through timeouts, clients that leave, sessions closed
\* under it and statements that raise, a price is added to its offer's history once,
\* or the offer is torn, no offer names a product that is not there, and none is
\* another source's.
ImplementsCatalogue == Catalogue!Spec
=============================================================================
