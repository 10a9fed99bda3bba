----------------------------- MODULE FinanceApi -----------------------------
(***************************************************************************)
(* The endpoints that share the crawl cache: quotes, pages, raw HTML, news *)
(* and filings (app/api/finance_compat.py), POST /crawl of Zenith          *)
(* (app/api/zenith_compat.py), Firecrawl's /v1/scrape                      *)
(* (firecrawl_compat.py), and DELETE /cache.                               *)
(*                                                                         *)
(* Quotes go through YahooQuote.  The other requests have a shape in       *)
(* common: a look-up, one source or two, a vision model, and a write; they *)
(* differ in which of these they do.                                       *)
(***************************************************************************)
EXTENDS YahooQuote

CONSTANTS Scenarios,   \* [kind, sym, key, forced, maxAge, store] of each request
          OldCaches    \* what the cache may hold when the requests arrive

QuoteKinds == {"quote", "zenith"}
Kinds      == QuoteKinds \cup {"page", "firecrawl", "html", "news", "sec", "clear"}

ASSUME ScenariosAssumption ==
  \A asked \in Scenarios, r \in Requests :
    asked[r].kind \in Kinds /\ asked[r].sym \in Symbols /\ asked[r].key \in Keys

ASSUME OldCachesAssumption ==
  /\ OldCaches \subseteq [Keys -> {NoEntry} \cup [value : [valid : BOOLEAN], at : {0}]]
  /\ NoEntry \notin [value : [valid : BOOLEAN], at : Nat]

VARIABLE asks

vars == <<cache, now, yahoo, asks>>

Init ==
  /\ asks \in Scenarios
  /\ cache \in OldCaches /\ now = 0
  /\ YahooInit

ForQuote(r) == asks[r].kind \in QuoteKinds

\* The request looks into the cache first.
Reads(r) ==
  CASE asks[r].kind \in {"page", "html", "news"} -> ~asks[r].forced
    [] asks[r].kind = "firecrawl"                -> asks[r].maxAge # 0
    [] OTHER                                     -> FALSE

\* It stores what it fetched; raw HTML only when it had looked for it.
Keeps(r) ==
  CASE asks[r].kind \in {"page", "news"} -> TRUE
    [] asks[r].kind = "html"             -> ~asks[r].forced
    [] asks[r].kind = "firecrawl"        -> asks[r].store
    [] OTHER                             -> FALSE

HasFallback(r) == asks[r].kind \in {"page", "news", "sec"}

\* Its sources are through.
Verdict(r, good) == IF ~good THEN "refused" ELSE IF Keeps(r) THEN "keep" ELSE "ok"
-----------------------------------------------------------------------------
Stays == UNCHANGED <<quote, heard, asks>>

ArriveQuote(r) ==
  /\ stage[r] = "idle" /\ ForQuote(r)
  /\ Begin(r, asks[r].forced)
  /\ OwnState /\ UNCHANGED asks

ArrivePage(r) ==
  /\ stage[r] = "idle" /\ ~ForQuote(r) /\ asks[r].kind # "clear"
  /\ GoTo(r, IF Reads(r) THEN "look" ELSE "first")
  /\ Stays /\ OwnState

Clear(r) ==
  /\ stage[r] = "idle" /\ asks[r].kind = "clear"
  /\ \/ ClearAll /\ GoTo(r, "ok")
     \/ ClearRaises /\ GoTo(r, "cut")
  /\ Stays /\ UNCHANGED now

QuoteStep(r) ==
  /\ ForQuote(r)
  /\ FetchYahooFull(r, asks[r].sym)
  /\ UNCHANGED asks

Look(r) ==
  /\ stage[r] = "look"
  /\ \/ UNCHANGED cache /\ GoTo(r, IF Hit(asks[r].key, asks[r].maxAge) THEN "ok" ELSE "first")
     \/ GetRaises /\ GoTo(r, "cut")
  /\ Stays /\ UNCHANGED now

\* What is left to do when a source answered.
AfterSource(r, good) ==
  \/ ~(asks[r].kind = "page" /\ VisionEnabled) /\ GoTo(r, Verdict(r, good))
  \/ asks[r].kind = "page" /\ VisionEnabled
     /\ \/ good /\ GoTo(r, Verdict(r, good))          \* usable as it is
        \/ GoTo(r, IF good THEN "adorn" ELSE "rescue")

\* fetch_compliant, crawl_single for Firecrawl, the RSS feed for news.
First(r) ==
  /\ stage[r] = "first"
  /\ \/ AfterSource(r, TRUE)
     \/ IF HasFallback(r) THEN GoTo(r, "second") ELSE AfterSource(r, FALSE)
  /\ Stays /\ OwnState

\* crawl_single, or the HTML of the news page.
Second(r) ==
  /\ stage[r] = "second"
  /\ \E good \in BOOLEAN : AfterSource(r, good)
  /\ Stays /\ OwnState

\* maybe_apply_vision_fallback leaves the status of the page as it was: a page that
\* is only known from screenshots is answered, and not stored.  Without a retailer
\* the visit of the browser is in no try.
Adorn(r) ==
  /\ stage[r] = "adorn"
  /\ \E where \in {Verdict(r, TRUE), "raised"} : GoTo(r, where)
  /\ Stays /\ OwnState

Rescue(r) ==
  /\ stage[r] = "rescue"
  /\ \E where \in {"ok", "refused", "raised"} : GoTo(r, where)
  /\ Stays /\ OwnState

Keep(r) ==
  /\ stage[r] = "keep"
  /\ \/ Set(asks[r].key, [valid |-> TRUE]) /\ GoTo(r, "ok")
     \/ SetRaises(asks[r].key, [valid |-> TRUE]) /\ GoTo(r, "cut")
  /\ Stays /\ UNCHANGED now

\* Zenith's crawl of a quote page goes on to the hybrid router without a quote, and
\* answers whatever that gives; without an active source it refuses.
Route(r) ==
  /\ stage[r] = "error" /\ asks[r].kind = "zenith"
  /\ \/ GoTo(r, "hybrid")
     \/ GoTo(r, "refused")
  /\ Stays /\ OwnState

Routed(r) ==
  /\ stage[r] = "hybrid"
  /\ \E where \in {"ok", "raised"} \cup (IF VisionEnabled THEN {"shown"} ELSE {}) : GoTo(r, where)
  /\ Stays /\ OwnState

Shown(r) ==
  /\ stage[r] = "shown"
  /\ \E where \in {"ok", "raised"} : GoTo(r, where)
  /\ Stays /\ OwnState

Answered(r) ==
  stage[r] \in {"ok", "refused", "raised", "cut"} \/ (stage[r] = "error" /\ asks[r].kind = "quote")

TimePasses == Tick /\ UNCHANGED <<yahoo, asks>>

Step(r) ==
  \/ ArriveQuote(r) \/ ArrivePage(r) \/ Clear(r) \/ QuoteStep(r) \/ Look(r) \/ First(r)
  \/ Second(r) \/ Adorn(r) \/ Rescue(r) \/ Keep(r) \/ Route(r) \/ Routed(r) \/ Shown(r)

\* Nothing is left to do: the only place the model stops.
Idle == (\A r \in Requests : Answered(r)) /\ UNCHANGED vars

Progress == \E r \in Requests : Step(r)

Next == Progress \/ TimePasses \/ Idle

Spec     == Init /\ [][Next]_vars
FairSpec == Spec /\ WF_vars(Progress)
-----------------------------------------------------------------------------
\* A permit is held by the calls of the cascade, at most YahooPermits of them, and
\* what a call gathered is gone when it ends.
FinanceTypeOK ==
  /\ YahooTypeOK
  /\ stage \in [Requests -> Running \cup {"idle", "read", "evict", "wait", "ok", "error",
       "raised", "cut", "look", "first", "second", "adorn", "rescue", "keep", "hybrid", "shown",
       "refused"}]
  /\ asks \in Scenarios /\ now \in 0 .. MaxTime
  /\ \A k \in Keys : cache[k] # NoEntry =>
       cache[k].value \in [valid : BOOLEAN] /\ cache[k].at \in 0 .. now

\* A quote that does not name its symbol, left in the cache by an earlier release, is
\* gone when a request that looked it up was answered, whatever the others did
\* between its look-up and its eviction: nobody puts it back.  A request which the
\* cache's own exception ended, at its look-up or at its eviction, may leave it.
PoisonRemoved ==
  \A r \in Requests : ForQuote(r) /\ ~asks[r].forced /\ Answered(r) /\ stage[r] # "cut" =>
    LET entry == cache[QuoteKey[asks[r].sym]] IN entry # NoEntry => entry.value.valid

\* Every request is answered: the permits come back whatever ends a call, and no
\* request waits for another one for ever.
EveryRequestAnswered == <>(\A r \in Requests : Answered(r))
=============================================================================
