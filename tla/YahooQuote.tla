----------------------------- MODULE YahooQuote -----------------------------
(***************************************************************************)
(* fetch_yahoo_full (app/services/yahoo_finance.py): a quote out of the    *)
(* cache, or out of a cascade of sources tried one after the other under a *)
(* semaphore of two: curl, the browser grid, a stealth browser, the        *)
(* session's API, plain HTTP, the browser's own network traffic, the chart *)
(* API, screenshots read by a vision model, and the page's HTML.           *)
(*                                                                         *)
(* What a call has gathered is the record of its sources.  Each says       *)
(* whether it has a regularMarketPrice and whom the price is for: "mine"   *)
(* the symbol asked for, "other" another one, "anon" nobody by name.  A    *)
(* price of the API or of the vision model with no name is taken for       *)
(* "mine", as parse_flat_price_for_ticker does.                            *)
(***************************************************************************)
EXTENDS CrawlCache

CONSTANTS Requests,      \* of all endpoints; a request makes at most one call
          Symbols,
          QuoteKey,      \* yahoo:full:<symbol>, a key of the cache
          YahooPermits,  \* YAHOO_FETCH_CONCURRENCY
          UseCurl,       \* YAHOO_USE_CURL_CFFI
          UseGrid,       \* YAHOO_USE_BROWSER_GRID
          VisionEnabled

ASSUME YahooAssumption ==
  /\ QuoteKey \in [Symbols -> Keys] /\ YahooPermits \in Nat \ {0}
  /\ UseCurl \in BOOLEAN /\ UseGrid \in BOOLEAN /\ VisionEnabled \in BOOLEAN

VARIABLES stage,   \* where the call of a request stands
          quote,   \* what it has gathered
          heard    \* history: a usable price reached the call

yahoo == <<stage, quote, heard>>

Nothing ==
  [modules |-> FALSE,   \* quoteSummary answered
   price   |-> "none",  \* price.regularMarketPrice: none, mine, other
   vision  |-> "none",  \* vision.regularMarketPrice: none, mine, other
   html    |-> FALSE,   \* html.regularMarketPrice: for the symbol
   asp     |-> FALSE,   \* asp.regularMarketPrice: anon
   chart   |-> "none",  \* chart.regularMarketPrice: none, anon, mine
   page    |-> "none",  \* the HTML kept: none, bare, priced (for the symbol)
   browser |-> FALSE,   \* the stealth browser's result can be used again
   asked   |-> FALSE,   \* vision_fallback
   seen    |-> FALSE]   \* vision_fallback_ok

\* parse_flat_price_for_ticker finds a price: an anonymous asp price hides the chart.
Scoped(q) ==
  q.price = "mine" \/ q.vision = "mine" \/ q.html \/ (~q.asp /\ q.chart = "mine")

\* _sanitize_flat_for_ticker drops the anonymous price of the ASP result.
Sanitized(q) == [q EXCEPT !.asp = FALSE]

\* is_valid_yahoo_quote of what is left.
IsValid(q) == Scoped(Sanitized(q))

\* _has_quote_price without a symbol: any price of anybody, the API's not yet among
\* them.
HasQuotePrice(q) == q.asp \/ q.chart # "none" \/ q.vision # "none"

Running == {"curl", "grid", "stealth", "session", "http", "network", "chart", "vision",
            "html", "again", "store"}
Holders == {r \in Requests : stage[r] \in Running}

GoTo(r, where)    == stage' = [stage EXCEPT ![r] = where]
Gathers(r, q)     == quote' = [quote EXCEPT ![r] = q]
Hears(r, really)  == heard' = [heard EXCEPT ![r] = @ \/ really]
OwnState          == UNCHANGED <<cache, now>>

\* A call is over and its permit free: how is ok, error, raised, or cut, when the
\* exception is the cache's.
Ends(r, how) ==
  /\ stage' = [stage EXCEPT ![r] = how]
  /\ quote' = [quote EXCEPT ![r] = Nothing]

\* The quoteSummary modules settle the cascade; flattened, they may or may not
\* have the symbol's price.
AfterModules(r, sofar) ==
  \E whose \in {"none", "mine", "other"} :
    LET q == [sofar EXCEPT !.modules = TRUE, !.price = whose] IN
    /\ Gathers(r, q) /\ Hears(r, whose = "mine")
    /\ GoTo(r, IF Scoped(q) THEN "store" ELSE "html")
-----------------------------------------------------------------------------
\* The look-up, unless force_refresh.
Begin(r, forced) ==
  /\ GoTo(r, IF forced THEN "wait" ELSE "read")
  /\ UNCHANGED <<quote, heard>>

ReadKeepsInvalid(r, sym) ==
  /\ stage[r] = "read"
  /\ GoTo(r, IF Hit(QuoteKey[sym], AnyAge) /\ cache[QuoteKey[sym]].value.valid THEN "ok" ELSE "wait")
  /\ UNCHANGED <<quote, heard>> /\ OwnState

\* A quote in the cache is checked again: an earlier release may have stored it.
Read(r, sym) ==
  /\ stage[r] = "read"
  /\ IF ~Hit(QuoteKey[sym], AnyAge) THEN GoTo(r, "wait")
     ELSE IF cache[QuoteKey[sym]].value.valid THEN GoTo(r, "ok") ELSE GoTo(r, "evict")
  /\ UNCHANGED <<quote, heard>> /\ OwnState

ReadRaises(r) ==
  /\ stage[r] = "read"
  /\ GetRaises /\ GoTo(r, "cut")
  /\ UNCHANGED <<quote, heard, now>>

Evict(r, sym) ==
  /\ stage[r] = "evict"
  /\ \/ Invalidate(QuoteKey[sym]) /\ GoTo(r, "wait")
     \/ InvalidateRaises(QuoteKey[sym]) /\ GoTo(r, "cut")
  /\ UNCHANGED <<quote, heard, now>>

AcquireUnlimited(r) ==
  /\ stage[r] = "wait"
  /\ GoTo(r, IF UseCurl THEN "curl" ELSE IF UseGrid THEN "grid" ELSE "stealth")
  /\ UNCHANGED <<quote, heard>> /\ OwnState

\* async with _yahoo_fetch_semaphore; the cache is not looked at again.
Acquire(r) ==
  /\ stage[r] = "wait" /\ Cardinality(Holders) < YahooPermits
  /\ GoTo(r, IF UseCurl THEN "curl" ELSE IF UseGrid THEN "grid" ELSE "stealth")
  /\ UNCHANGED <<quote, heard>> /\ OwnState

\* fetch_yahoo_quote_summary_curl; every exception is caught.
Curl(r) ==
  /\ stage[r] = "curl"
  /\ \/ AfterModules(r, quote[r])
     \/ GoTo(r, IF UseGrid THEN "grid" ELSE "stealth") /\ UNCHANGED <<quote, heard>>
  /\ OwnState

\* The price an ASP result shows has no name even when the page gave it one.
PageResult(r, priced, page) ==
  [quote[r] EXCEPT !.asp = @ \/ priced, !.page = IF page = "none" THEN @ ELSE page]

Grid(r) ==
  /\ stage[r] = "grid"
  /\ \/ \E priced \in BOOLEAN, page \in {"none", "bare", "priced"} :
          Gathers(r, PageResult(r, priced, page))
     \/ UNCHANGED quote
  /\ GoTo(r, "stealth")
  /\ UNCHANGED heard /\ OwnState

Stealth(r) ==
  /\ stage[r] = "stealth"
  /\ \/ \E priced, cookies \in BOOLEAN, page \in {"none", "bare", "priced"} :
          Gathers(r, [PageResult(r, priced, page) EXCEPT !.browser = page # "none" /\ cookies])
     \/ UNCHANGED quote
  /\ GoTo(r, "session")
  /\ UNCHANGED heard /\ OwnState

\* fetch_yahoo_quote_with_browser_session fetches the page anew unless the result
\* it is given can be used; a page that is blocked ends it.  An answer that is no
\* JSON is in no try, and ends the call.
Session(r) ==
  /\ stage[r] = "session"
  /\ \/ AfterModules(r, quote[r])
     \/ /\ GoTo(r, "http") /\ UNCHANGED heard
        /\ \/ UNCHANGED quote
           \/ ~quote[r].browser /\ \E page \in {"bare", "priced"} :
                Gathers(r, [quote[r] EXCEPT !.page = page])
     \/ Ends(r, "raised") /\ UNCHANGED heard
  /\ OwnState

HttpRetries(r) ==
  /\ stage[r] = "http"
  /\ \/ AfterModules(r, quote[r])
     \/ GoTo(r, "session") /\ UNCHANGED <<quote, heard>>
  /\ OwnState

\* fetch_quote_summary_http; the request that warms its session is in no try, and
\* its exception ends the call.
Http(r) ==
  /\ stage[r] = "http"
  /\ \/ AfterModules(r, quote[r])
     \/ GoTo(r, "network") /\ UNCHANGED <<quote, heard>>
     \/ Ends(r, "raised") /\ UNCHANGED heard
  /\ OwnState

\* fetch_yahoo_modules_via_browser_network; the chart's price comes without a name,
\* and an exception anywhere leaves what there was.
Network(r) ==
  /\ stage[r] = "network"
  /\ \E charted \in BOOLEAN, page \in {"none", "bare", "priced"} :
       LET q == [quote[r] EXCEPT
                   !.chart = IF charted /\ ~HasQuotePrice(quote[r]) THEN "anon" ELSE @,
                   !.page  = IF page = "none" THEN @ ELSE page]
       IN \/ AfterModules(r, q)
          \/ /\ Gathers(r, q) /\ UNCHANGED heard
             /\ GoTo(r, IF HasQuotePrice(q) THEN "vision" ELSE "chart")
  /\ OwnState

\* fetch_yahoo_chart_http: curl names the symbol, httpx does not.
Chart(r) ==
  /\ stage[r] = "chart"
  /\ \E whose \in {"none", "anon"} \cup (IF UseCurl THEN {"mine"} ELSE {}) :
       /\ Gathers(r, [quote[r] EXCEPT !.chart = whose])
       /\ Hears(r, whose = "mine")
  /\ GoTo(r, "vision")
  /\ OwnState

(* After the cascade: the HTML, unless vision was asked; vision once more, unless
   it answered; then the verdict. *)
AfterVision(q) ==
  IF Scoped(q) THEN "store" ELSE IF ~q.asked THEN "html"
  ELSE IF q.modules \/ q.seen THEN "store" ELSE "again"

AfterHtml(q) == IF Scoped(q) \/ q.modules \/ q.seen THEN "store" ELSE "again"

AskVisionClears(r) ==
  IF ~VisionEnabled THEN UNCHANGED <<quote, heard>>
  ELSE \/ Gathers(r, [quote[r] EXCEPT !.asked = TRUE, !.seen = FALSE]) /\ UNCHANGED heard
       \/ \E whose \in {"none", "mine", "other"} :
            /\ Gathers(r, [quote[r] EXCEPT !.asked = TRUE, !.seen = TRUE, !.vision = whose,
                             !.asp = FALSE, !.chart = "none"])
            /\ Hears(r, whose = "mine")

\* _run_vision_fallback, and _merge_flat_with_vision, which drops an asp price that
\* differs.
AskVision(r) ==
  IF ~VisionEnabled THEN UNCHANGED <<quote, heard>>
  ELSE \/ Gathers(r, [quote[r] EXCEPT !.asked = TRUE, !.seen = FALSE]) /\ UNCHANGED heard
       \/ \E whose \in {"none", "mine", "other"}, differs \in BOOLEAN :
            /\ Gathers(r, [quote[r] EXCEPT !.asked = TRUE, !.seen = TRUE, !.vision = whose,
                             !.asp = @ /\ ~(whose # "none" /\ differs)])
            /\ Hears(r, whose = "mine")

Vision(r) ==
  /\ stage[r] = "vision"
  /\ AskVision(r)
  /\ GoTo(r, AfterVision(quote'[r]))
  /\ OwnState

\* parse_price_for_symbol of the page kept, or of one fetched now.
Html(r) ==
  /\ stage[r] = "html"
  /\ \E page \in IF quote[r].page = "none" THEN {"none", "bare", "priced"} ELSE {quote[r].page} :
       LET q == [quote[r] EXCEPT !.page = page, !.html = page = "priced"] IN
       /\ Gathers(r, q) /\ Hears(r, q.html)
       /\ GoTo(r, AfterHtml(q))
  /\ OwnState

\* The "safety net": vision again, also where it ran and failed.
Again(r) ==
  /\ stage[r] = "again"
  /\ AskVision(r)
  /\ GoTo(r, "store")
  /\ OwnState

\* The sanitised quote is stored if it is valid; the permit goes back.
Store(r, sym) ==
  /\ stage[r] = "store"
  /\ IF IsValid(quote[r])
       THEN \/ Set(QuoteKey[sym], [valid |-> TRUE]) /\ Ends(r, "ok")
            \/ SetRaises(QuoteKey[sym], [valid |-> TRUE]) /\ Ends(r, "cut")
       ELSE UNCHANGED cache /\ Ends(r, "error")
  /\ UNCHANGED <<heard, now>>

FetchYahooFull(r, sym) ==
  \/ Read(r, sym) \/ ReadRaises(r) \/ Evict(r, sym) \/ Acquire(r) \/ Curl(r) \/ Grid(r) \/ Stealth(r)
  \/ Session(r) \/ Http(r) \/ Network(r) \/ Chart(r) \/ Vision(r) \/ Html(r) \/ Again(r)
  \/ Store(r, sym)

YahooInit ==
  /\ stage = [r \in Requests |-> "idle"]
  /\ quote = [r \in Requests |-> Nothing]
  /\ heard = [r \in Requests |-> FALSE]

YahooTypeOK ==
  /\ heard \in [Requests -> BOOLEAN]
  /\ \A r \in Requests :
       /\ quote[r] \in [modules : BOOLEAN, price : {"none", "mine", "other"},
            vision : {"none", "mine", "other"}, html : BOOLEAN, asp : BOOLEAN,
            chart : {"none", "anon", "mine"}, page : {"none", "bare", "priced"},
            browser : BOOLEAN, asked : BOOLEAN, seen : BOOLEAN]
       /\ r \notin Holders => quote[r] = Nothing
       \* Modules end the cascade, and the chart is asked only without a price.
       /\ quote[r].modules => ~quote[r].asked
       /\ ~(quote[r].asp /\ quote[r].chart # "none")
  /\ Cardinality(Holders) <= YahooPermits

\* Whatever comes later in the cascade, a call that was given a price for its symbol
\* by a source that counts ends with a quote: no merge, no clean-up and no later
\* source's failure loses it.  Only the cache can: the write of the finished quote is
\* in no try, and with Redis down the call ends "cut" by it instead of with the quote.
PriceNotLost == \A r \in Requests : heard[r] => stage[r] \notin {"error", "raised"}
=============================================================================
