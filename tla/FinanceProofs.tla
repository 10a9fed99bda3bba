---------------------------- MODULE FinanceProofs ----------------------------
(***************************************************************************)
(* Proofs about FinanceApi, and so about YahooQuote and CrawlCache: for    *)
(* any requests in any mix, any symbols, keys, times to live and permits.  *)
(***************************************************************************)
EXTENDS FinanceApi, FiniteSetTheorems, TLAPS

Quotes ==
  [modules : BOOLEAN, price : {"none", "mine", "other"}, vision : {"none", "mine", "other"},
   html : BOOLEAN, asp : BOOLEAN, chart : {"none", "anon", "mine"},
   page : {"none", "bare", "priced"}, browser : BOOLEAN, asked : BOOLEAN, seen : BOOLEAN]

Stages == Running \cup {"idle", "read", "evict", "wait", "ok", "error", "raised", "cut", "look", "first",
            "second", "adorn", "rescue", "keep", "hybrid", "shown", "refused"}

Early == {"curl", "grid", "stealth", "session", "http", "network"}

\* What a call has gathered at each stage: nothing named before the modules or the
\* chart, and a price that names the symbol only on the way to the store.
Gathered(where, q, told) ==
  /\ where \notin Running => q = Nothing
  /\ q.modules => ~q.asked
  /\ ~(q.asp /\ q.chart # "none")
  /\ where \in Early \cup {"chart", "vision"} =>
       ~q.modules /\ q.price = "none" /\ q.vision = "none" /\ ~q.html /\ ~q.asked /\ ~q.seen
  /\ where \in Early => q.chart \in {"none", "anon"}
  /\ where \in Early \ {"network"} => q.chart = "none"
  /\ where = "chart" => ~q.asp
  /\ where = "html" => ~q.asked
  /\ where = "again" => ~q.modules
  /\ told => (where \in {"vision", "store"} /\ Scoped(q)) \/ where \in {"ok", "cut"}

CallInv ==
  /\ stage \in [Requests -> Stages] /\ quote \in [Requests -> Quotes]
  /\ heard \in [Requests -> BOOLEAN]
  /\ \A r \in Requests : Gathered(stage[r], quote[r], heard[r])

PermitInv == IsFiniteSet(Holders) /\ Cardinality(Holders) <= YahooPermits

Entries == [value : [valid : BOOLEAN], at : Nat]

CacheInv ==
  /\ asks \in Scenarios /\ now \in 0 .. MaxTime
  /\ cache \in [Keys -> {NoEntry} \cup Entries]
  /\ \A k \in Keys : cache[k] # NoEntry => cache[k].at <= now /\ now - cache[k].at < Ttl[k]

\* The entry of a key is a quote that names its symbol, if there is one.
Sound(k) == cache[k] # NoEntry => cache[k].value.valid

\* From the eviction on the entry is sound, whoever writes it, unless the cache's own
\* exception ended the request.
CleanInv ==
  \A r \in Requests :
    ForQuote(r) /\ ~asks[r].forced /\ stage[r] \notin {"idle", "read", "evict", "cut"}
      => Sound(QuoteKey[asks[r].sym])

Inv == CallInv /\ PermitInv /\ CacheInv /\ CleanInv
-----------------------------------------------------------------------------
LEMMA Constants ==
  /\ Ttl \in [Keys -> Nat \ {0}] /\ MaxTime \in Nat
  /\ QuoteKey \in [Symbols -> Keys] /\ YahooPermits \in Nat /\ YahooPermits >= 1
  /\ \A asked \in Scenarios, r \in Requests :
       asked[r].kind \in Kinds /\ asked[r].sym \in Symbols /\ asked[r].key \in Keys
  /\ NoEntry \notin Entries
BY CacheAssumption, YahooAssumption, ScenariosAssumption, OldCachesAssumption DEF Entries

LEMMA NothingIs ==
  /\ Nothing \in Quotes /\ ~Scoped(Nothing)
  /\ ~Nothing.modules /\ Nothing.price = "none" /\ Nothing.vision = "none" /\ ~Nothing.html
  /\ ~Nothing.asp /\ Nothing.chart = "none" /\ ~Nothing.asked /\ ~Nothing.seen
  /\ Nothing.page = "none" /\ ~Nothing.browser
BY DEF Nothing, Quotes, Scoped

\* What one request does to its own call, the others' being left alone.
Moves(r, where, q, told) ==
  /\ stage' = [stage EXCEPT ![r] = where] /\ quote' = [quote EXCEPT ![r] = q]
  /\ heard' = [heard EXCEPT ![r] = told]

LEMMA MovesKeep ==
  ASSUME CallInv, NEW r \in Requests, NEW where \in Stages, NEW q \in Quotes, NEW told \in BOOLEAN,
         Moves(r, where, q, told), Gathered(where, q, told)
  PROVE  CallInv'
<1>1. /\ stage' \in [Requests -> Stages] /\ quote' \in [Requests -> Quotes]
      /\ heard' \in [Requests -> BOOLEAN]
  BY DEF CallInv, Moves
<1>2. ASSUME NEW u \in Requests PROVE Gathered(stage'[u], quote'[u], heard'[u])
  <2>1. CASE u = r
    BY <2>1 DEF CallInv, Moves
  <2>2. CASE u # r
    BY <2>2 DEF CallInv, Moves
  <2>3. QED
    BY <2>1, <2>2
<1>3. QED
  BY <1>1, <1>2 DEF CallInv

\* A request that only moves on, with what it has.
LEMMA GoesKeep ==
  ASSUME CallInv, NEW r \in Requests, NEW where \in Stages, GoTo(r, where), UNCHANGED <<quote, heard>>,
         Gathered(where, quote[r], heard[r])
  PROVE  CallInv'
<1>1. quote[r] \in Quotes /\ heard[r] \in BOOLEAN
  BY DEF CallInv
<1>2. quote' = [quote EXCEPT ![r] = quote[r]] /\ heard' = [heard EXCEPT ![r] = heard[r]]
  BY DEF CallInv
<1>3. Moves(r, where, quote[r], heard[r])
  BY <1>2 DEF Moves, GoTo
<1>4. QED
  BY <1>1, <1>3, MovesKeep

\* Outside the cascade a request has nothing, and a price was heard only by a call
\* that is over.
LEMMA OutsideKeeps ==
  ASSUME CallInv, NEW r \in Requests, NEW where \in Stages \ Running,
         stage[r] \in Stages \ (Running \cup {"ok", "cut"}),
         GoTo(r, where), UNCHANGED <<quote, heard>>
  PROVE  CallInv'
<1>1. quote[r] = Nothing /\ ~heard[r]
  BY DEF CallInv, Gathered, Running
<1>2. Gathered(where, quote[r], heard[r])
  BY <1>1, NothingIs DEF Gathered, Running, Early
<1>3. QED
  BY <1>2, GoesKeep

\* The call of a request alone can be told to move, from the parts of an action.
LEMMA ActsAre ==
  ASSUME CallInv, NEW r \in Requests, NEW where \in Stages, NEW q \in Quotes, NEW told \in BOOLEAN,
         GoTo(r, where), Gathers(r, q), Hears(r, told), Gathered(where, q, heard[r] \/ told)
  PROVE  CallInv'
<1>1. heard[r] \in BOOLEAN /\ (heard[r] \/ told) \in BOOLEAN
  BY DEF CallInv
<1>2. Moves(r, where, q, heard[r] \/ told)
  BY DEF Moves, GoTo, Gathers, Hears, CallInv
<1>3. QED
  BY <1>1, <1>2, MovesKeep

\* The same without a price.
LEMMA ActsSilently ==
  ASSUME CallInv, NEW r \in Requests, NEW where \in Stages, NEW q \in Quotes,
         GoTo(r, where), Gathers(r, q), UNCHANGED heard, Gathered(where, q, heard[r])
  PROVE  CallInv'
<1>1. heard[r] \in BOOLEAN /\ heard' = [heard EXCEPT ![r] = heard[r]]
  BY DEF CallInv
<1>2. Moves(r, where, q, heard[r])
  BY <1>1 DEF Moves, GoTo, Gathers
<1>3. QED
  BY <1>1, <1>2, MovesKeep

\* The quoteSummary modules come to a call that nobody has named a symbol to.
LEMMA ModulesKeep ==
  ASSUME CallInv, NEW r \in Requests, NEW sofar \in Quotes, AfterModules(r, sofar),
         ~heard[r], sofar.vision = "none", ~sofar.html, ~sofar.asked, ~sofar.seen,
         sofar.chart \in {"none", "anon"}, ~(sofar.asp /\ sofar.chart # "none")
  PROVE  CallInv'
<1>1. PICK whose \in {"none", "mine", "other"} :
        LET q == [sofar EXCEPT !.modules = TRUE, !.price = whose] IN
        /\ Gathers(r, q) /\ Hears(r, whose = "mine")
        /\ GoTo(r, IF Scoped(q) THEN "store" ELSE "html")
  BY DEF AfterModules
<1> DEFINE q == [sofar EXCEPT !.modules = TRUE, !.price = whose]
           where == IF Scoped(q) THEN "store" ELSE "html"
<1>2. /\ q \in Quotes /\ q.modules /\ q.price = whose /\ q.vision = "none" /\ ~q.html
      /\ q.chart \in {"none", "anon"} /\ ~q.asked /\ ~q.seen /\ ~(q.asp /\ q.chart # "none")
  BY DEF Quotes
<1>3. Scoped(q) <=> whose = "mine"
  BY <1>2 DEF Scoped
<1> HIDE DEF q
<1>4. Gathered(where, q, heard[r] \/ whose = "mine")
  BY <1>2, <1>3 DEF Gathered, Running, Early
<1>5. where \in Stages
  BY DEF Stages, Running
<1> HIDE DEF where
<1>6. GoTo(r, where) /\ Gathers(r, q) /\ Hears(r, whose = "mine")
  BY <1>1 DEF q, where
<1>7. QED
  BY <1>2, <1>4, <1>5, <1>6, ActsAre

\* What a call in the cascade has, before the sources that name a symbol.
LEMMA EarlyHas ==
  ASSUME CallInv, NEW r \in Requests, stage[r] \in Early
  PROVE  /\ quote[r] \in Quotes /\ ~heard[r]
         /\ ~quote[r].modules /\ quote[r].price = "none" /\ quote[r].vision = "none"
         /\ ~quote[r].html /\ ~quote[r].asked /\ ~quote[r].seen
         /\ quote[r].chart \in {"none", "anon"} /\ (stage[r] # "network" => quote[r].chart = "none")
         /\ ~(quote[r].asp /\ quote[r].chart # "none")
BY DEF CallInv, Gathered, Early
-----------------------------------------------------------------------------
LEMMA CurlKeeps == ASSUME CallInv, NEW r \in Requests, Curl(r) PROVE CallInv'
<1>1. CASE AfterModules(r, quote[r])
  BY <1>1, EarlyHas, ModulesKeep DEF Curl, Early
<1>2. CASE GoTo(r, IF UseGrid THEN "grid" ELSE "stealth") /\ UNCHANGED <<quote, heard>>
  <2> DEFINE where == IF UseGrid THEN "grid" ELSE "stealth"
  <2>1. where \in Stages /\ Gathered(where, quote[r], heard[r])
    BY EarlyHas DEF Curl, Stages, Running, Gathered, Early, CallInv
  <2>2. QED
    BY <1>2, <2>1, GoesKeep
<1>3. QED
  BY <1>1, <1>2 DEF Curl

\* A page fetched in the cascade names nobody.
LEMMA PagesKeep ==
  ASSUME CallInv, NEW r \in Requests, NEW q \in Quotes, NEW where \in Early \ {"curl"},
         stage[r] \in Early \ {"network"}, GoTo(r, where), Gathers(r, q), UNCHANGED heard,
         q.modules = quote[r].modules, q.price = quote[r].price, q.vision = quote[r].vision,
         q.html = quote[r].html, q.chart = quote[r].chart, q.asked = quote[r].asked,
         q.seen = quote[r].seen
  PROVE  CallInv'
<1>1. Gathered(where, q, heard[r])
  BY EarlyHas DEF Gathered, Early, Running, CallInv
<1>2. where \in Stages
  BY DEF Stages, Running, Early
<1>3. QED
  BY <1>1, <1>2, ActsSilently

LEMMA SilentKeep ==
  ASSUME CallInv, NEW r \in Requests, NEW where \in Early, stage[r] \in Early \ {"network"},
         GoTo(r, where), UNCHANGED <<quote, heard>>
  PROVE  CallInv'
<1>1. Gathered(where, quote[r], heard[r])
  BY EarlyHas DEF Gathered, Early, Running, CallInv
<1>2. where \in Stages
  BY DEF Stages, Running, Early
<1>3. QED
  BY <1>1, <1>2, GoesKeep

LEMMA PageResultIs ==
  ASSUME CallInv, NEW r \in Requests, NEW priced \in BOOLEAN, NEW page \in {"none", "bare", "priced"},
         NEW q, q = PageResult(r, priced, page)
  PROVE  /\ q \in Quotes
         /\ q.modules = quote[r].modules /\ q.price = quote[r].price
         /\ q.vision = quote[r].vision /\ q.html = quote[r].html
         /\ q.chart = quote[r].chart /\ q.asked = quote[r].asked /\ q.seen = quote[r].seen
<1>1. quote[r] \in Quotes
  BY DEF CallInv
<1> DEFINE asp == quote[r].asp \/ priced
           found == IF page = "none" THEN quote[r].page ELSE page
<1>2. asp \in BOOLEAN /\ found \in {"none", "bare", "priced"}
  BY <1>1 DEF Quotes
<1>3. q = [quote[r] EXCEPT !.asp = asp, !.page = found]
  BY DEF PageResult
<1> HIDE DEF asp, found
<1>4. QED
  BY <1>1, <1>2, <1>3 DEF Quotes

LEMMA UsableIs ==
  ASSUME NEW q \in Quotes, NEW usable \in BOOLEAN, NEW p, p = [q EXCEPT !.browser = usable]
  PROVE  /\ p \in Quotes
         /\ p.modules = q.modules /\ p.price = q.price /\ p.vision = q.vision
         /\ p.html = q.html /\ p.chart = q.chart /\ p.asked = q.asked /\ p.seen = q.seen
BY DEF Quotes

LEMMA GridKeeps == ASSUME CallInv, NEW r \in Requests, Grid(r) PROVE CallInv'
<1>1. CASE UNCHANGED quote
  BY <1>1, SilentKeep DEF Grid, Early
<1>2. ASSUME NEW priced \in BOOLEAN, NEW page \in {"none", "bare", "priced"},
             Gathers(r, PageResult(r, priced, page))
      PROVE  CallInv'
  <2> DEFINE q == PageResult(r, priced, page)
  <2>1. q = PageResult(r, priced, page)
    OBVIOUS
  <2>2. Gathers(r, q)
    BY <1>2
  <2> HIDE DEF q
  <2>3. /\ q \in Quotes
        /\ q.modules = quote[r].modules /\ q.price = quote[r].price
        /\ q.vision = quote[r].vision /\ q.html = quote[r].html
        /\ q.chart = quote[r].chart /\ q.asked = quote[r].asked /\ q.seen = quote[r].seen
    BY <2>1, PageResultIs
  <2>4. stage[r] = "grid" /\ GoTo(r, "stealth") /\ UNCHANGED heard
    BY DEF Grid
  <2>5. QED
    BY <2>2, <2>3, <2>4, PagesKeep DEF Early
<1>3. QED
  BY <1>1, <1>2 DEF Grid

LEMMA StealthKeeps == ASSUME CallInv, NEW r \in Requests, Stealth(r) PROVE CallInv'
<1>1. CASE UNCHANGED quote
  BY <1>1, SilentKeep DEF Stealth, Early
<1>2. ASSUME NEW priced \in BOOLEAN, NEW cookies \in BOOLEAN, NEW page \in {"none", "bare", "priced"},
             Gathers(r, [PageResult(r, priced, page) EXCEPT !.browser = page # "none" /\ cookies])
      PROVE  CallInv'
  <2> DEFINE usable == page # "none" /\ cookies
             q == PageResult(r, priced, page)
             p == [q EXCEPT !.browser = usable]
  <2>1. usable \in BOOLEAN /\ q = PageResult(r, priced, page) /\ p = [q EXCEPT !.browser = usable]
    OBVIOUS
  <2>2. Gathers(r, p)
    BY <1>2
  <2> HIDE DEF usable, q, p
  <2>3. /\ q \in Quotes
        /\ q.modules = quote[r].modules /\ q.price = quote[r].price
        /\ q.vision = quote[r].vision /\ q.html = quote[r].html
        /\ q.chart = quote[r].chart /\ q.asked = quote[r].asked /\ q.seen = quote[r].seen
    BY <2>1, PageResultIs
  <2>4. /\ p \in Quotes
        /\ p.modules = quote[r].modules /\ p.price = quote[r].price
        /\ p.vision = quote[r].vision /\ p.html = quote[r].html
        /\ p.chart = quote[r].chart /\ p.asked = quote[r].asked /\ p.seen = quote[r].seen
    BY <2>1, <2>3, UsableIs
  <2>5. stage[r] = "stealth" /\ GoTo(r, "session") /\ UNCHANGED heard
    BY DEF Stealth
  <2>6. QED
    BY <2>2, <2>4, <2>5, PagesKeep DEF Early
<1>3. QED
  BY <1>1, <1>2 DEF Stealth

\* An exception that ends a call finds it without a price it had heard.
LEMMA RaisesKeep ==
  ASSUME CallInv, NEW r \in Requests, stage[r] \in Early, Ends(r, "raised"), UNCHANGED heard
  PROVE  CallInv'
<1>1. Gathered("raised", Nothing, heard[r])
  BY EarlyHas, NothingIs DEF Gathered, Running, Early
<1>2. "raised" \in Stages
  BY DEF Stages
<1>3. QED
  BY <1>1, <1>2, NothingIs, ActsSilently DEF Ends, GoTo, Gathers

LEMMA SessionKeeps == ASSUME CallInv, NEW r \in Requests, Session(r) PROVE CallInv'
<1>e. stage[r] \in Early \ {"network"} /\ "http" \in Early \ {"curl"}
  BY DEF Session, Early
<1>1. CASE AfterModules(r, quote[r])
  BY <1>1, <1>e, EarlyHas, ModulesKeep
<1>2. CASE GoTo(r, "http") /\ UNCHANGED heard /\ UNCHANGED quote
  BY <1>2, <1>e, SilentKeep
<1>3. ASSUME NEW page \in {"bare", "priced"}, GoTo(r, "http"), UNCHANGED heard,
             Gathers(r, [quote[r] EXCEPT !.page = page])
      PROVE  CallInv'
  <2> DEFINE q == [quote[r] EXCEPT !.page = page]
  <2>1. quote[r] \in Quotes
    BY DEF CallInv
  <2>2. /\ q \in Quotes /\ q.modules = quote[r].modules /\ q.price = quote[r].price
        /\ q.vision = quote[r].vision /\ q.html = quote[r].html /\ q.chart = quote[r].chart
        /\ q.asked = quote[r].asked /\ q.seen = quote[r].seen
    BY <2>1 DEF Quotes
  <2>3. QED
    BY <1>3, <1>e, <2>2, PagesKeep
<1>4. CASE Ends(r, "raised") /\ UNCHANGED heard
  BY <1>4, <1>e, RaisesKeep
<1>5. QED
  BY <1>1, <1>2, <1>3, <1>4 DEF Session

LEMMA HttpKeeps == ASSUME CallInv, NEW r \in Requests, Http(r) PROVE CallInv'
<1>e. stage[r] \in Early \ {"network"} /\ "network" \in Early
  BY DEF Http, Early
<1>1. CASE AfterModules(r, quote[r])
  BY <1>1, <1>e, EarlyHas, ModulesKeep
<1>2. CASE GoTo(r, "network") /\ UNCHANGED <<quote, heard>>
  BY <1>2, <1>e, SilentKeep
<1>3. CASE Ends(r, "raised") /\ UNCHANGED heard
  BY <1>3, <1>e, RaisesKeep
<1>4. QED
  BY <1>1, <1>2, <1>3 DEF Http

LEMMA NetworkKeeps == ASSUME CallInv, NEW r \in Requests, Network(r) PROVE CallInv'
<1>1. PICK charted \in BOOLEAN, page \in {"none", "bare", "priced"} :
        LET q == [quote[r] EXCEPT
                    !.chart = IF charted /\ ~HasQuotePrice(quote[r]) THEN "anon" ELSE @,
                    !.page  = IF page = "none" THEN @ ELSE page]
        IN \/ AfterModules(r, q)
           \/ /\ Gathers(r, q) /\ UNCHANGED heard
              /\ GoTo(r, IF HasQuotePrice(q) THEN "vision" ELSE "chart")
  BY DEF Network
<1> DEFINE q == [quote[r] EXCEPT
                    !.chart = IF charted /\ ~HasQuotePrice(quote[r]) THEN "anon" ELSE @,
                    !.page  = IF page = "none" THEN @ ELSE page]
           where == IF HasQuotePrice(q) THEN "vision" ELSE "chart"
<1>e. stage[r] \in Early
  BY DEF Network, Early
<1>h. /\ quote[r] \in Quotes /\ ~heard[r]
      /\ ~quote[r].modules /\ quote[r].price = "none" /\ quote[r].vision = "none"
      /\ ~quote[r].html /\ ~quote[r].asked /\ ~quote[r].seen
      /\ quote[r].chart \in {"none", "anon"} /\ ~(quote[r].asp /\ quote[r].chart # "none")
  BY <1>e, EarlyHas
<1>q. /\ q \in Quotes /\ ~q.modules /\ q.price = "none" /\ q.vision = "none" /\ ~q.html
      /\ ~q.asked /\ ~q.seen /\ q.chart \in {"none", "anon"}
      /\ ~(q.asp /\ q.chart # "none")
  BY <1>h DEF Quotes, HasQuotePrice
<1> HIDE DEF q
<1>2. CASE AfterModules(r, q)
  BY <1>2, <1>h, <1>q, ModulesKeep
<1>3. CASE Gathers(r, q) /\ UNCHANGED heard /\ GoTo(r, where)
  <2>1. where \in Stages
    BY DEF Stages, Running
  <2>2. Gathered(where, q, heard[r])
    BY <1>h, <1>q DEF Gathered, Running, Early, HasQuotePrice
  <2>3. QED
    BY <1>3, <1>q, <2>1, <2>2, ActsSilently
<1>4. QED
  BY <1>1, <1>2, <1>3 DEF q

LEMMA ChartKeeps == ASSUME CallInv, NEW r \in Requests, Chart(r) PROVE CallInv'
<1>1. PICK whose \in {"none", "anon"} \cup (IF UseCurl THEN {"mine"} ELSE {}) :
        Gathers(r, [quote[r] EXCEPT !.chart = whose]) /\ Hears(r, whose = "mine")
  BY DEF Chart
<1> DEFINE q == [quote[r] EXCEPT !.chart = whose]
<1>h. /\ quote[r] \in Quotes /\ ~heard[r] /\ ~quote[r].modules /\ ~quote[r].asp
      /\ quote[r].price = "none" /\ quote[r].vision = "none" /\ ~quote[r].html
      /\ ~quote[r].asked /\ ~quote[r].seen
  BY DEF Chart, CallInv, Gathered, Early
<1>w. whose \in {"none", "anon", "mine"}
  OBVIOUS
<1>q. /\ q \in Quotes /\ q.chart = whose /\ ~q.modules /\ ~q.asp /\ q.price = "none"
      /\ q.vision = "none" /\ ~q.html /\ ~q.asked /\ ~q.seen
  BY <1>h, <1>w DEF Quotes
<1> HIDE DEF q
<1>2. Gathered("vision", q, heard[r] \/ whose = "mine")
  BY <1>h, <1>q DEF Gathered, Running, Early, Scoped
<1>3. "vision" \in Stages /\ (whose = "mine") \in BOOLEAN
  BY DEF Stages, Running
<1>4. GoTo(r, "vision") /\ Gathers(r, q) /\ Hears(r, whose = "mine")
  BY <1>1 DEF Chart, q
<1>5. QED
  BY <1>q, <1>2, <1>3, <1>4, ActsAre

\* _run_vision_fallback names the symbol, or loses nothing that does.
LEMMA AskVisionIs ==
  ASSUME CallInv, NEW r \in Requests, AskVision(r), ~quote[r].modules,
         heard[r] => Scoped(quote[r])
  PROVE  \E q \in Quotes, told \in BOOLEAN :
           /\ Gathers(r, q) /\ Hears(r, told) /\ ~q.modules
           /\ (told => Scoped(q)) /\ (heard[r] => Scoped(q) \/ quote[r].vision = "mine")
           /\ ~(q.asp /\ q.chart # "none") /\ quote'[r] = q
<1>h. quote[r] \in Quotes /\ heard[r] \in BOOLEAN /\ ~(quote[r].asp /\ quote[r].chart # "none")
  BY DEF CallInv, Gathered
<1>1. CASE UNCHANGED <<quote, heard>>
  <2>1. Gathers(r, quote[r]) /\ Hears(r, FALSE) /\ quote'[r] = quote[r]
    BY <1>1, <1>h DEF Gathers, Hears, CallInv
  <2>2. QED
    BY <1>h, <2>1
<1>2. CASE Gathers(r, [quote[r] EXCEPT !.asked = TRUE, !.seen = FALSE]) /\ UNCHANGED heard
  <2> DEFINE q == [quote[r] EXCEPT !.asked = TRUE, !.seen = FALSE]
  <2>1. q \in Quotes /\ ~q.modules /\ q.asp = quote[r].asp /\ q.chart = quote[r].chart
        /\ q.price = quote[r].price /\ q.vision = quote[r].vision /\ q.html = quote[r].html
    BY <1>h DEF Quotes
  <2> HIDE DEF q
  <2>2. Gathers(r, q) /\ Hears(r, FALSE)
    BY <1>2, <1>h DEF Gathers, Hears, CallInv, q
  <2>3. quote'[r] = q
    BY <2>2 DEF Gathers, CallInv
  <2>4. heard[r] => Scoped(q)
    BY <2>1 DEF Scoped
  <2>5. QED
    BY <1>h, <2>1, <2>2, <2>3, <2>4
<1>3. ASSUME NEW whose \in {"none", "mine", "other"}, NEW differs \in BOOLEAN,
             Gathers(r, [quote[r] EXCEPT !.asked = TRUE, !.seen = TRUE, !.vision = whose,
                             !.asp = @ /\ ~(whose # "none" /\ differs)]),
             Hears(r, whose = "mine")
      PROVE  \E q \in Quotes, told \in BOOLEAN :
               /\ Gathers(r, q) /\ Hears(r, told) /\ ~q.modules
               /\ (told => Scoped(q)) /\ (heard[r] => Scoped(q) \/ quote[r].vision = "mine")
               /\ ~(q.asp /\ q.chart # "none") /\ quote'[r] = q
  <2> DEFINE kept == quote[r].asp /\ ~(whose # "none" /\ differs)
             q    == [quote[r] EXCEPT !.asked = TRUE, !.seen = TRUE, !.vision = whose, !.asp = kept]
             told == whose = "mine"
  <2>1. kept \in BOOLEAN /\ told \in BOOLEAN /\ (kept => quote[r].asp)
    BY <1>h DEF Quotes
  <2>3. Gathers(r, q) /\ Hears(r, told)
    BY <1>3
  <2> HIDE DEF kept
  <2>2. q \in Quotes /\ ~q.modules /\ q.asp = kept /\ q.chart = quote[r].chart
        /\ q.price = quote[r].price /\ q.vision = whose /\ q.html = quote[r].html
    BY <1>h, <2>1 DEF Quotes
  <2> HIDE DEF q
  <2>4. quote'[r] = q
    BY <2>3 DEF Gathers, CallInv
  <2>5. (told => Scoped(q)) /\ (heard[r] => Scoped(q) \/ quote[r].vision = "mine")
    BY <2>1, <2>2 DEF Scoped
  <2>6. ~(q.asp /\ q.chart # "none")
    BY <1>h, <2>1, <2>2
  <2>7. QED
    BY <2>1, <2>2, <2>3, <2>4, <2>5, <2>6
<1>4. QED
  BY <1>1, <1>2, <1>3 DEF AskVision

LEMMA VisionKeeps == ASSUME CallInv, NEW r \in Requests, Vision(r) PROVE CallInv'
<1>h. /\ ~quote[r].modules /\ quote[r].price = "none" /\ quote[r].vision = "none"
      /\ ~quote[r].html /\ (heard[r] => Scoped(quote[r])) /\ heard[r] \in BOOLEAN
  BY DEF Vision, CallInv, Gathered
<1>1. PICK q \in Quotes, told \in BOOLEAN :
        /\ Gathers(r, q) /\ Hears(r, told) /\ ~q.modules
        /\ (told => Scoped(q)) /\ (heard[r] => Scoped(q) \/ quote[r].vision = "mine")
        /\ ~(q.asp /\ q.chart # "none") /\ quote'[r] = q
  BY <1>h, AskVisionIs DEF Vision
<1> DEFINE where == AfterVision(q)
<1>2. where \in {"store", "html", "again"} /\ (where = "html" => ~q.asked)
      /\ (Scoped(q) => where = "store")
  BY DEF AfterVision
<1>3. GoTo(r, where)
  BY <1>1 DEF Vision
<1> HIDE DEF where
<1>4. Gathered(where, q, heard[r] \/ told)
  BY <1>h, <1>1, <1>2 DEF Gathered, Running, Early
<1>5. where \in Stages
  BY <1>2 DEF Stages, Running
<1>6. QED
  BY <1>1, <1>3, <1>4, <1>5, ActsAre

LEMMA HtmlKeeps == ASSUME CallInv, NEW r \in Requests, Html(r) PROVE CallInv'
<1>h. quote[r] \in Quotes /\ ~heard[r] /\ ~quote[r].asked /\ heard[r] \in BOOLEAN
      /\ ~(quote[r].asp /\ quote[r].chart # "none")
  BY DEF Html, CallInv, Gathered
<1>1. PICK page \in {"none", "bare", "priced"} :
        LET q == [quote[r] EXCEPT !.page = page, !.html = page = "priced"] IN
        Gathers(r, q) /\ Hears(r, q.html) /\ GoTo(r, AfterHtml(q))
  BY <1>h DEF Html, Quotes
<1> DEFINE priced == page = "priced"
           q      == [quote[r] EXCEPT !.page = page, !.html = priced]
           where  == AfterHtml(q)
<1>3. Gathers(r, q) /\ Hears(r, q.html) /\ GoTo(r, where)
  BY <1>1
<1>4. priced \in BOOLEAN
  OBVIOUS
<1> HIDE DEF priced
<1>2. q \in Quotes /\ q.html = priced /\ ~q.asked /\ q.asp = quote[r].asp
      /\ q.chart = quote[r].chart /\ q.modules = quote[r].modules
  BY <1>h, <1>4 DEF Quotes
<1> HIDE DEF q
<1>5. where \in {"store", "again"} /\ (where = "again" => ~q.modules) /\ (q.html => where = "store")
      /\ (q.html => Scoped(q))
  BY DEF AfterHtml, Scoped
<1> HIDE DEF where
<1>6. Gathered(where, q, heard[r] \/ q.html)
  BY <1>h, <1>2, <1>5 DEF Gathered, Running, Early
<1>7. where \in Stages
  BY <1>5 DEF Stages, Running
<1>8. q.html \in BOOLEAN
  BY <1>2, <1>4
<1>9. QED
  BY <1>2, <1>3, <1>6, <1>7, <1>8, ActsAre

LEMMA AgainKeeps == ASSUME CallInv, NEW r \in Requests, Again(r) PROVE CallInv'
<1>h. ~quote[r].modules /\ ~heard[r] /\ heard[r] \in BOOLEAN
  BY DEF Again, CallInv, Gathered
<1>1. PICK q \in Quotes, told \in BOOLEAN :
        /\ Gathers(r, q) /\ Hears(r, told) /\ ~q.modules /\ (told => Scoped(q))
        /\ ~(q.asp /\ q.chart # "none")
  BY <1>h, AskVisionIs DEF Again
<1>2. Gathered("store", q, heard[r] \/ told)
  BY <1>h, <1>1 DEF Gathered, Running, Early
<1>3. "store" \in Stages /\ GoTo(r, "store")
  BY DEF Stages, Running, Again
<1>4. QED
  BY <1>1, <1>2, <1>3, ActsAre

\* A price that names the symbol survives the sanitising.
LEMMA ScopedIsValid == ASSUME NEW q \in Quotes, Scoped(q) PROVE IsValid(q)
BY DEF Scoped, IsValid, Sanitized, Quotes

LEMMA StoreKeeps ==
  ASSUME CallInv, NEW r \in Requests, NEW sym, Store(r, sym) PROVE CallInv'
<1>1. quote[r] \in Quotes /\ (heard[r] => Scoped(quote[r]))
  BY DEF Store, CallInv, Gathered
<1>2. PICK how \in {"ok", "error", "cut"} : Ends(r, how) /\ (heard[r] => how \in {"ok", "cut"})
  BY <1>1, ScopedIsValid DEF Store
<1>3. Gathered(how, Nothing, heard[r])
  BY <1>2, NothingIs DEF Gathered, Running, Early
<1>4. how \in Stages /\ UNCHANGED heard
  BY DEF Stages, Store
<1>5. QED
  BY <1>2, <1>3, <1>4, NothingIs, ActsSilently DEF Ends, GoTo, Gathers
-----------------------------------------------------------------------------
\* The calls: every step of a request keeps what is said of them.
LEMMA CallStep == ASSUME CallInv, [Next]_vars PROVE CallInv'
<1>1. ASSUME NEW r \in Requests, Step(r) PROVE CallInv'
  <2> DEFINE Outer == Stages \ (Running \cup {"ok", "cut"})
             Dest  == Stages \ Running
  <2>s. /\ {"idle", "look", "first", "second", "adorn", "rescue", "keep", "error", "hybrid",
             "shown", "read", "evict"} \subseteq Outer
        /\ {"read", "wait", "evict", "look", "first", "ok", "refused", "keep", "adorn", "rescue",
             "second", "raised", "cut", "hybrid", "shown"} \subseteq Dest
    BY DEF Stages, Running
  <2>o. ASSUME NEW where \in Dest, stage[r] \in Outer, GoTo(r, where), UNCHANGED <<quote, heard>>
        PROVE  CallInv'
    BY <2>o, OutsideKeeps
  <2>a. ASSUME NEW good \in BOOLEAN, AfterSource(r, good), stage[r] \in Outer,
               UNCHANGED <<quote, heard>>
        PROVE  CallInv'
    <3>1. PICK where \in {"ok", "refused", "keep", "adorn", "rescue"} : GoTo(r, where)
      BY <2>a DEF AfterSource, Verdict
    <3>2. QED
      BY <3>1, <2>s, <2>a, <2>o
  <2> HIDE DEF Outer, Dest
  <2>1. CASE ArriveQuote(r)
    <3>1. PICK where \in {"wait", "read"} : GoTo(r, where) /\ UNCHANGED <<quote, heard>>
      BY <2>1 DEF ArriveQuote, Begin
    <3>2. QED
      BY <3>1, <2>1, <2>s, <2>o DEF ArriveQuote
  <2>2. CASE ArrivePage(r)
    <3>1. PICK where \in {"look", "first"} : GoTo(r, where) /\ UNCHANGED <<quote, heard>>
      BY <2>2 DEF ArrivePage, Stays
    <3>2. QED
      BY <3>1, <2>2, <2>s, <2>o DEF ArrivePage
  <2>3. CASE Clear(r)
    <3>1. PICK where \in {"ok", "cut"} : GoTo(r, where)
      BY <2>3 DEF Clear
    <3>2. QED
      BY <3>1, <2>3, <2>s, <2>o DEF Clear, Stays
  <2>4. CASE QuoteStep(r)
    <3>1. CASE Read(r, asks[r].sym)
      <4>1. PICK where \in {"wait", "ok", "evict"} : GoTo(r, where) /\ UNCHANGED <<quote, heard>>
        BY <3>1 DEF Read
      <4>2. QED
        BY <4>1, <3>1, <2>s, <2>o DEF Read
    <3>8. CASE ReadRaises(r)
      BY <3>8, <2>s, <2>o DEF ReadRaises
    <3>2. CASE Evict(r, asks[r].sym)
      <4>1. PICK where \in {"wait", "cut"} : GoTo(r, where)
        BY <3>2 DEF Evict
      <4>2. QED
        BY <4>1, <3>2, <2>s, <2>o DEF Evict
    <3>3. CASE Acquire(r)
      <4>1. PICK where \in {"curl", "grid", "stealth"} : GoTo(r, where) /\ UNCHANGED <<quote, heard>>
        BY <3>3 DEF Acquire
      <4>2. quote[r] = Nothing /\ ~heard[r]
        BY <3>3 DEF Acquire, CallInv, Gathered, Running
      <4>3. Gathered(where, quote[r], heard[r]) /\ where \in Stages
        BY <4>2, NothingIs DEF Gathered, Running, Early, Stages
      <4>4. QED
        BY <4>1, <4>3, GoesKeep
    <3>4. CASE Curl(r) \/ Grid(r) \/ Stealth(r) \/ Session(r) \/ Http(r) \/ Network(r)
      BY <3>4, CurlKeeps, GridKeeps, StealthKeeps, SessionKeeps, HttpKeeps, NetworkKeeps
    <3>5. CASE Chart(r) \/ Vision(r) \/ Html(r) \/ Again(r)
      BY <3>5, ChartKeeps, VisionKeeps, HtmlKeeps, AgainKeeps
    <3>6. CASE Store(r, asks[r].sym)
      BY <3>6, StoreKeeps
    <3>7. QED
      BY <2>4, <3>1, <3>2, <3>3, <3>4, <3>5, <3>6, <3>8 DEF QuoteStep, FetchYahooFull
  <2>5. CASE Look(r)
    <3>1. PICK where \in {"ok", "first", "cut"} : GoTo(r, where) /\ UNCHANGED <<quote, heard>>
      BY <2>5 DEF Look, Stays
    <3>2. QED
      BY <3>1, <2>5, <2>s, <2>o DEF Look
  <2>6. CASE First(r)
    <3>1. stage[r] \in Outer /\ UNCHANGED <<quote, heard>>
      BY <2>6, <2>s DEF First, Stays
    <3>2. CASE GoTo(r, "second")
      BY <3>1, <3>2, <2>s, <2>o
    <3>3. CASE \E good \in BOOLEAN : AfterSource(r, good)
      BY <3>1, <3>3, <2>a
    <3>4. QED
      BY <2>6, <3>2, <3>3 DEF First
  <2>7. CASE Second(r)
    <3>1. stage[r] \in Outer /\ UNCHANGED <<quote, heard>>
      BY <2>7, <2>s DEF Second, Stays
    <3>2. QED
      BY <3>1, <2>7, <2>a DEF Second
  <2>8. CASE Adorn(r)
    <3>1. PICK where \in {"refused", "keep", "ok", "raised"} : GoTo(r, where)
      BY <2>8 DEF Adorn, Verdict
    <3>2. QED
      BY <3>1, <2>8, <2>s, <2>o DEF Adorn, Stays
  <2>9. CASE Rescue(r)
    BY <2>9, <2>s, <2>o DEF Rescue, Stays
  <2>10. CASE Keep(r)
    <3>1. PICK where \in {"ok", "cut"} : GoTo(r, where)
      BY <2>10 DEF Keep
    <3>2. QED
      BY <3>1, <2>10, <2>s, <2>o DEF Keep, Stays
  <2>11. CASE Route(r)
    BY <2>11, <2>s, <2>o DEF Route, Stays
  <2>12. CASE Routed(r)
    <3>1. PICK where \in {"ok", "raised", "shown"} : GoTo(r, where)
      BY <2>12 DEF Routed
    <3>2. QED
      BY <3>1, <2>12, <2>s, <2>o DEF Routed, Stays
  <2>13. CASE Shown(r)
    BY <2>13, <2>s, <2>o DEF Shown, Stays
  <2>14. QED
    BY <1>1, <2>1, <2>2, <2>3, <2>4, <2>5, <2>6, <2>7, <2>8, <2>9, <2>10, <2>11, <2>12, <2>13 DEF Step
<1>2. CASE UNCHANGED yahoo
  BY <1>2 DEF yahoo, CallInv
<1>3. QED
  BY <1>1, <1>2 DEF Next, Progress, TimePasses, Idle, vars
-----------------------------------------------------------------------------
\* What a step may do to the cache: nothing, store a good entry, or remove entries.
Effect ==
  /\ UNCHANGED now
  /\ \/ UNCHANGED cache
     \/ \E k \in Keys : Set(k, [valid |-> TRUE])
     \/ \E gone \in SUBSET Keys :
          cache' = [k \in Keys |-> IF k \in gone THEN NoEntry ELSE cache[k]]

Exempt == {"idle", "read", "evict", "cut"}

\* The step of one request, as the permits and the cache see it: it enters the
\* cascade only past a free permit, and leaves the look-up only from a sound entry.
Passes(r, where) ==
  /\ GoTo(r, where) /\ UNCHANGED asks /\ Effect
  /\ where \in Running => stage[r] \in Running \/ Cardinality(Holders) < YahooPermits
  /\ ForQuote(r) /\ ~asks[r].forced /\ where \notin Exempt
       => stage[r] \notin Exempt \/ Sound(QuoteKey[asks[r].sym])'

LEMMA RunningPass ==
  ASSUME NEW r \in Requests, NEW where, stage[r] \in Running, GoTo(r, where), UNCHANGED asks, Effect
  PROVE  Passes(r, where)
BY DEF Passes, Running, Exempt

LEMMA OutsidePass ==
  ASSUME NEW r \in Requests, NEW where, GoTo(r, where), UNCHANGED <<cache, now, asks>>,
         where \notin Running, stage[r] \notin Exempt
  PROVE  Passes(r, where)
BY DEF Passes, Effect

LEMMA SourcePasses ==
  ASSUME NEW r \in Requests, NEW good, AfterSource(r, good), UNCHANGED <<cache, now, asks>>,
         stage[r] \notin Exempt
  PROVE  \E where : Passes(r, where)
<1>1. PICK where \in {"ok", "refused", "keep", "adorn", "rescue"} : GoTo(r, where)
  BY DEF AfterSource, Verdict
<1>2. where \notin Running
  BY DEF Running
<1>3. QED
  BY <1>1, <1>2, OutsidePass

\* Every entry there is has not expired, so a look-up that misses found none.
LEMMA MissIsNothing ==
  ASSUME CacheInv, NEW k \in Keys, ~Hit(k, AnyAge)
  PROVE  cache[k] = NoEntry
BY DEF CacheInv, Hit

\* What the calls of the cache do, failing or not.
LEMMA CacheEffects ==
  ASSUME CacheInv, NEW k \in Keys, UNCHANGED now,
         \/ GetRaises \/ SetRaises(k, [valid |-> TRUE]) \/ InvalidateRaises(k) \/ ClearRaises
         \/ UNCHANGED cache \/ Set(k, [valid |-> TRUE]) \/ Invalidate(k) \/ ClearAll
  PROVE  Effect
<1>1. CASE UNCHANGED cache \/ Set(k, [valid |-> TRUE])
  BY <1>1 DEF Effect
<1>2. CASE Invalidate(k)
  <2>1. cache' = [j \in Keys |-> IF j \in {k} THEN NoEntry ELSE cache[j]]
    BY <1>2 DEF Invalidate, CacheInv
  <2>2. {k} \in SUBSET Keys
    OBVIOUS
  <2>3. QED
    BY <2>1, <2>2 DEF Effect
<1>3. CASE ClearAll
  <2>1. cache' = [j \in Keys |-> IF j \in Keys THEN NoEntry ELSE cache[j]]
    BY <1>3 DEF ClearAll
  <2>2. Keys \in SUBSET Keys
    OBVIOUS
  <2>3. QED
    BY <2>1, <2>2 DEF Effect
<1>4. CASE ClearRaises
  BY <1>4 DEF ClearRaises, Effect
<1>5. QED
  BY <1>1, <1>2, <1>3, <1>4 DEF GetRaises, SetRaises, InvalidateRaises

LEMMA CascadePasses ==
  ASSUME CacheInv, NEW r \in Requests, QuoteStep(r)
  PROVE  \E where : Passes(r, where)
<1> DEFINE sym == asks[r].sym
<1>k. QuoteKey[sym] \in Keys
  BY Constants DEF CacheInv
<1>a. UNCHANGED asks
  BY DEF QuoteStep
<1>r. ASSUME stage[r] \in Running, UNCHANGED <<cache, now>>, \E where : GoTo(r, where)
      PROVE  \E where : Passes(r, where)
  BY <1>r, <1>a, RunningPass DEF Effect
<1>1. CASE Read(r, sym)
  <2>1. CASE ~Hit(QuoteKey[sym], AnyAge)
    <3>1. GoTo(r, "wait") /\ UNCHANGED <<cache, now>>
      BY <1>1, <2>1 DEF Read, OwnState
    <3>2. Sound(QuoteKey[sym])'
      BY <1>a, <1>k, <2>1, <3>1, MissIsNothing DEF Sound
    <3>3. Passes(r, "wait")
      BY <1>a, <3>1, <3>2 DEF Passes, Effect, Running
    <3>4. QED
      BY <3>3
  <2>2. CASE Hit(QuoteKey[sym], AnyAge) /\ cache[QuoteKey[sym]].value.valid
    <3>1. GoTo(r, "ok") /\ UNCHANGED <<cache, now>>
      BY <1>1, <2>2 DEF Read, OwnState
    <3>2. Sound(QuoteKey[sym])'
      BY <1>a, <2>2, <3>1 DEF Sound
    <3>3. Passes(r, "ok")
      BY <1>a, <3>1, <3>2 DEF Passes, Effect, Running
    <3>4. QED
      BY <3>3
  <2>3. CASE Hit(QuoteKey[sym], AnyAge) /\ ~cache[QuoteKey[sym]].value.valid
    <3>1. GoTo(r, "evict") /\ UNCHANGED <<cache, now>>
      BY <1>1, <2>3 DEF Read, OwnState
    <3>2. Passes(r, "evict")
      BY <1>a, <3>1 DEF Passes, Effect, Running, Exempt
    <3>3. QED
      BY <3>2
  <2>4. QED
    BY <2>1, <2>2, <2>3
<1>11. CASE ReadRaises(r)
  <2>1. GoTo(r, "cut") /\ Effect
    BY <1>11, <1>k, CacheEffects DEF ReadRaises
  <2>2. Passes(r, "cut")
    BY <1>a, <2>1 DEF Passes, Running, Exempt
  <2>3. QED
    BY <2>2
<1>2. CASE Evict(r, sym)
  <2>1. CASE GoTo(r, "wait") /\ Invalidate(QuoteKey[sym]) /\ UNCHANGED now
    <3>1. Sound(QuoteKey[sym])'
      BY <1>a, <1>k, <2>1 DEF Sound, Invalidate, CacheInv
    <3>2. Effect
      BY <1>k, <2>1, CacheEffects
    <3>3. Passes(r, "wait")
      BY <1>a, <1>k, <2>1, <3>1, <3>2 DEF Passes, Running
    <3>4. QED
      BY <3>3
  <2>2. CASE GoTo(r, "cut") /\ InvalidateRaises(QuoteKey[sym]) /\ UNCHANGED now
    <3>1. Effect
      BY <1>k, <2>2, CacheEffects
    <3>2. Passes(r, "cut")
      BY <1>a, <2>2, <3>1 DEF Passes, Running, Exempt
    <3>3. QED
      BY <3>2
  <2>3. QED
    BY <1>2, <2>1, <2>2 DEF Evict
<1>3. CASE Acquire(r)
  <2>1. PICK where \in {"curl", "grid", "stealth"} : GoTo(r, where)
    BY <1>3 DEF Acquire
  <2>2. Passes(r, where)
    BY <1>3, <1>a, <2>1 DEF Passes, Effect, Acquire, OwnState, Exempt
  <2>3. QED
    BY <2>2
<1>4. CASE Curl(r)
  BY <1>4, <1>r DEF Curl, AfterModules, OwnState, Running
<1>5. CASE Grid(r) \/ Stealth(r)
  BY <1>5, <1>r DEF Grid, Stealth, OwnState, Running
<1>6. CASE Session(r) \/ Http(r)
  BY <1>6, <1>r DEF Session, Http, AfterModules, Ends, GoTo, OwnState, Running
<1>7. CASE Network(r)
  <2>1. \E where : GoTo(r, where)
    BY <1>7 DEF Network, AfterModules
  <2>2. QED
    BY <1>7, <2>1, <1>r DEF Network, OwnState, Running
<1>8. CASE Chart(r) \/ Vision(r) \/ Html(r) \/ Again(r)
  <2>1. CASE Chart(r) \/ Again(r)
    BY <2>1, <1>r DEF Chart, Again, OwnState, Running
  <2>2. CASE Vision(r)
    BY <2>2, <1>r DEF Vision, OwnState, Running
  <2>3. CASE Html(r)
    BY <2>3, <1>r DEF Html, OwnState, Running
  <2>4. QED
    BY <1>8, <2>1, <2>2, <2>3
<1>9. CASE Store(r, sym)
  <2>1. stage[r] \in Running /\ \E where : GoTo(r, where)
    BY <1>9 DEF Store, Ends, GoTo, Running
  <2>2. Effect
    BY <1>9, <1>k, CacheEffects DEF Store
  <2>3. QED
    BY <1>a, <2>1, <2>2, RunningPass
<1>10. QED
  BY <1>1, <1>11, <1>2, <1>3, <1>4, <1>5, <1>6, <1>7, <1>8, <1>9 DEF QuoteStep, FetchYahooFull

LEMMA StepPasses ==
  ASSUME CacheInv, NEW r \in Requests, Step(r)
  PROVE  \E where : Passes(r, where)
<1>k. asks[r].key \in Keys
  BY Constants DEF CacheInv
<1>1. CASE ArriveQuote(r)
  <2>1. GoTo(r, IF asks[r].forced THEN "wait" ELSE "read") /\ UNCHANGED <<cache, now, asks>>
    BY <1>1 DEF ArriveQuote, Begin, OwnState
  <2>2. Passes(r, IF asks[r].forced THEN "wait" ELSE "read")
    BY <2>1 DEF Passes, Effect, Running, Exempt
  <2>3. QED
    BY <2>2
<1>2. CASE ArrivePage(r)
  <2>1. PICK where \in {"look", "first"} : GoTo(r, where)
    BY <1>2 DEF ArrivePage
  <2>2. Passes(r, where)
    BY <1>2, <2>1 DEF Passes, Effect, Running, ArrivePage, OwnState, Stays
  <2>3. QED
    BY <2>2
<1>3. CASE Clear(r)
  <2>1. PICK where \in {"ok", "cut"} : GoTo(r, where)
    BY <1>3 DEF Clear
  <2>2. Effect
    BY <1>3, <1>k, CacheEffects DEF Clear
  <2>3. Passes(r, where)
    BY <1>3, <2>1, <2>2 DEF Passes, Running, Clear, Stays, ForQuote, QuoteKinds
  <2>4. QED
    BY <2>3
<1>4. CASE QuoteStep(r)
  BY <1>4, CascadePasses
<1>5. CASE Look(r)
  <2>1. PICK where \in {"ok", "first", "cut"} : GoTo(r, where)
    BY <1>5 DEF Look
  <2>2. Passes(r, where)
    BY <1>5, <2>1, OutsidePass DEF Look, GetRaises, Stays, Running, Exempt
  <2>3. QED
    BY <2>2
<1>6. CASE First(r)
  <2>1. UNCHANGED <<cache, now, asks>> /\ stage[r] \notin Exempt
    BY <1>6 DEF First, OwnState, Stays, Exempt
  <2>2. CASE GoTo(r, "second")
    BY <2>1, <2>2, OutsidePass DEF Running
  <2>3. CASE \E good \in BOOLEAN : AfterSource(r, good)
    BY <2>1, <2>3, SourcePasses
  <2>4. QED
    BY <1>6, <2>2, <2>3 DEF First
<1>7. CASE Second(r)
  BY <1>7, SourcePasses DEF Second, OwnState, Stays, Exempt
<1>8. CASE Adorn(r) \/ Rescue(r)
  <2>1. PICK where \in {"refused", "keep", "ok", "raised"} : GoTo(r, where)
    BY <1>8 DEF Adorn, Rescue, Verdict
  <2>2. Passes(r, where)
    BY <1>8, <2>1, OutsidePass DEF Adorn, Rescue, OwnState, Stays, Running, Exempt
  <2>3. QED
    BY <2>2
<1>9. CASE Keep(r)
  <2>1. PICK where \in {"ok", "cut"} : GoTo(r, where)
    BY <1>9 DEF Keep
  <2>2. Effect
    BY <1>9, <1>k, CacheEffects DEF Keep
  <2>3. Passes(r, where)
    BY <1>9, <2>1, <2>2 DEF Keep, Passes, Stays, Running, Exempt
  <2>4. QED
    BY <2>3
<1>10. CASE Route(r) \/ Routed(r) \/ Shown(r)
  <2>1. PICK where \in {"hybrid", "refused", "ok", "raised", "shown"} : GoTo(r, where)
    BY <1>10 DEF Route, Routed, Shown
  <2>2. Passes(r, where)
    BY <1>10, <2>1, OutsidePass DEF Route, Routed, Shown, OwnState, Stays, Running, Exempt
  <2>3. QED
    BY <2>2
<1>11. QED
  BY <1>1, <1>2, <1>3, <1>4, <1>5, <1>6, <1>7, <1>8, <1>9, <1>10 DEF Step
-----------------------------------------------------------------------------
LEMMA EffectKeeps ==
  ASSUME CacheInv, UNCHANGED asks, Effect
  PROVE  CacheInv' /\ \A k \in Keys : Sound(k) => Sound(k)'
<1>t. Ttl \in [Keys -> Nat \ {0}] /\ MaxTime \in Nat /\ NoEntry \notin Entries
  BY Constants
<1>n. now \in 0 .. MaxTime /\ now' = now /\ asks' \in Scenarios
      /\ cache \in [Keys -> {NoEntry} \cup Entries]
  BY DEF CacheInv, Effect
<1>1. CASE UNCHANGED cache
  BY <1>1, <1>n DEF CacheInv, Sound
<1>2. ASSUME NEW k \in Keys, Set(k, [valid |-> TRUE]) PROVE CacheInv' /\ \A j \in Keys : Sound(j) => Sound(j)'
  <2> DEFINE e == [value |-> [valid |-> TRUE], at |-> now]
  <2>1. e \in Entries /\ e.value.valid /\ e.at = now
    BY <1>n, <1>t DEF Entries
  <2>2. cache' = [cache EXCEPT ![k] = e]
    BY <1>2 DEF Set
  <2> HIDE DEF e
  <2>3. cache' \in [Keys -> {NoEntry} \cup Entries]
    BY <1>n, <2>1, <2>2
  <2>4. ASSUME NEW j \in Keys, cache'[j] # NoEntry PROVE cache'[j].at <= now' /\ now' - cache'[j].at < Ttl[j]
    <3>1. CASE j = k
      BY <3>1, <1>n, <1>t, <2>1, <2>2
    <3>2. CASE j # k
      BY <3>2, <1>n, <2>2, <2>4 DEF CacheInv
    <3>3. QED
      BY <3>1, <3>2
  <2>5. \A j \in Keys : Sound(j) => Sound(j)'
    BY <1>n, <2>1, <2>2 DEF Sound
  <2>6. QED
    BY <1>n, <2>3, <2>4, <2>5 DEF CacheInv
<1>3. ASSUME NEW gone \in SUBSET Keys, cache' = [k \in Keys |-> IF k \in gone THEN NoEntry ELSE cache[k]]
      PROVE  CacheInv' /\ \A j \in Keys : Sound(j) => Sound(j)'
  BY <1>3, <1>n DEF CacheInv, Sound
<1>4. QED
  BY <1>1, <1>2, <1>3 DEF Effect

LEMMA TickKeeps ==
  ASSUME CacheInv, UNCHANGED asks, Tick
  PROVE  CacheInv' /\ \A k \in Keys : Sound(k) => Sound(k)'
<1>t. Ttl \in [Keys -> Nat \ {0}] /\ MaxTime \in Nat /\ NoEntry \notin Entries
  BY Constants
<1>n. /\ now \in 0 .. MaxTime /\ now' = now + 1 /\ now < MaxTime /\ asks' \in Scenarios
      /\ cache \in [Keys -> {NoEntry} \cup Entries]
  BY DEF CacheInv, Tick
<1>c. /\ \A k \in Keys : cache'[k] = NoEntry
           \/ (cache'[k] = cache[k] /\ ~(now' - cache[k].at >= Ttl[k]))
      /\ cache' \in [Keys -> {NoEntry} \cup Entries]
  BY <1>n DEF Tick
<1>1. now' \in 0 .. MaxTime
  BY <1>n, <1>t
<1>2. ASSUME NEW k \in Keys, cache'[k] # NoEntry PROVE cache'[k].at <= now' /\ now' - cache'[k].at < Ttl[k]
  <2>1. cache[k] \in Entries /\ cache'[k] = cache[k] /\ ~(now' - cache[k].at >= Ttl[k])
    BY <1>2, <1>c, <1>n
  <2>2. cache[k].at \in Nat /\ cache[k].at <= now /\ Ttl[k] \in Nat
    BY <2>1, <1>t, <1>2 DEF CacheInv, Entries
  <2>3. QED
    BY <1>n, <2>1, <2>2
<1>3. \A k \in Keys : Sound(k) => Sound(k)'
  BY <1>c DEF Sound
<1>4. QED
  BY <1>n, <1>c, <1>1, <1>2, <1>3 DEF CacheInv

LEMMA CacheStep == ASSUME CacheInv, [Next]_vars PROVE CacheInv' /\ \A k \in Keys : Sound(k) => Sound(k)'
<1>1. ASSUME NEW r \in Requests, Step(r) PROVE UNCHANGED asks /\ Effect
  BY <1>1, StepPasses DEF Passes
<1>2. CASE Progress
  BY <1>1, <1>2, EffectKeeps DEF Progress
<1>3. CASE TimePasses
  BY <1>3, TickKeeps DEF TimePasses
<1>4. CASE UNCHANGED vars
  BY <1>4 DEF vars, CacheInv, Sound
<1>5. QED
  BY <1>2, <1>3, <1>4 DEF Next, Idle

LEMMA CleanStep == ASSUME CallInv, CacheInv, CleanInv, [Next]_vars PROVE CleanInv'
<1>s. \A k \in Keys : Sound(k) => Sound(k)'
  BY CacheStep
<1>k. \A r \in Requests : QuoteKey[asks[r].sym] \in Keys
  BY Constants DEF CacheInv
<1>1. ASSUME NEW r \in Requests, Step(r) PROVE CleanInv'
  <2>1. PICK where : Passes(r, where)
    BY <1>1, StepPasses
  <2>2. SUFFICES ASSUME NEW u \in Requests, ForQuote(u)', ~asks'[u].forced, stage'[u] \notin Exempt
                 PROVE  Sound(QuoteKey[asks[u].sym])'
    BY DEF CleanInv, Exempt
  <2>3. asks' = asks /\ ForQuote(u)
    BY <2>1, <2>2 DEF Passes, ForQuote
  <2>k. QuoteKey[asks[u].sym] \in Keys
    BY <1>k, <2>3
  <2>4. CASE u # r
    <3>1. stage'[u] = stage[u]
      BY <2>1, <2>4 DEF Passes, GoTo, CallInv
    <3>2. Sound(QuoteKey[asks[u].sym])
      BY <2>2, <2>3, <3>1 DEF CleanInv, Exempt
    <3>3. QED
      BY <1>s, <2>3, <2>k, <3>2 DEF Sound
  <2>5. CASE u = r
    <3>1. stage'[r] = where
      BY <2>1 DEF Passes, GoTo, CallInv
    <3>2. CASE stage[r] \notin Exempt
      <4>1. Sound(QuoteKey[asks[u].sym])
        BY <2>2, <2>3, <2>5, <3>2 DEF CleanInv, Exempt
      <4>2. QED
        BY <1>s, <2>3, <2>k, <4>1 DEF Sound
    <3>3. CASE stage[r] \in Exempt
      BY <2>1, <2>2, <2>3, <2>5, <3>1, <3>3 DEF Passes
    <3>4. QED
      BY <3>2, <3>3
  <2>6. QED
    BY <2>4, <2>5
<1>2. CASE UNCHANGED <<stage, asks>>
  <2>1. SUFFICES ASSUME NEW u \in Requests, ForQuote(u)', ~asks'[u].forced, stage'[u] \notin Exempt
                 PROVE  Sound(QuoteKey[asks[u].sym])'
    BY DEF CleanInv, Exempt
  <2>2. Sound(QuoteKey[asks[u].sym]) /\ QuoteKey[asks[u].sym] \in Keys
    BY <1>2, <1>k, <2>1 DEF CleanInv, Exempt, ForQuote
  <2>3. QED
    BY <1>2, <1>s, <2>2 DEF Sound
<1>3. QED
  BY <1>1, <1>2 DEF Next, Progress, TimePasses, Idle, vars, yahoo
-----------------------------------------------------------------------------
\* The permits: a request enters the cascade only past a free one.
LEMMA PermitStep == ASSUME CallInv, CacheInv, PermitInv, [Next]_vars PROVE PermitInv'
<1>1. ASSUME NEW r \in Requests, Step(r) PROVE PermitInv'
  <2>1. PICK where : Passes(r, where)
    BY <1>1, StepPasses
  <2>2. stage' = [stage EXCEPT ![r] = where] /\ stage \in [Requests -> Stages]
    BY <2>1 DEF Passes, GoTo, CallInv
  <2>3. CASE Holders' \subseteq Holders
    BY <2>3, FS_Subset, FS_CardinalityType, YahooAssumption DEF PermitInv
  <2>4. CASE ~(Holders' \subseteq Holders)
    <3>1. Holders' \subseteq Holders \cup {r}
      BY <2>2 DEF Holders
    <3>2. r \in Holders' /\ r \notin Holders
      BY <2>4, <3>1
    <3>3. where \in Running /\ stage[r] \notin Running
      BY <2>2, <3>2 DEF Holders
    <3>4. Cardinality(Holders) < YahooPermits
      BY <2>1, <3>3 DEF Passes
    <3>5. IsFiniteSet(Holders \cup {r}) /\ Cardinality(Holders \cup {r}) = Cardinality(Holders) + 1
      BY <3>2, FS_AddElement DEF PermitInv
    <3>6. IsFiniteSet(Holders') /\ Cardinality(Holders') <= Cardinality(Holders \cup {r})
      BY <3>1, <3>5, FS_Subset
    <3>7. Cardinality(Holders) \in Nat /\ Cardinality(Holders') \in Nat /\ YahooPermits \in Nat
      BY <3>6, FS_CardinalityType, YahooAssumption DEF PermitInv
    <3>8. QED
      BY <3>4, <3>5, <3>6, <3>7 DEF PermitInv
  <2>5. QED
    BY <2>3, <2>4
<1>2. CASE UNCHANGED stage
  BY <1>2 DEF PermitInv, Holders
<1>3. QED
  BY <1>1, <1>2 DEF Next, Progress, TimePasses, Idle, vars, yahoo

LEMMA Initially == ASSUME Init PROVE Inv
<1>1. stage = [r \in Requests |-> "idle"] /\ quote = [r \in Requests |-> Nothing]
      /\ heard = [r \in Requests |-> FALSE] /\ asks \in Scenarios /\ cache \in OldCaches /\ now = 0
  BY DEF Init, YahooInit
<1>2. CallInv
  <2>1. \A r \in Requests : stage[r] = "idle" /\ quote[r] = Nothing /\ heard[r] = FALSE
    BY <1>1
  <2>2. Gathered("idle", Nothing, FALSE)
    BY NothingIs DEF Gathered, Running, Early
  <2>3. "idle" \in Stages
    BY DEF Stages
  <2>4. QED
    BY <1>1, <2>1, <2>2, <2>3, NothingIs DEF CallInv
<1>3. PermitInv
  <2>1. Holders = {}
    BY <1>1 DEF Holders, Running
  <2>2. QED
    BY <2>1, FS_EmptySet, YahooAssumption DEF PermitInv
<1>4. CacheInv
  <2>1. cache \in [Keys -> {NoEntry} \cup [value : [valid : BOOLEAN], at : {0}]]
    BY <1>1, OldCachesAssumption
  <2>2. \A k \in Keys : cache[k] \in {NoEntry} \cup Entries /\ (cache[k] # NoEntry => cache[k].at = 0)
    BY <2>1 DEF Entries
  <2>3. cache \in [Keys -> {NoEntry} \cup Entries]
    BY <2>1, <2>2
  <2>4. QED
    BY <1>1, <2>2, <2>3, Constants DEF CacheInv
<1>5. CleanInv
  BY <1>1 DEF CleanInv
<1>6. QED
  BY <1>2, <1>3, <1>4, <1>5 DEF Inv

\* The inductive invariant: what each call has gathered where it stands, the permits,
\* the entries' ages, and the soundness of an entry past its eviction.
THEOREM Invariance == Spec => []Inv
<1>1. Init => Inv
  BY Initially
<1>2. Inv /\ [Next]_vars => Inv'
  <2>1. SUFFICES ASSUME Inv, [Next]_vars PROVE Inv'
    OBVIOUS
  <2>2. CallInv /\ PermitInv /\ CacheInv /\ CleanInv
    BY <2>1 DEF Inv
  <2>3. QED
    BY <2>1, <2>2, CallStep, PermitStep, CacheStep, CleanStep DEF Inv
<1>3. QED
  BY <1>1, <1>2, PTL DEF Spec

\* fetch_yahoo_full never runs more calls than its semaphore has permits, a call that
\* ended has kept nothing, and every entry of the cache is of its time.
THEOREM TypeCorrect == Spec => []FinanceTypeOK
<1>1. Inv => FinanceTypeOK
  <2>1. SUFFICES ASSUME Inv PROVE FinanceTypeOK
    OBVIOUS
  <2>2. /\ stage \in [Requests -> Stages] /\ quote \in [Requests -> Quotes]
        /\ heard \in [Requests -> BOOLEAN] /\ asks \in Scenarios /\ now \in 0 .. MaxTime
    BY <2>1 DEF Inv, CallInv, CacheInv
  <2>3. ASSUME NEW r \in Requests
        PROVE  /\ quote[r] \in Quotes /\ (r \notin Holders => quote[r] = Nothing)
               /\ (quote[r].modules => ~quote[r].asked) /\ ~(quote[r].asp /\ quote[r].chart # "none")
    BY <2>1, <2>2 DEF Inv, CallInv, Gathered, Holders
  <2>4. Cardinality(Holders) <= YahooPermits
    BY <2>1 DEF Inv, PermitInv
  <2>5. YahooTypeOK
    BY <2>2, <2>3, <2>4 DEF YahooTypeOK, Quotes
  <2>6. ASSUME NEW k \in Keys, cache[k] # NoEntry
        PROVE  cache[k].value \in [valid : BOOLEAN] /\ cache[k].at \in 0 .. now
    <3>1. cache[k] \in Entries /\ cache[k].at <= now
      BY <2>1, <2>6 DEF Inv, CacheInv
    <3>2. QED
      BY <2>2, <3>1 DEF Entries
  <2>7. QED
    BY <2>2, <2>5, <2>6 DEF FinanceTypeOK, Stages
<1>2. QED
  BY <1>1, Invariance, PTL

\* A call that was given a price for its symbol by a source that counts never ends
\* without a quote, whatever the rest of the cascade merges, cleans up or fails at,
\* unless the cache raises when the quote is stored.
THEOREM PriceKept == Spec => []PriceNotLost
<1>1. Inv => PriceNotLost
  BY DEF Inv, CallInv, Gathered, PriceNotLost
<1>2. QED
  BY <1>1, Invariance, PTL

\* A quote an earlier release cached for another symbol is gone once a request that
\* looked it up is answered, whatever ran between its look-up and its eviction, and
\* nobody stores it again; only an exception of the cache itself excuses the request.
THEOREM PoisonGone == Spec => []PoisonRemoved
<1>1. Inv => PoisonRemoved
  BY DEF Inv, CleanInv, PoisonRemoved, Sound, Answered
<1>2. QED
  BY <1>1, Invariance, PTL
=============================================================================
