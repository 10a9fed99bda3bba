# FinCrawler in TLA+

FinCrawler fetches web pages for a shopping and finance assistant: it decides
whether a page may be fetched at all, picks a way of fetching it (a plain
request, a browser in the same process, a browser on another machine, a paid
service), rotates the egress when it is blocked, and hands long crawls to
background workers. The processes share a Redis and a Postgres; inside a process
everything runs on one asyncio event loop, so two requests interleave only where
the code awaits, and two processes interleave at every Redis and database call.

This directory models the parts of the program in which that matters. Each
module names the source files it was written from at its top; `PROJECT.json`
maps every definition to the lines it stands for. Paths below are relative to
`src/`.

## 1. Inventory

| Component | State it keeps | Operations | Talks to |
|---|---|---|---|
| Crawl-job queue and worker (`app/services/crawl_jobs/queue.py`, `app/workers/crawl_worker.py`, `app/api/crawl_jobs.py`) | a Redis list of jobs, two expiring keys per job (status, result); the tasks and the semaphore of a worker | enqueue, dequeue (marks running), store result, get job | `crawl_single`, product frontier |
| Browser grid (`app/services/browser_grid/`, `app/workers/browser_grid_worker.py`) | a Redis list, one expiring result key per job; in-flight tasks of a worker | enqueue and poll until a deadline, take, push back, run, store, drain | ASP engine (its provider `browser_grid`), egress registry, stealth browser |
| Rate limiter (`app/services/rate_limiter.py`) | per domain: a lock, the last grant, the grants of the last minute | `wait_or_reject` | hybrid router |
| Source gate (`source_registry.py`, `compliance_checker.py`, `robots_service.py`, `crawler/hybrid_router.py`, `crawler/compliant_fetcher.py`, `crawler.py`, `app/api/sources.py`) | rows of the `sources` table with a status, the robots cache of a process | look a source up (and heal it), log an event (and block it), pause, activate, fetch through the router or around it | limiter, ASP engine, database |
| ASP engine and provider health (`asp/engine.py`, `asp/provider_health.py`, `asp/providers/`) | in memory: failures, circuit, disabled reason of each provider; in Redis: the day's spend | build the chain, fetch, escalate, retry, record success or failure, charge | providers, Redis |
| Proxy pool and egress rotation (`asp/proxy_pool.py`, `crawler/browser_fetcher.py`, `asp/providers/proxy_http.py`) | in memory and in Redis: failure counts, sticky choices; in Redis: success counts; a running index | next proxy, mark success, mark failure, clear; the retry loops of three users | Redis, egress registry |
| Egress registry (`asp/egress_registry.py`) | one expiring key per worker and an index of worker ids | heartbeat, list, build `direct://` urls | proxy pool |
| Product frontier (`crawler/product_frontier.py`) | frontier, visited set, results of one crawl | take the best URL, fetch, follow links | `crawl_single` |
| Shopping search (`shop_service.py`, `matching/product_matcher.py`, `normalization/product_normalizer.py`, `shop_price_extract.py`, `app/api/shop.py`) | products, offers, price history in Postgres; one session per request | search retailers concurrently, extract, find or create, persist, stream | source gate, vision, LLM cascade |
| Finance data (`yahoo_finance.py`, `yahoo_curl_client.py`, `api/finance_compat.py`) | a semaphore, the crawl cache | a quote out of nine sources, news, filings, pages | Yahoo, browser grid, stealth browser, vision |
| Crawl cache (`cache.py`; users `firecrawl_compat.py`, `api/zenith_compat.py`) | entries with a time of writing and a time to live | get, set, invalidate, clear | the endpoints |
| LLM cascade (`llm.py`) | a semaphore | text and screenshot extraction, each provider in turn | LLM services |
| Browser pool, sessions (`crawler/browser_pool.py`, `session_store.py`, `antibot/cookie_store.py`) | a global pool, its lock, a browser, a page semaphore; warm marks; stored cookies | make, start, open a page, shut down | Playwright |
| Captcha, vision, screenshots (`captcha_fetcher.py`, `asp/captcha/`, `asp/antibot/`, `vision_fetcher.py`, `screenshot_capture.py`) | nothing of their own | visit, solve, capture, extract | browser pool, LLM cascade, proxy pool |

The remaining parts (ranking, fingerprints, selector healing, metrics, scripts, the
external providers) are listed in `PROJECT.json` with the
reason they are left out: they are text processing or plain calls to services.

How a fetch travels: an endpoint, the shopping search or a crawl worker calls the
**source gate**; it asks the **limiter**, then robots.txt, then fetches compliantly
or hands over to the **ASP engine**, which goes down a chain of providers; two of
them are the stealth browser, here with the **proxy pool** or on a **grid** worker.
A page's failure comes back up the same way, and every level has its own idea of
retrying, remembering and giving up. That is where the hard behaviour is:

* *Crashes between two Redis calls.* BRPOP has no acknowledgement: from the pop to
  the stored result a job lives in one process only.
* *Check, await, use.* The grid worker checks its capacity before it awaits BRPOP;
  the router reads a source's status three awaits before it fetches; the engine
  builds its chain once and other scrapes disable its providers meanwhile.
* *The same fact in two places.* Sticky proxies and failure counts live in each
  process and in Redis; a job's outcome in two keys that expire; a paused source
  in a row that a lookup rewrites.
* *Cancellation.* `asyncio.wait_for` cancels a search inside the limiter's lock, or in a
  page of the browser pool; a client that leaves closes the session under its tasks.
* *One object, many tasks.* The retailers of a search share a database session: one
  task's failed flush breaks it for all, one task's commit expires the rows of all.
* *Long cascades.* A quote goes through nine sources and an extraction through four
  providers, several attempts and several batches, under a semaphore of one or two.
* *Exceptions that travel.* The engine catches none, the router's caller catches all.

What makes each component correct is stated by the properties of section 4; the
list of hazards, each at its line with the properties that cover it, is in
`PROJECT.json`.

## 2. Modules

| Module | Stands for |
|---|---|
| `JobLifecycle` | the abstract life of a job document: queued, running, one outcome, and expiry |
| `CrawlJobs` | the crawl-job queue, its workers, its clients; implements `JobLifecycle` |
| `CrawlJobsProofs` | the theorems about `CrawlJobs` |
| `GridRequest` | the abstract life of a scrape request and its job: offered, one run, over |
| `BrowserGrid` | the grid's queue, its clients and its workers; implements `GridRequest` |
| `DomainLimiter` | what the limiter promises: grants, a clock and two bounds |
| `RateLimiter` | the limiter of one process; implements `DomainLimiter` |
| `SourceGate` | registry, compliance, robots, router, `crawl_single` |
| `AspEscalation` | the engine and the provider health of one process |
| `EgressRotation` | the proxy pool in several processes and its three users |
| `ProductFrontier` | one scoped crawl for product pages |
| `ShopExtraction` | what a retailer's page becomes: listings, prices, the merge with the model's answer |
| `ShopCatalogue` | what searches promise their tables: rows stay, a price given to an offer is owed to its history |
| `ShoppingSearch` | searches, their tasks, sessions and tables; uses `ShopExtraction`, implements `ShopCatalogue` |
| `CrawlCache` | the cache |
| `YahooQuote` | `fetch_yahoo_full`: the cascade and its semaphore; uses `CrawlCache` |
| `FinanceApi` | the endpoints over both |
| `BrowserPool`, `LlmCascade` | the two resources a vision extraction asks for |
| `VisionExtraction` | the tasks that use them: stealth fetch, captcha fetch, screenshots, text |
| `RateLimiterProofs`, `ProductFrontierProofs`, `BrowserGridProofs`, `FinanceProofs`, `VisionProofs` | the theorems about these |
| `AspProofs` | the theorems about `EgressRotation` and `AspEscalation` |
| `ShoppingProofs` | the theorems about `ShopExtraction`, `ShoppingSearch` and `SourceGate` |
| `MC...` | model values and small sets for TLC |

The boundaries between the modules are the calls between the components, and what
crosses them is an input: a crawl's outcome in `CrawlJobs` is any of the statuses
`crawl_single` returns; the answers of the limiter, robots.txt and the engine in
`SourceGate` are all the answers those give; a fetch's outcome in `AspEscalation`
is any of the five classes `engine.py` and `provider_health.py` tell apart; a block
in `EgressRotation` may hit any attempt.

### CrawlJobs

One action per Redis call. `EnqueueMark`, `EnqueuePush` and `EnqueueReply` are
`enqueue_job` and the endpoint; `EnqueueFault` is the process dying, or Redis
failing, between them. `Pop` is BRPOP, `MarkRunning` the SETEX that follows it and
the creation of the task. `Start` is the semaphore, `StoreResult` and `StoreStatus`
are the two writes of `store_result`, `StoreFault` a failure of either.
`WorkerCrash` forgets what the process holds. `PollResult` and `PollStatus` are the
two reads of `get_job`. `Tick` ages the keys. `reached` and `lost` are history.

### BrowserGrid

`fetch_via_browser_grid` is `Enqueue`, `PollDone` and `GiveUp`. `run_worker` is cut
at its awaits: `CheckCapacity`, then `Pop` (or `PopNothing`, `PopReplyLost`), then
`Dispatch` or `PushBack`; `PopRaises` is a BRPOP that raised and popped nothing, whatever the
list holds. `RunStores`, `RunRaises`, `ErrorStores` and
`ErrorStoreFails` are `_run_job_with_semaphore` with its except branch. `Sigterm`,
`Exit`, `Crash` and `Restart` are the process. A pin is chosen with the request and
may name a worker that is gone, as the registry's slots outlive their workers.
`ImplementsRequest` maps this to `GridRequest` with `Phase` and `Runners`: a job is offered
while it is in the list or in a hand, so BRPOP and the push-back are steps in which nothing
happens to it.

### RateLimiter

`Call` queues on the domain's lock, `Lock` takes it and computes the sleep, `Grant`
and `Reject` are what follows the sleep, `Cancel` is a cancellation in the queue or
in the sleep. Delay and limit belong to the caller, because two sources may share a
domain; a field of 0 means the default (`or 10`, `or 6`), as in the code.
`ImplementsLimiter` maps this to `DomainLimiter`, which has the history of grants (`granted`)
and the clock alone: of the lock, the sleep and the table nothing is to be seen.

### SourceGate

`Enter` finds a source by one of three doors, heals it where the door does, and
checks its status, all without an await. `RateAllowed`, `RateLimited`,
`RobotsLoaded`, `CompliantReply` and `ManagedReply` are the awaits of the router.
`ProviderRaises`, `DatabaseRaises`, `NoDatabase` and `Cancel` are what leaves it
early; `FallbackReply` and `FallbackManagedReply` are `_fetch_without_db`. A source
is one of the combinations of the columns the code looks at.

### AspEscalation

`Begin` builds the chain (`BuildProviderChain`) from the circuits of that moment. `FetchReply`,
`NextProvider`, `LastResort` and `RetryReply` are the loop of `scrape_url` and the
retry after it, `Charge`, `ChargeFails` and `Finish` the charging of the day's
spend over Redis. `Tick` and `NewDay` are time: a cooldown is kept as what is left
of it, so the clock needs no bound.

### EgressRotation

`GetNextProxy`, `MarkFailure` and `MarkSuccess` are the pool. They run without an await, but not
in one piece: a mark changes the memory of its process at once and leaves in `calls` what it
then asks of Redis, and each of these calls is a step, after which it has worked or not. An
increment has a `try` of its own (`RedisIncr`), the deletions of a success share one
(`RedisWipe`, `RedisWiped`), so do the looks at the choices of the retailers the process
remembers (`RedisLook`, `RedisForget`), and `RedisClear` is `clear_sticky_proxy`. The process
stands still until its calls are over (`Idle`), the others go on. The counters of Redis are
those of a host (`HostKey` is `proxy_host_key`), which several URLs of a gateway share, and of
a retailer on it; `_failures` in memory goes by URL. The reads of one `get_next_proxy` are one
step, in which any set of counters of `Outages` may not be readable. `Expires` is the end of a
choice or a counter. `Pick`, `Succeeds`, `Blocked`, `Breaks`, `HttpFails` and `DirectReply` are
the loops of the browser fetch, the screenshot capture and the HTTP provider; `pictures` is
what the last attempt of a capture left in `last["images"]`, which the direct visit at its end
looks at. The running index is kept modulo `TurnModulus`, a number that every length of a
candidate list divides (`TurnAssumption`), so no choice sees the difference. `blame` and
`failedFor` are history.

### ProductFrontier

`run_scoped_pdp_crawl` runs alone, so the module is about what it does, not about who
interferes. `Take` is a round of its loop up to the await (the stable sort, the first
entry, the test for `visited`), `FetchReply` the rest of the round, `FetchRaises` and
`Finish` its ends. `Strategy` is the strategy the crawl really gets from its caller.
The web is not modelled: what a page holds is chosen when it is fetched, so redirects
and pages that change are included. The deque is a set of entries with the number of
pages fetched when they were made, which is all a stable sort can see of their order,
up to the order of the links of one page, which is arbitrary.

### ShoppingSearch

A task runs from one await to the next in one action; what it does between the last
await and its end, the look-ups, inserts, commits and refreshes of the matcher and of
`_persist_offer`, is cut at every database call, and the task keeps the event loop of
its process meanwhile (`loop`). So only another process, or the thread that closes a
session (`get_db` is a synchronous dependency), comes in between. `Close` may come before any
statement of a task: `Place` says where it finds it, with the new row already added or not.
From then on the row is not the session's own: a commit writes nothing of it, and the refresh
after it raises (`WriteSevered`); after a commit that did write, the refresh raises all the same
and the history is never written. `source` says what a task's row of the source is good for: a
commit of anybody in the search expires it, closing detaches it. `session` is broken by a flush
that failed. Similar titles are a relation (`Alike`). Prices are whole dollars or texts
(`Texts`), and `Number` is what `_coerce_listing_price` reads in a text; a listing that is kept
has a number, but what no normalisation keeps goes on as it is, and `Decimal(str(...))` raises
over it, as over a rating that is a text (`Illegible`). An absent text is the constant
`NoText`; what the error of an answer may say is the parameter `Errors`. `torn` is history.
`ImplementsCatalogue` maps the tables to `ShopCatalogue`: what a task *owes* is the price it
has committed to an offer and not yet to the history (`Owed`), and everything but a commit is
a step in which nothing happens to the tables.

### YahooQuote, CrawlCache, FinanceApi

`FetchYahooFull` is one action per source, in the order of `fetch_yahoo_via_asp`, with
everything a source may do: its modules, a price, a page, nothing, or the exception
that is in no `try`. A price is only *whether* it is there and *whom it names*, since
that decides everything. `heard` is history: a price that names the symbol was received.
The other endpoints share the shape of a look-up, one or two sources, the vision model
and a write; `Reads`, `Keeps`, `HasFallback` say which of these a kind has. `Tick` is the
cache's clock. With `OnRedis` every call of the cache may raise, before or after Redis did as
it was told (`GetRaises`, `SetRaises`, `InvalidateRaises`, `ClearRaises`); none of its users
catches that, so the request ends as "cut".

### BrowserPool, LlmCascade, VisionExtraction

`BrowserPool` numbers the pools of a process, so a task keeps the one it was given when
the global moves on. `Make` and `Started` are the start under the lock, `Leave` is what
the exit from `page()` does wherever it is taken; before `apply_stealth` returned there
is no `finally`, and a context is `lost`, as is one that a cancelled `new_context` has made. `LlmCascade` is a provider per step, under the
semaphore; `EndsAttempt` decides between another attempt, the next batch and the end.
`VisionExtraction` composes both: the visit is cut at its awaits, the end of a visit
(`VisitEnds`) is what the kind of task makes of it. `egress`, `tries` and `proxied` are
the rotation of `capture_stealth_screenshots`, the loop that differs from the one in
`EgressRotation`.

## 3. How to run

    tlc -workers 2 -config CrawlJobs_safety.cfg MCCrawlJobs
    tlapm CrawlJobsProofs.tla
    tlapm RateLimiterProofs.tla
    tlapm ProductFrontierProofs.tla
    tlapm VisionProofs.tla
    tlapm BrowserGridProofs.tla
    tlapm AspProofs.tla
    tlapm ShoppingProofs.tla
    tlapm FinanceProofs.tla

`PROJECT.json` lists the module and the configuration of each run.

## 4. What the runs check

| Run | Checks | Shows |
|---|---|---|
| `jobs_safety` | `DeliveredOnce`, `Accounted`, `StatusIsEarned`, `NeverRegresses`, `ImplementsLifecycle`, `AcceptedJobsSettle` | Two jobs on two workers, with crashes and Redis errors at any call and keys that expire: at most one delivery, nothing vanishes without a fault, what a client sees only moves forward, and an accepted job gets an outcome or was hit by a fault. |
| `grid_checks` | `CapacityHeld`, `HeldOnce`, `WaitingIsAccounted`, `ImplementsRequest`, `UnpinnedJobsTaken`, `DrainEnds` | Push-backs, SIGTERM, crashes and a restart do not copy a job and do not run one twice or where its pin forbids it; an unpinned job is not starved by pinned ones; a drained worker stops with nothing in its hands. |
| `limiter` | `Spacing`, `WindowBound`, `RejectionsJustified`, `ImplementsLimiter` | The delay and the window hold between sources that share a domain, with cancellation anywhere; the pruned table decides as the real grants of the last minute would; no deadlock. |
| `gate_checks` | `RobotsObeyed`, `RobotsRemembered`, `FetchesEnd` | Tier 1 asks only for what robots.txt allows, whichever fetch loaded it; what the file was taken for stays, and differs from what a fetch heard only where another one raced it; a fetch ends also when everything raises. |
| `asp_safety` | `DisabledGoesQuiet`, `SuspensionStays` | A suspension or a spent budget takes hold within one more fetch per scrape slot, and neither a late success nor the budget lifts a suspension. |
| `egress_checks` | `PoolTypeOK`, `NeverFailsBehindProxy`, `SkipsAreEarned` | Two processes with all calls of Redis interleaved: a broken proxy cannot take a capture down unless it shows it blank pictures; no proxy is skipped for failures it did not have, whatever bookkeeping is lost, although the HTTP provider names no retailer, the capture does, and two URLs have one host. |
| `frontier` | `ScopeKept`, `NothingLeftOut`, `ReachesAll` | Whatever the pages hold, a crawl stays in its scope, follows every link unless it has enough, and loses no page to the order it works in. |
| `shop_checks` | `OfferPriceExplained`, `OneOfferPerTitle`, `OnlyFaultsFail`, `ImplementsCatalogue` | The price an offer shows is in its history, unless a statement raised in between or the session was closed under a request that had ended; one process makes no offer twice; without a raised call a task fails only in a request that ended before it, because its client left or one of its tasks found a price or rating that is no number. `ImplementsCatalogue` adds the order: the price comes first, its history once after it or never, and only from the task that gave it. |
| `finance_checks` | `FinanceTypeOK`, `PriceNotLost`, `PoisonRemoved`, `EveryRequestAnswered` | A price that named its symbol is not lost in the rest of the cascade; a bad quote in the cache does not survive a look-up, whoever stores or clears meanwhile; only an exception of the cache itself is excused from both; permits come back from every exit. |
| `vision_checks` | `VisionTypeOK`, `ContextsAccounted`, `GivesUpLast`, `EveryTaskEnds` | Contexts are closed on every exit but the one known; a batch is given up only after every provider; every task ends through cancellations and the shutdown. |

Two more runs (`asp_cooldown`, `frontier_strategy`) check one statement each that a document
or a docstring makes and the code does not keep; TLC finds the counterexample (section 7).

**Bounds.** Two of everything that competes (jobs, workers, fetches, scrapes), since
the hazards are between two actors: a second job to fill the permit, a second worker
to hold what the first lost, a second fetch to load robots.txt in between.
`Concurrency = 1` makes every permit contested. `TTL = 2` lets one key expire while
the other lives, the case `StatusIsEarned` is about. Three callers in the limiter
(two on one domain, with different settings and one with fields of 0; one alone) and
a clock of a little more than two windows, so that grants leave the window and come
again. One restart in the grid: the restarted worker meets jobs of its former life in
the queue; a second restart repeats this. `ProviderMaxFailures = 1` with a cooldown of one
tick in the engine makes every failure open a circuit, so a chain meets closed, open
and cooling providers. In the pool two URLs of one gateway, which share their Redis counters and
not those in memory, and a worker slot, so that lists have one to three entries and
`TurnModulus = 6` does; two fetches in two processes, of which the capture has three attempts,
and `MaxFailures = 2`, so that the failures of both decide the choices of both. The browser's
own fetch differs from a capture in that it has no pictures and that a worker slot is always a
fetch without a proxy; with a third fetch of that kind the run is too long, and what the
properties say of it is proved (section 5). In the shop two
retailers of one search, with one permit each, and a second search for the first retailer,
in the same process or in another: three tasks meet in a session, in a table and in both;
one fault, as every property under faults is about the traces of a single one. Titles with
a promotional word, and a pair that is only similar; pages with and without listings,
prices below the floor, a year that looks like a price, a text with a plausible price in it, one
with none, and a rating that is a text. Two pages lead to the same title and price, one
by the numbers on it and one by its title, so that all ways to a payload are there and not one
payload more than the tables tell apart. Three finance requests, so that a
third can write or clear between the look-up and the eviction of another, with one permit;
the quote's entry outlives two ticks, the page's one. Two tasks at the pool and the models,
one page and one call at a time, two providers, attempts and batches each; two pools, the
one before a shutdown and the one made after it (a third would need a second shutdown). Five URLs in the crawl, one for each distance from
the seed and two of equal score, with every page of at most two links, the default depth
of 2, and a limit of 4, which cuts some crawls short and not others. `asp_safety` uses
symmetry over scrapes, which are interchangeable; the runs with a liveness property use
none.

**Deadlock** is checked in `limiter` and `asp_safety`, whose systems can always go on, and
in `shop_checks`, `finance_checks` and `vision_checks`, whose models may stop in one place
only, where everything is over (`AllOver`, `Idle`); in the others every job, fetch or crawl
of the model may be over.

**Fairness.** *CrawlJobs*: weak fairness on the worker's loop and on each of its
tasks, as the event loop runs what is ready and a crawl's awaits have timeouts; none
on faults, polls or the clock. *BrowserGrid*: the same, and strong fairness on `Pop`:
Redis serves blocked BRPOPs in the order they came, so a worker that keeps asking
while jobs keep appearing is served. *SourceGate*: weak fairness on a fetch's
replies; every await of it has a timeout. *FinanceApi*, *VisionExtraction*: weak
fairness on `Progress`, any step of any request or task, and on nothing else: the event loop
runs something if something can run, the awaits have timeouts, and asyncio's semaphores and
locks serve their queues in order. That is enough, as every step brings its task nearer its end
and no task waits for more than a permit. The clock, cancellations and the shutdown are not
fair. `ShoppingSearch` needs none: deadlock is checked, and no task ever goes back.

## 5. What is proved

### Crawl jobs

`CrawlJobsProofs` proves, for any finite or infinite set of jobs and workers, any
number of permits and any time to live, with the assumptions `ConcurrencyAssumption`,
`TTLAssumption` and `NoJobAssumption` (permits and time to live are positive naturals;
`NoJob` is no job):

* `TypeCorrect`, `AtMostOnce`, `NothingSilentlyLost`, `StatusEarned`,
  `PermitsBounded`: the invariants `TypeOK`, `DeliveredOnce`, `Accounted`,
  `StatusIsEarned`, `PermitBound`;
* `ClientMonotone`: the action property `NeverRegresses`;
* `Refinement`: `Spec => ImplementsLifecycle`.

None of these is inductive alone. `IInv` adds three facts about each job:

* `KeyInv`: a STATUS key that lags behind the outcome (it still says running) is never
  outlived by the absence of RESULT, because RESULT was written later with the same
  time to live. Without the comparison of the two times to live the expiry of RESULT
  could uncover an old "running", and neither `StatusIsEarned` nor the refinement
  would hold.
* `ProgressInv`: where a job is (list, hand, task) determines the furthest document
  written for it; this makes every write of a worker a step of `JobLifecycle`.
* `ClientInv`: what a client has seen precedes that document, and between the two
  reads of `get_job` the status key it is about to read is not behind what it saw.

`TypeStep`, `DeliveryStep`, `ProgressStep`, `KeyStep`, `ClientStep` and
`AccountedStep` show that `Next` preserves each part, one step per action;
`PermitsBounded` is separate, as it counts (`FiniteSetTheorems`). `Refinement` maps
each action to `Advance`, `Repost`, `Expire` or a stutter (`StepRefines`).

### The rate limiter

`RateLimiterProofs` proves `TypeOK`, `Spacing`, `WindowBound`, `SleepBounded` and
`RejectionsJustified` for any callers, domains, settings and any length of the window,
without a bound on time (`MaxTime` may be any natural). It assumes `CallerAssumption` (the
two fields are naturals, the defaults are not 0), `TimeAssumption` and
`NobodyAssumption`. `Spacing` alone is not inductive: `SleepInv` adds that the holder's
sleep ends a delay after the *present* last grant, which is true because only a holder
grants; `TableInv` adds that the table is not behind the grants. `WindowBound` counts:
grants have distinct times by `Spacing`, so their times inject into the window
(`FS_Injection`), and `RejectionsJustified` goes the other way (`FS_Surjection`).
`QueueInv` (nobody is twice in a line, or in a line whose lock he holds) gives
`SleepBounded`.

`Refinement` is `Spec => ImplementsLimiter`. The code never looks at its grants, only at a
list it prunes; `TableCounts` shows that what is left of the list stands one to one for the
grants of the last minute, so `len(...) >= max_rpm` counts what `DomainLimiter` counts. That
the delay has passed since *every* grant is `SleepInv` and `Spacing` (`GrantRefines`); the
other actions change neither clock nor grants, or are the clock (`StepRefines`).

### The scoped crawl

`ProductFrontierProofs` proves `TypeOK`, `ScopeKept`, `NothingLeftOut` and `NeverRefetched`
for any set of URLs, finite or not, any pages, scores, path rules and limits, and
`ReachesAll` for a depth of at most 2. `EntryInv` and `CoverInv` say of the frontier what
`ScopeKept` and `NothingLeftOut` say of the pages fetched. `ReachesAll` rests on `AgeInv`:
every link of the seed's page that is not fetched yet has an entry of depth 1 made before
any other page was fetched, and entries of a larger depth are younger; entries for one URL
have one score, so the stable sort takes the oldest, and such a link is fetched at depth 1.
Two clicks then lead only over pages whose links are followed. The bound is sharp, as
section 7 says.

### The browser pool and the models

`VisionProofs` proves `VisionTypeOK`, `ContextsAccounted` and `GivesUpLast` for any set of tasks
of any kinds, any number of permits of the pool and of the models, of providers, batches,
tries and pools, whichever tasks may be cancelled, from `PoolAssumption`, `LlmAssumption`
and `VisionAssumption`. `VisionExtraction` has 21 actions on three sets of variables; the
proof does not take them one by one for each invariant. `StepEffects` says first what a
step can do to each part: to the cascade (`LlmNext`: an extraction starts, is dropped, or
makes a step of its own), to the pool (`PoolNext`: one of its actions, a move within a
page, or one of two ways to leave) and to the task (`VisitNext`). Each invariant is then
kept by the effects on its own part:

* `LlmInv` (`LlmStepKeeps`): an extraction under way has a batch left, and the providers
  that raised are those before `next`. `GivesUpLast` follows from it step by step
  (`GivesUpStep`).
* `PlaceInv`: the lock is held by exactly the task that starts a browser, and the browser
  it starts is not up; `FreshInv`: a pool that never ran has no context and nobody but its
  starter. Without these two the start of a browser could meet pages that are already in it.
* `PermitInv` and `CountInv` count: one task enters or leaves `Inside` or `Visiting` at a
  time (`OneMore`, `OneLess`).

### The browser grid

`BrowserGridProofs` proves `TypeOK`, `HeldOnce`, `CapacityHeld`, `WaitingIsAccounted` and the
refinement for any set of requests and workers, any concurrency and any number of restarts, from
`ConcurrencyAssumption`, `MaxRestartsAssumption`, `NoJobAssumption` (`NoJob` is no job) and
`AnyWorkerAssumption` (`AnyWorker` is no worker). The invariant adds two facts to them:

* `FreshInv`: a request that was not made has its job nowhere, so the LPUSH of a request
  does not make a second copy; a push-back moves the job from the hand, which `HeldOnce`
  says is its only place.
* `RoomInv`: from the capacity check to the dispatch the tasks are fewer than the limit. It
  holds although the check is made before BRPOP is awaited, because only the loop of the
  worker starts tasks and it does nothing else in between. The tasks of a worker are counted with
  `FS_AddElement` and `FS_Subset`.

`Refinement` is `Spec => ImplementsRequest`, from that invariant. `HeldOnce` speaks of one
state; the refinement adds the order: what has run does not run again, and a result is there
only because of the run. Each action has a lemma (`AskRefines` to `CrashRefines`): a BRPOP
and a push-back are seen by nobody (`Unseen`), the faults are `Lose` (`Loses`), the dispatch
is `Run`, and the ends of a task are `Store` and `End`. `PhaseFacts` is where `HeldOnce` and
`FreshInv` come in: a job that is in the list or in a hand is in no task.

### Quotes and the cache

`FinanceProofs` proves `FinanceTypeOK`, `PriceNotLost` and `PoisonRemoved` of `FinanceApi`, and so of
`YahooQuote` and `CrawlCache`, for any requests in any mix, any symbols, keys, times to live
and number of permits, with curl, grid and vision switched on or off. It assumes
`CacheAssumption`, `YahooAssumption`, `ScenariosAssumption` (what a request may ask) and
`OldCachesAssumption` (entries found at the start were written at time 0; `NoEntry` is no
entry).

* `CallInv`: `Gathered` says for each stage what a call can have by then. Before the chart
  API no source names the symbol; the modules and vision exclude each other; an anonymous
  price and the chart do as well. A price that was heard therefore stands in a record that
  is `Scoped`, the call is on its way to `Store`, and `ScopedIsValid` says that the
  sanitising does not take it away.
* `CleanInv`: from the eviction on, the entry of a quote's key is sound, whoever wrote it.
  `StepPasses` reduces every step to what the cache and the semaphore see of it (`Passes`):
  the stages it joins and one of three effects on the cache, none of which makes a sound
  entry unsound (`EffectKeeps`, `TickKeeps`). A look-up that misses found no entry, because
  none outlives its time to live (`CacheInv`).
* `PermitInv` counts the calls in the cascade.

### The source gate

`ShoppingProofs` proves `GateTypeOK`, `RobotsObeyed` (`RobotsKept`) and `RobotsRemembered` of
`SourceGate` for any sources of any kinds and any number of fetches, with and without the
JavaScript probe, from `KindsAssumption` and `NoSourceAssumption`. Both are inductive with the
types. The policy of a source does not change, so what `Route` decided (`RouteObeys`) still
holds when Tier 1 has answered and hands over to the managed fetch (`CompliantReplyKeeps`). For
`RobotsRemembered` the only step that matters is `RobotsLoaded`: whoever overwrites the cache
heard what it wrote, and is the other fetch the property allows for.

### The shopping search

`ShoppingProofs` also proves `TypeOK`, the three invariants `shop_checks` checks,
`OfferPriceExplained`, `OneOfferPerTitle` and `OnlyFaultsFail`, and the refinement, for any
searches and retailers on any number of processes, any pages and answers of the models and any number of
faults, from `SearchesAssumption` and `PagesAssumption` (payloads are sets of named prices,
the numbers of a page are finitely many, and "nothing" is among the names and the errors) and
`TextsAssumption` (texts are no numbers).

* What a task may store comes first: `Cheapest`, `Least`, `Picked`, `Merged`, `Seen` and
  `Read` say that `NormalizeShopData`, `PickBestPrice`, `MergeShopExtraction` and `PageData`
  give payloads again. The best of a finite set is a `CHOOSE`, and that there is one is
  shown with `LeastElement`, for finite sets of numbers by their rank (`RankTaken`).
* `ShopInv` is `TypeOK` with what a task stands with at each place (`TaskOk`), with `LoopOk`
  (a task keeps its process's loop exactly while it stores), `SourceOk` and `RowsOk` (a row
  refers to rows that exist, each offer has a history). The actions preserve it through
  `ShopMoves`: it suffices that the task that moved is in order and the tables have lost no
  row.
* `OfferPriceExplained` is not inductive: between the commit of an offer and the commit of
  its price it is a task that explains the price, and a task whose session was closed under it
  will make the offer torn when it ends. `Explained` allows just that, and `Agrees` says that
  within one process nobody changes the offer meanwhile. The reason is `Alone`: only one task of
  a loop stores at a time (`LoopOk`). With several processes another one may update the offer,
  and the price is then somewhere in its history. The second half of the property, why offers
  are torn, needs that a task stands where a close put it only if the close came while the
  request was over and its client had left or another task had raised.
* `OneOfferPerTitle` needs that a task about to insert an offer has still not got one
  (`Absent`), which again is `Alone`.
* `OnlyFaultsFail` needs `CalmOk`: without a fault no session is broken, a task about to
  insert a product still finds none (`NewTitle`), and a row is lost or a task raises only
  after the request has ended. `Apart` is what every step of a task leaves alone.

`Refinement` is `Spec => ImplementsCatalogue`, in any number of processes. To `ShopInv` it
adds `OwnOffers`: the offer a task is about to update is one of its own source
(`FindOfferOwn`), and stays so, as rows keep their source (`OwnKept`). Each action has a
lemma: the ones before the tables, between them and after them are stutters, because they change
neither the rows nor what is owed (`StillRefines`, `OwedStays`), and so is the close, which moves
tasks only between places that owe the same (`DebtOf`); `InsertProductRefines` is
`AddProduct`, whose title is new because the unique key makes the commit raise otherwise;
`InsertOfferRefines` and `UpdateOfferRefines` are `AddOffer` and `SetPrice` with a debt,
`WritePriceRefines` is `Pay`, and a statement that raises or meets a closed session while
something is owed is `Fail`. A timeout and a client that leaves cannot come in between, since a
task that stores is not in an await.

### The egress

`AspProofs` proves `PoolTypeOK`, `NeverFailsBehindProxy` and `SkipsAreEarned` for any proxies,
gateways, processes, retailers, fetches and limits, with Redis failing at any call, from
`UrlsAssumption`, `FetchesAssumption` and `LimitsAssumption`. `RouteInv` is what
`used_real_proxy` is for: whoever is behind a proxy remembers it, so the loop cannot end as
failed without the direct visit; that a capture with blank pictures can is the exception the
property names. `SkipsAreEarned` is not inductive once the
increments are steps of their own: a counter may be behind its failures by the increments its
processes have still to ask for. `CountInv` therefore counts those with it (`Waiting`, the
processes whose `calls` hold the counter, a finite set), and every step either adds one to both
sides or lowers the left one. Which proxy the pool gives is not used.

### The ASP engine

`AspProofs` proves `AspTypeOK`, `DisabledGoesQuiet` and `SuspensionStays` of `AspEscalation`
for any providers, costs, limits and budget and any number of scrapes at once, from
`ProviderAssumption` and `LimitAssumption`. `SuspensionStays` is an action property: each
action is shown to be a `Stay` besides preserving the invariant. For `DisabledGoesQuiet`,
`SlotOk` says why a slot cannot start a second late fetch: the provider it started late is
disabled for good, so no later chain holds it (`Begin` asks the circuits), and it does not
come again in the chain at work, as a chain names no provider twice. That is where
`ProviderAssumption` has a part: `ASP_PROVIDER_ORDER` must name each provider once. The code
does not check it; every order in the repository does. `ChainBuilt` proves of the loop of
`build_provider_chain` that its result holds usable providers only, none of them twice. The
model writes the loop as a recursive function; `LoopEnds` shows that the function exists and
`ChainBuilt` what it is, each by the smallest counterexample (`LeastElement`, from `WFMin`),
since the library's induction theorems take an operator and cannot be used.

### Only model-checked

Every liveness property (`AcceptedJobsSettle`, `UnpinnedJobsTaken`, `DrainEnds`,
`FetchesEnd`, `EveryRequestAnswered`, `EveryTaskEnds`): liveness under fairness is out of
this prover's reach. That the models do not deadlock, which is about ENABLED. Of
`ShopExtraction` it is proved that it gives payloads, not which. Every safety invariant and
every action property of a passing run is proved, and so are the four refinements. The other
direction holds as well: `TypeOK` of `CrawlJobs`, `BrowserGrid`, `RateLimiter`,
`ProductFrontier` and `ShoppingSearch`, `GateTypeOK`, `AspTypeOK`, `PermitBound`, `SleepBounded` and
`NeverRefetched` are proved, for every instance, and no run repeats them.

## 6. What is left out

* *Inside one fetch*: the pages and the browser's actions; they appear as outcomes. The
  clicks and drags of a solver are one step of `VisionExtraction`.
* *CrawlJobs*: `parse_job` failing on a malformed entry (only `enqueue_job` writes
  entries).
* *BrowserGrid*: heartbeats, and whether a stored result is a page or an error. A job may
  be pinned to any worker, dead or alive, which is all that `egress_registry.py` can do.
* *SourceGate*: creating, editing and deleting sources, snapshots.
* *EgressRotation*: a pool without Redis (`PROXY_POOL_REDIS=false`); that the reads of one
  `get_next_proxy` may see a counter before and another after a change of another process.
* *ShoppingSearch*: the source's own status changes (they are in `SourceGate`), GTIN and
  brand keys, which a shop result never has, and the ranking of results. Prices of 0 and less;
  a text of digits only counts as a number; a review count that is a text (a commit that raises,
  as any may); a session closed while one of its commits runs.
* *FinanceApi*: the contents of quotes, news and filings; `prefetch.py`, whose
  `start_scheduler` nothing calls.
* *LlmCascade*: no provider at all, and the health check.
* *Selector healing*: a learnt selector never matches (section 7), so the file changes no
  result, and within a process nothing runs between its read and its write.
* The other components with status `not_modelled` in `PROJECT.json`, each with its reason.

## 7. Where the code and its documents disagree

Each has a run whose counterexample shows it (`findings` in `PROJECT.json`):

* `asp_cooldown`: the circuit breaker has a cooldown, but `is_circuit_open` also asks
  for the failure count, which only a success resets: it never closes.
* `frontier_strategy`: the worker does not pass a queued crawl's strategy on, so the crawl
  is same-domain whatever was asked.

Noted while modelling, without a run of their own:

* the reason `daily_budget_exceeded` stays in the memory of the process, so on the next day,
  whose spend is 0, the paid providers are still switched off (`provider_health.py:158`), where
  `ARCHITECTURE.md:75` speaks of a daily cap. In `AspEscalation` this is a `Begin` after
  `NewDay`; no property says that the providers should stay off;
* a managed retailer whose Tier 4 is still blocked stays active (`source_registry.py:151`), where
  `CONTRACT.md:16` makes such a source `blocked_or_rate_limited`: in `SourceGate` a
  `ManagedReply` with the answer `tier4_blocked` leaves its status alone;
* a capture whose last proxy shows it blank pictures keeps them and is not visited directly
  (`browser_fetcher.py:525`), where its docstring speaks of the same path as the HTML fetch,
  which falls back "so a broken egress node can never take down all fetches"
  (`browser_fetcher.py:351`): the exception `NeverFailsBehindProxy` has to make;
* a generic source is set to `blocked_or_rate_limited` by its own rate limit or a Tier-1
  signal (`source_registry.py:149`), where `CONTRACT.md:16` says only Tier 4 does that;
* `get_next_proxy` indexes a list it sorts anew by health with a running counter
  (`proxy_pool.py:238`), so the attempt after a block may use the blocked proxy again,
  where `ARCHITECTURE.md:55` speaks of rotating;
* a chain built before the budget ran out still reaches its paid provider (`engine.py:63`);
* `mark_proxy_success` deletes, with every `fincrawler:proxy:*:<host>` key, the two
  success counters it has just incremented (`proxy_pool.py:161`);
* a process keeps a sticky proxy that another one has cleared in Redis
  (`proxy_pool.py:177`);
* any exception in the router, a provider's included, counts as "no database", and the
  fetch is repeated without robots.txt, limiter and status (`crawler.py:114`);
* `get_by_retailer` reactivates a retailer an operator paused (`source_registry.py:107`);
* two grid workers in step can pop and push back each other's pinned jobs for ever
  (`browser_grid_worker.py:150`);
* at depth 3 and more the scoped crawl can miss a page that a breadth-first crawl finds:
  a page first reached by a detour through well-scored pages is fetched at its larger
  depth, and its own links are then too deep. `ReachesAll` fails at `MaxDepth = 3` with
  six URLs (seed to a and c, a to d, d to b, c to b, b to e; a, b, d score high, c, e low);
* a scoped crawl whose seed could not be fetched still returns `"status": "ok"`
  (`product_frontier.py:155`);
* shopping: an extraction that failed is stored as a product with an empty title and an
  offer called "Unknown"; a blocked page whose screenshots gave only invalid listings is
  reported as ok; a model's price above the floor is taken without the plausibility check
  of the other prices; after one retailer raised, the others go on and store into a
  session that was closed, where an offer may keep a price its history lacks
  (`shop_service.py:123`); a price that is a text, such as "$20.00", raises in `Decimal` after
  its product was stored and fails the request of every retailer (`shop_service.py:111`). `pick_best_price` says it prefers prices that appear several
  times, and counts none;
* quotes: the price on a page of the ASP engine is stored without a symbol and therefore
  always dropped by `_sanitize_flat_for_ticker`; an anonymous price also keeps the chart
  API, which would name the symbol, from being asked; the "safety net"
  (`yahoo_finance.py:1214`) says vision was skipped or disabled, and runs a vision that
  failed once more; the eviction of a bad entry can remove a good one stored since the
  look-up (`yahoo_finance.py:1165`); with Redis down the eviction and the write of a finished
  quote (`yahoo_finance.py:1251`) end the request in an exception, whatever it had;
* `cache.get` counts the age from the time of writing, so what took long to fetch is
  older than `max_age_ms`; a forced `/fetch/html` is not stored at all;
* `use_nvidia_fallback` is ignored by `_create_vision_chat_completion`: the retry that the
  log calls a fallback goes through the same cascade from its head (`llm.py:592`);
* a browser whose launch fails leaves the Playwright driver running; a start that ends
  after the shutdown leaves a browser nothing refers to (`browser_pool.py:82`). The models
  show both, as a pool that is `unstarted` or `up` without being `current`;
* the warm mark is kept per retailer, while every visit has a context of its own that has
  visited nothing (`session_store.py:11`);
* `_text_near_selector` writes `{1,200}` in an f-string, which becomes `(1, 200)`: no
  learnt selector ever matches (`selector_healer.py:134`).

## 8. Plan

Done: `CrawlJobs` under `JobLifecycle`, `BrowserGrid` under `GridRequest`, `RateLimiter` under
`DomainLimiter`, `SourceGate`, `AspEscalation`, `EgressRotation`, `ProductFrontier`,
`ShoppingSearch` with `ShopExtraction` under `ShopCatalogue`, `FinanceApi` with `YahooQuote` and `CrawlCache`, `VisionExtraction` with
`BrowserPool` and `LlmCascade`; the proofs of section 5.

Modelling that is left, in order: the heartbeats of `egress_registry.py`, composed with
`BrowserGrid`, so that a pin is what the registry said at that time; a composition of
`SourceGate` with `RateLimiter` and `AspEscalation`, in which the answers of the two are
theirs and not inputs.

Proofs: `ReachesAll` beyond a depth of 2 for crawls whose links are scored alike.
