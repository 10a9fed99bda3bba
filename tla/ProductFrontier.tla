-------------------------- MODULE ProductFrontier ---------------------------
(***************************************************************************)
(* One scoped crawl for product pages                                      *)
(* (app/services/crawler/product_frontier.py, run_scoped_pdp_crawl): from  *)
(* a seed it always fetches the most promising URL found so far and        *)
(* follows the links of what it got, until enough pages are kept.  An      *)
(* endpoint runs it itself or enqueues it for a crawl worker               *)
(* (app/api/crawl_jobs.py, app/workers/crawl_worker.py).                   *)
(*                                                                         *)
(* What a page holds is chosen when it is fetched: nothing is assumed of   *)
(* the web, and a redirect is a page that holds another page's links.  A   *)
(* page is the set of its links, their order in it being arbitrary.        *)
(***************************************************************************)
EXTENDS Naturals, FiniteSets

CONSTANTS Urls, Seed,
          Pages,     \* the sets of links a page may hold
          Score,     \* score_product_url, on a scale of naturals
          Rich,      \* the 0.5 of page_score, on that scale
          Allowed,   \* the URLs _path_allowed lets through whose score is not negative
          Kin,       \* how near to the seed a URL is: 0 its origin, 1 its
                     \* hostname, 2 its domain, 3 elsewhere
          Requests,  \* the strategies asked for, and whether the crawl is queued
          MaxDepth, Limit

ASSUME SeedAssumption == Seed \in Urls
ASSUME UrlAssumption ==
  /\ Score \in [Urls -> Nat] /\ Rich \in Nat
  /\ Kin \in [Urls -> 0 .. 3]
  /\ Allowed \subseteq Urls
ASSUME PagesAssumption == Pages \subseteq SUBSET Urls
ASSUME RequestsAssumption == Requests \subseteq [asked : 0 .. 3, queued : BOOLEAN]
ASSUME LimitAssumption == MaxDepth \in Nat /\ Limit \in Nat \ {0}

\* A strategy is the distance it allows: same-origin is 0, same-hostname 1,
\* same-domain 2 and all 3.
SameDomain == 2

VARIABLES
  request,   \* the strategy asked for, and whether a crawl worker runs the crawl
  frontier,  \* what is to be fetched: [url, depth, found], found being the
             \* number of pages fetched when the entry was made
  visited,   \* URLs fetched or being fetched
  results,   \* the pages kept, by the URL asked for
  page,      \* the entry being fetched
  at,        \* loop, fetching, done or failed
  held,      \* history: the links of a page fetched, none if the fetch failed
  depthOf    \* history: the depth a URL was fetched at

vars == <<request, frontier, visited, results, page, at, held, depthOf>>

Entry == [url : Urls, depth : 0 .. MaxDepth, found : Nat]
Start == [url |-> Seed, depth |-> 0, found |-> 0]

Init ==
  /\ request \in Requests
  /\ frontier = {Start}
  /\ visited  = {}
  /\ results  = {}
  /\ page     = Start
  /\ at       = "loop"
  /\ held     = [u \in Urls |-> {}]
  /\ depthOf  = [u \in Urls |-> 0]

\* The worker does not hand the strategy of the job's options on, so the default
\* holds for a queued crawl.
Strategy == IF request.queued THEN SameDomain ELSE request.asked

Eligible(u) == Kin[u] <= Strategy /\ u \in Allowed
-----------------------------------------------------------------------------
\* The order of the frontier when it is sorted: by score, and stably, so that
\* among equals an older entry stays in front.
Before(e, f) ==
  \/ Score[e.url] > Score[f.url]
  \/ Score[e.url] = Score[f.url] /\ e.found <= f.found

First(e) == e \in frontier /\ \A f \in frontier : Before(e, f)

Fetch(e) ==
  /\ page'    = e
  /\ visited' = visited \cup {e.url}
  /\ depthOf' = [depthOf EXCEPT ![e.url] = e.depth]
  /\ at'      = "fetching"

TakeUnsorted ==
  /\ at = "loop" /\ Cardinality(results) < Limit
  /\ \E e \in frontier :
       /\ \A f \in frontier : Score[e.url] >= Score[f.url]
       /\ frontier' = frontier \ {e}
       /\ IF e.url \in visited THEN UNCHANGED <<page, visited, depthOf, at>> ELSE Fetch(e)
  /\ UNCHANGED <<request, results, held>>

\* The first entry is taken, and fetched if its URL was not.
Take ==
  /\ at = "loop" /\ Cardinality(results) < Limit
  /\ \E e \in frontier :
       /\ First(e)
       /\ frontier' = frontier \ {e}
       /\ IF e.url \in visited THEN UNCHANGED <<page, visited, depthOf, at>> ELSE Fetch(e)
  /\ UNCHANGED <<request, results, held>>

\* A page is kept when it looks like a product, or was the seed, or came in well:
\* one that failed and scores low is not.
Kept(ok, signal) ==
  ok \/ signal \/ page.depth = 0 \/ Score[page.url] >= Rich

EntryFor(u) == [url |-> u, depth |-> page.depth + 1, found |-> Cardinality(visited)]

FoundAnywhere(links) == {EntryFor(u) : u \in links \ visited}

\* The links that are followed, each entered again by every page that holds it.
Found(links) == {EntryFor(u) : u \in {v \in links \ visited : Eligible(v)}}

\* crawl_single answered.
FetchReply(ok, signal, links) ==
  /\ at = "fetching"
  /\ results'  = IF Kept(ok, signal) THEN results \cup {page.url} ELSE results
  /\ frontier' = IF ok /\ page.depth < MaxDepth THEN frontier \cup Found(links) ELSE frontier
  /\ held'     = IF ok THEN [held EXCEPT ![page.url] = links] ELSE held
  /\ at'       = "loop"
  /\ UNCHANGED <<request, visited, page, depthOf>>

\* crawl_single raised: the crawl ends without a result.
FetchRaises ==
  /\ at = "fetching"
  /\ at' = "failed"
  /\ UNCHANGED <<request, frontier, visited, results, page, held, depthOf>>

FinishEarly ==
  /\ at = "loop"
  /\ frontier = {} \/ Cardinality(visited) >= Limit
  /\ at' = "done"
  /\ UNCHANGED <<request, frontier, visited, results, page, held, depthOf>>

Finish ==
  /\ at = "loop"
  /\ frontier = {} \/ Cardinality(results) >= Limit
  /\ at' = "done"
  /\ UNCHANGED <<request, frontier, visited, results, page, held, depthOf>>

Replies == \E ok, signal \in BOOLEAN, links \in Pages : FetchReply(ok, signal, links)

Next == Take \/ Replies \/ FetchRaises \/ Finish

Spec == Init /\ [][Next]_vars
-----------------------------------------------------------------------------
(***************************************************************************)
(* Properties.                                                             *)
(***************************************************************************)
\* Type of the state.
TypeOK ==
  /\ request \in Requests
  /\ frontier \in SUBSET Entry
  /\ visited \in SUBSET Urls
  /\ results \in SUBSET visited
  /\ page \in Entry
  /\ at \in {"loop", "fetching", "done", "failed"}
  /\ held \in [Urls -> SUBSET Urls]
  /\ depthOf \in [Urls -> 0 .. MaxDepth]
  /\ at = "fetching" => page.url \in visited /\ page.depth = depthOf[page.url]

\* Nothing but the seed is fetched outside the scope of the crawl or against the
\* path rules, whatever redirects bring links from where: every URL fetched is
\* eligible itself and stands on a page fetched one step nearer to the seed.
ScopeKept ==
  \A u \in visited \ {Seed} :
    /\ Eligible(u)
    /\ \E p \in visited : depthOf[u] = depthOf[p] + 1 /\ u \in held[p]

\* No URL is fetched again, although links are found any number of times and the
\* frontier repeats them.
NeverRefetched ==
  [][at' = "fetching" /\ at # "fetching" => page'.url \notin visited]_vars

\* The crawl ended because nothing was left, not because it had enough.
RanOut == at = "done" /\ Cardinality(results) < Limit

\* A crawl that ends because nothing is left has followed every link: each
\* eligible one on a page fetched above the last level has been fetched.
NothingLeftOut ==
  RanOut => \A p \in visited : depthOf[p] < MaxDepth =>
              \A u \in held[p] : Eligible(u) => u \in visited

\* The pages the links lead to from the seed in n clicks or less, each page
\* being the one the crawl got.
Within(n) ==
  {u \in Urls : \E k \in 0 .. n : \E path \in [0 .. k -> Urls] :
     /\ path[0] = Seed /\ path[k] = u
     /\ \A i \in 1 .. k : path[i] \in held[path[i - 1]] /\ Eligible(path[i])}

\* "BFS over same-domain links": although the most promising page goes first, at
\* the default depth of 2 a crawl that was not cut short has fetched every page
\* within that many clicks; none is lost because a detour led to it too late.
ReachesAll == RanOut => Within(MaxDepth) \subseteq visited

\* "scope is always constrained by strategy": the strategy the client asked for.
ScopeAsAsked == \A u \in visited \ {Seed} : Kin[u] <= request.asked
=============================================================================
