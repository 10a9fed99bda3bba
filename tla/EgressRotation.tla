--------------------------- MODULE EgressRotation ---------------------------
(***************************************************************************)
(* Which egress a page is fetched through: the proxy pool, whose health    *)
(* and sticky choices live partly in each process and partly in Redis      *)
(* (app/services/asp/proxy_pool.py), and its three users: the stealth      *)
(* browser's fetch and its screenshot capture                              *)
(* (app/services/crawler/browser_fetcher.py), which rotate and retry, and  *)
(* the proxy_http provider, which tries once                               *)
(* (app/services/asp/providers/proxy_http.py).                             *)
(*                                                                         *)
(* The pool's functions run without an await, and the pool is the Redis    *)
(* one, whose keys all processes share.  Every call of Redis that counts,  *)
(* deletes or looks is a step of its own, and any of them may fail: a      *)
(* process stands still until those it has begun are over (calls), the     *)
(* others go on.  The reads of one get_next_proxy are one step.            *)
(***************************************************************************)
EXTENDS Naturals, Sequences, FiniteSets, SequencesExt, FiniteSetsExt

CONSTANTS Urls,         \* load_proxy_urls(), in its order
          Direct,       \* those that are direct://worker-id
          HostKey,      \* proxy_host_key: URLs of one gateway share theirs
          Processes,    \* API and worker processes
          Fetches,      \* the page fetches of the model, each made once
          HostOf,       \* the process that makes a fetch
          KindOf,       \* html, shots (screenshots) or http
          RetailerOf,
          Retailers,
          MaxAttempts,  \* browser_proxy_max_retries
          MaxFailures,  \* proxy_max_failures
          Outages,      \* bound: which counters' reads may fail together
          TurnModulus,  \* bound: _index is kept modulo it
          NoProxy, NoRetailer

Proxies == ToSet(Urls)
Hosts   == {HostKey[u] : u \in Proxies}

\* The Redis counters: ok and fail of a host, rok and rfail of a retailer on it.
Counters == [what : {"ok", "fail"}, of : Retailers \cup {NoRetailer}, host : Hosts]

ASSUME UrlsAssumption ==
  /\ Urls # <<>> /\ IsInjective(Urls) /\ Direct \subseteq Proxies
  /\ HostKey \in [Proxies -> Hosts]
ASSUME FetchesAssumption ==
  /\ IsFiniteSet(Processes)
  /\ HostOf \in [Fetches -> Processes]
  /\ KindOf \in [Fetches -> {"html", "shots", "http"}]
  /\ RetailerOf \in [Fetches -> Retailers]
ASSUME LimitsAssumption ==
  /\ MaxAttempts \in Nat \ {0} /\ MaxFailures \in Nat \ {0}
  /\ NoProxy \notin Proxies /\ NoRetailer \notin Retailers
  /\ Outages \subseteq SUBSET Counters
\* Every length of a candidate list divides it, so the list sees no difference.
ASSUME TurnAssumption ==
  TurnModulus \in Nat \ {0} /\ \A n \in 1 .. Len(Urls) : TurnModulus % n = 0

VARIABLES
  memFail,    \* _failures of each process
  memSticky,  \* _sticky of each process
  fresh,      \* the retailers whose entry there has not expired
  turn,       \* _index of each process, modulo every possible list length
  calls,      \* what the process still has to ask of Redis
  count,      \* the Redis counters
  sticky,     \* the Redis sticky choice of a retailer
  at,         \* where a fetch stands
  tries,      \* attempts of a fetch that are over
  using,      \* the proxy of the attempt in progress
  usedReal,   \* used_real_proxy
  pictures,   \* last["images"] of a capture: the blank ones of a blocked attempt
  blame,      \* history: failures of a proxy in a process
  failedFor   \* history: failures a Redis counter should know of

memory  == <<memFail, memSticky, fresh, turn>>
redis   == <<count, sticky>>
fetch   == <<at, tries, using, usedReal, pictures>>
history == <<blame, failedFor>>
vars    == <<memory, calls, redis, fetch, history>>

NoCalls == [incr |-> {}, wipe |-> {}, look |-> {}, found |-> {}, clear |-> {}]

Init ==
  /\ memFail   = [w \in Processes |-> [u \in Proxies |-> 0]]
  /\ memSticky = [w \in Processes |-> [r \in Retailers |-> NoProxy]]
  /\ fresh     = [w \in Processes |-> {}]
  /\ turn      = [w \in Processes |-> 0]
  /\ calls     = [w \in Processes |-> NoCalls]
  /\ count  = [k \in Counters |-> 0]
  /\ sticky = [r \in Retailers |-> NoProxy]
  /\ at    = [f \in Fetches |-> "pick"]
  /\ tries = [f \in Fetches |-> 0]
  /\ using = [f \in Fetches |-> NoProxy]
  /\ usedReal = [f \in Fetches |-> FALSE]
  /\ pictures = [f \in Fetches |-> FALSE]
  /\ blame     = [w \in Processes |-> [u \in Proxies |-> 0]]
  /\ failedFor = [k \in Counters |-> 0]
-----------------------------------------------------------------------------
(***************************************************************************)
(* The pool.                                                               *)
(***************************************************************************)
Key(what, u, r) == [what |-> what, of |-> r, host |-> HostKey[u]]

\* _redis_get_int: a read that fails is a zero.
ReadCount(k, lost) == IF k \in lost THEN 0 ELSE count[k]

\* _health_score as [ok, of].
Score(u, r, lost) ==
  LET good == ReadCount(Key("ok", u, NoRetailer), lost) + ReadCount(Key("ok", u, r), lost)
      bad  == ReadCount(Key("fail", u, NoRetailer), lost) + ReadCount(Key("fail", u, r), lost)
  IN IF good + bad = 0 THEN [ok |-> 1, of |-> 2] ELSE [ok |-> good, of |-> good + bad]

FailCount(w, u, lost) == Max({memFail[w][u], ReadCount(Key("fail", u, NoRetailer), lost)})

Place(u) == CHOOSE i \in DOMAIN Urls : Urls[i] = u

\* The list get_next_proxy sorts anew each time: healthiest first, then in the
\* configured order; all of them, unsorted, when every one has failed too often.
\* A counter that both looks at is read twice.
Candidates(w, r, skipLost, scoreLost) ==
  LET usable == {u \in Proxies : FailCount(w, u, skipLost) < MaxFailures}
      Before(u, v) ==
        LET a == Score(u, r, scoreLost)
            b == Score(v, r, scoreLost)
        IN a.ok * b.of > b.ok * a.of \/ (a.ok * b.of = b.ok * a.of /\ Place(u) < Place(v))
  IN IF usable = {} THEN Urls ELSE SetToSortSeq(usable, Before)

\* get_sticky_proxy: what Redis answered, else this process's own memory.
StickyChoice(w, r, got) ==
  IF got # NoProxy THEN got ELSE IF r \in fresh[w] THEN memSticky[w][r] ELSE NoProxy

\* get_next_proxy for fetch f gives u.  Redis may fail to tell its choice (got), to be
\* told a new one, and at any of the counters.
GetNextProxy(f, u) ==
  LET w == HostOf[f]  r == RetailerOf[f] IN
  \E got \in {sticky[r], NoProxy} :
    IF StickyChoice(w, r, got) # NoProxy
      THEN u = StickyChoice(w, r, got) /\ UNCHANGED <<memSticky, fresh, turn, sticky>>
      ELSE /\ \E skipLost, scoreLost \in Outages :
                LET list == Candidates(w, r, skipLost, scoreLost)
                IN u = list[(turn[w] % Len(list)) + 1]
           /\ turn'      = [turn EXCEPT ![w] = (@ + 1) % TurnModulus]
           /\ memSticky' = [memSticky EXCEPT ![w][r] = u]
           /\ fresh'     = [fresh EXCEPT ![w] = @ \cup {r}]
           /\ sticky' \in {sticky, [sticky EXCEPT ![r] = u]}

FailKeysOfAll(f, u, named) == {Key("fail", u, q) : q \in Retailers \cup {NoRetailer}}

\* The counters a failure of u is told to: a caller that names its retailer has both.
FailKeys(f, u, named) ==
  {Key("fail", u, NoRetailer)} \cup (IF named THEN {Key("fail", u, RetailerOf[f])} ELSE {})

\* mark_proxy_failure and (named) clear_sticky_proxy: what the process does at once,
\* and what it then asks of Redis.  It looks at the Redis choices of the retailers that
\* are left in its own memory: where the memory held u, the entry is gone already.
MarkFailure(f, u, named) ==
  LET w == HostOf[f]  r == RetailerOf[f]
      left == [q \in Retailers |-> IF memSticky[w][q] = u THEN NoProxy ELSE memSticky[w][q]]
  IN
  /\ memFail'   = [memFail EXCEPT ![w][u] = @ + 1]
  /\ memSticky' = [memSticky EXCEPT ![w] = IF named THEN [left EXCEPT ![r] = NoProxy] ELSE left]
  /\ calls' = [calls EXCEPT ![w] =
       [NoCalls EXCEPT !.incr  = FailKeys(f, u, named),
                       !.look  = [shop : {q \in Retailers : left[q] # NoProxy}, url : {u}],
                       !.clear = IF named THEN {r} ELSE {}]]
  /\ UNCHANGED <<fresh, turn, redis>>

\* mark_proxy_success counts and then deletes every counter of the host, the one it
\* has just incremented included.
MarkSuccess(f, u, named) ==
  /\ memFail' = [memFail EXCEPT ![HostOf[f]][u] = 0]
  /\ calls' = [calls EXCEPT ![HostOf[f]] =
       [NoCalls EXCEPT !.incr = {Key("ok", u, NoRetailer)} \cup
                                (IF named THEN {Key("ok", u, RetailerOf[f])} ELSE {}),
                       !.wipe = {HostKey[u]}]]
  /\ UNCHANGED <<memSticky, fresh, turn, redis>>
-----------------------------------------------------------------------------
(***************************************************************************)
(* What a process asks of Redis, in the order of the code.  A call that    *)
(* does not work raises, and its try ends: an increment has its own, the   *)
(* deletes of a wipe share one, and so do the looks.                       *)
(***************************************************************************)
Idle(w) == calls[w] = NoCalls

\* _redis_incr: the host's counter first.
RedisIncr(w, k, works) ==
  /\ k \in calls[w].incr
  /\ k.of = NoRetailer \/ \A j \in calls[w].incr : j.of # NoRetailer
  /\ calls' = [calls EXCEPT ![w].incr = @ \ {k}]
  /\ count' = IF works THEN [count EXCEPT ![k] = @ + 1] ELSE count
  /\ UNCHANGED <<memory, sticky>>

\* _redis_delete_prefix_for_proxy: one key after the other, until there is none or one
\* call fails.
RedisWipe(w, k) ==
  /\ calls[w].incr = {} /\ k.host \in calls[w].wipe /\ count[k] > 0
  /\ count' = [count EXCEPT ![k] = 0]
  /\ UNCHANGED <<memory, calls, sticky>>

RedisWiped(w) ==
  /\ calls[w].incr = {} /\ calls[w].wipe # {}
  /\ calls' = [calls EXCEPT ![w].wipe = {}]
  /\ UNCHANGED <<memory, redis>>

\* The loop at the end of mark_proxy_failure: is the retailer's choice this URL?
RedisLook(w, l, works) ==
  /\ calls[w].incr = {} /\ calls[w].found = {} /\ l \in calls[w].look
  /\ calls' = [calls EXCEPT
       ![w].look  = IF works THEN @ \ {l} ELSE {},
       ![w].found = IF works /\ sticky[l.shop] = l.url THEN {l.shop} ELSE {}]
  /\ UNCHANGED <<memory, redis>>

\* It was; by now it may be another.
RedisForget(w, r, works) ==
  /\ r \in calls[w].found
  /\ calls' = [calls EXCEPT ![w].found = {}, ![w].look = IF works THEN @ ELSE {}]
  /\ sticky' = IF works THEN [sticky EXCEPT ![r] = NoProxy] ELSE sticky
  /\ UNCHANGED <<memory, count>>

\* clear_sticky_proxy.
RedisClear(w, r, works) ==
  /\ calls[w].incr = {} /\ calls[w].look = {} /\ calls[w].found = {} /\ r \in calls[w].clear
  /\ calls' = [calls EXCEPT ![w].clear = {}]
  /\ sticky' = IF works THEN [sticky EXCEPT ![r] = NoProxy] ELSE sticky
  /\ UNCHANGED <<memory, count>>

\* Choices and counters expire: a process's own entry (which stays in its memory), a
\* key of Redis.
Expires ==
  \/ \E w \in Processes : \E r \in fresh[w] :
       fresh' = [fresh EXCEPT ![w] = @ \ {r}] /\ UNCHANGED <<count, sticky>>
  \/ \E r \in Retailers :
       /\ sticky[r] # NoProxy
       /\ sticky' = [sticky EXCEPT ![r] = NoProxy] /\ UNCHANGED <<fresh, count>>
  \/ \E k \in Counters :
       /\ count[k] > 0
       /\ count' = [count EXCEPT ![k] = 0] /\ UNCHANGED <<fresh, sticky>>
-----------------------------------------------------------------------------
(***************************************************************************)
(* fetch_stealth_browser, capture_stealth_screenshots, ProxyHttpProvider.  *)
(***************************************************************************)
Goto(f, place) == at' = [at EXCEPT ![f] = place]

\* After the loop: a fetch that used a real proxy tries once without, a capture only
\* if its last attempt left no images.
Ends(f, images) == Goto(f, IF usedReal[f] /\ ~images THEN "direct" ELSE "failed")

\* History: an attempt of f through u failed, and whose counters are to know.
Concerns(k, f, u, named) ==
  k.what = "fail" /\ k.host = HostKey[u] /\ (k.of = NoRetailer \/ (named /\ k.of = RetailerOf[f]))

Blames(f, u, named) ==
  /\ blame'     = [blame EXCEPT ![HostOf[f]][u] = @ + 1]
  /\ failedFor' = [k \in Counters |->
                     IF Concerns(k, f, u, named) THEN failedFor[k] + 1 ELSE failedFor[k]]

\* The top of the loop.  A direct:// egress means no proxy: the browser fetches
\* without one, a capture does so only in its first attempt.
Pick(f, u) ==
  /\ at[f] = "pick"
  /\ GetNextProxy(f, u)
  /\ IF u \in Direct /\ KindOf[f] = "shots" /\ tries[f] > 0
       THEN Ends(f, pictures[f]) /\ UNCHANGED <<using, usedReal>>
       ELSE LET real == u \notin Direct \/ KindOf[f] = "http" IN
            /\ using'    = [using EXCEPT ![f] = IF real THEN u ELSE NoProxy]
            /\ usedReal' = [usedReal EXCEPT ![f] = @ \/ real]
            /\ Goto(f, "fetching")
  /\ UNCHANGED <<memFail, calls, count, tries, pictures, history>>

\* httpx knows no direct:// proxy, so that fetch is an error.
Succeeds(f) ==
  /\ at[f] = "fetching"
  /\ ~(KindOf[f] = "http" /\ using[f] \in Direct)
  /\ Goto(f, "ok")
  /\ IF using[f] # NoProxy
       THEN MarkSuccess(f, using[f], KindOf[f] # "http")
       ELSE UNCHANGED <<memory, calls, redis>>
  /\ UNCHANGED <<tries, using, usedReal, pictures, history>>

BlockedGivesUp(f, images) ==
  /\ at[f] = "fetching" /\ using[f] # NoProxy /\ KindOf[f] # "http"
  /\ images => KindOf[f] = "shots"
  /\ MarkFailure(f, using[f], TRUE) /\ Blames(f, using[f], TRUE)
  /\ tries'    = [tries EXCEPT ![f] = @ + 1]
  /\ pictures' = [pictures EXCEPT ![f] = images]
  /\ Goto(f, IF tries[f] + 1 < MaxAttempts THEN "pick" ELSE "failed")
  /\ UNCHANGED <<using, usedReal>>

BlockedOnceTooOften(f, images) ==
  /\ at[f] = "fetching" /\ using[f] # NoProxy /\ KindOf[f] # "http"
  /\ images => KindOf[f] = "shots"
  /\ MarkFailure(f, using[f], TRUE) /\ Blames(f, using[f], TRUE)
  /\ tries'    = [tries EXCEPT ![f] = @ + 1]
  /\ pictures' = [pictures EXCEPT ![f] = images]
  /\ IF tries[f] + 1 <= MaxAttempts THEN Goto(f, "pick") ELSE Ends(f, images)
  /\ UNCHANGED <<using, usedReal>>

\* A bot wall worth rotating for, or an error, behind a proxy: next attempt.  A capture
\* is also blocked by blank pictures, which it keeps.
Blocked(f, images) ==
  /\ at[f] = "fetching" /\ using[f] # NoProxy /\ KindOf[f] # "http"
  /\ images => KindOf[f] = "shots"
  /\ MarkFailure(f, using[f], TRUE) /\ Blames(f, using[f], TRUE)
  /\ tries'    = [tries EXCEPT ![f] = @ + 1]
  /\ pictures' = [pictures EXCEPT ![f] = images]
  /\ IF tries[f] + 1 < MaxAttempts THEN Goto(f, "pick") ELSE Ends(f, images)
  /\ UNCHANGED <<using, usedReal>>

\* Any other block, or anything but a page without a proxy: the loop breaks.  Only
\* without a proxy can blank pictures be its reason.
Breaks(f, images) ==
  /\ at[f] = "fetching" /\ KindOf[f] # "http"
  /\ images => KindOf[f] = "shots" /\ using[f] = NoProxy
  /\ pictures' = [pictures EXCEPT ![f] = images]
  /\ Ends(f, images)
  /\ UNCHANGED <<memory, calls, redis, tries, using, usedReal, history>>

\* The provider marks the failure without its retailer and leaves it sticky.
HttpFails(f) ==
  /\ at[f] = "fetching" /\ KindOf[f] = "http"
  /\ MarkFailure(f, using[f], FALSE) /\ Blames(f, using[f], FALSE)
  /\ Goto(f, "failed")
  /\ UNCHANGED <<tries, using, usedReal, pictures>>

\* The last resort after real proxies, without one.
DirectReply(f, answer) ==
  /\ at[f] = "direct"
  /\ at' = [at EXCEPT ![f] = answer]
  /\ using' = [using EXCEPT ![f] = NoProxy]
  /\ UNCHANGED <<memory, calls, redis, tries, usedReal, pictures, history>>

FetchStep(f) ==
  \/ \E u \in Proxies : Pick(f, u)
  \/ Succeeds(f)
  \/ \E images \in BOOLEAN : Blocked(f, images) \/ Breaks(f, images)
  \/ HttpFails(f)
  \/ \E answer \in {"ok", "failed"} : DirectReply(f, answer)

RedisStep(w) ==
  \/ \E works \in BOOLEAN :
       \/ \E k \in calls[w].incr  : RedisIncr(w, k, works)
       \/ \E l \in calls[w].look  : RedisLook(w, l, works)
       \/ \E r \in calls[w].found : RedisForget(w, r, works)
       \/ \E r \in calls[w].clear : RedisClear(w, r, works)
  \/ \E k \in Counters : RedisWipe(w, k)
  \/ RedisWiped(w)

Next ==
  \/ \E f \in Fetches : Idle(HostOf[f]) /\ FetchStep(f)
  \/ \E w \in Processes : RedisStep(w) /\ UNCHANGED <<fetch, history>>
  \/ Expires /\ UNCHANGED <<memFail, memSticky, turn, calls, fetch, history>>

Spec == Init /\ [][Next]_vars
-----------------------------------------------------------------------------
(***************************************************************************)
(* Properties.                                                             *)
(***************************************************************************)
\* Type of the state.  Only a fetch with attempts left picks an egress, and only a
\* capture has pictures.
PoolTypeOK ==
  /\ memFail \in [Processes -> [Proxies -> Nat]]
  /\ memSticky \in [Processes -> [Retailers -> Proxies \cup {NoProxy}]]
  /\ fresh \in [Processes -> SUBSET Retailers]
  /\ turn \in [Processes -> 0 .. TurnModulus - 1]
  /\ calls \in [Processes -> [incr : SUBSET Counters, wipe : SUBSET Hosts,
                              look : SUBSET [shop : Retailers, url : Proxies],
                              found : SUBSET Retailers, clear : SUBSET Retailers]]
  /\ count \in [Counters -> Nat]
  /\ sticky \in [Retailers -> Proxies \cup {NoProxy}]
  /\ at \in [Fetches -> {"pick", "fetching", "direct", "ok", "failed"}]
  /\ tries \in [Fetches -> 0 .. MaxAttempts]
  /\ using \in [Fetches -> Proxies \cup {NoProxy}]
  /\ usedReal \in [Fetches -> BOOLEAN]
  /\ pictures \in [Fetches -> BOOLEAN]
  /\ blame \in [Processes -> [Proxies -> Nat]]
  /\ failedFor \in [Counters -> Nat]
  /\ \A f \in Fetches : /\ at[f] = "pick" => tries[f] < MaxAttempts
                        /\ pictures[f] => KindOf[f] = "shots"

\* browser_fetcher.py:351 has every fetch that lost its proxies tried once without one.
\* A browser fetch fails only after an attempt that used no proxy, be it the last
\* resort or an egress that stood for none; but for a capture whose last proxy showed
\* it blank pictures.
NeverFailsBehindProxy ==
  \A f \in Fetches :
    at[f] = "failed" /\ KindOf[f] # "http" =>
      using[f] = NoProxy \/ (KindOf[f] = "shots" /\ pictures[f])

\* A proxy is skipped only for failures that really happened: no process counts more of
\* a URL's than it saw, and no counter of Redis, where all processes and all URLs of a
\* gateway add up, more than they saw, whichever call of Redis is lost on the way.
SkipsAreEarned ==
  /\ \A w \in Processes, u \in Proxies : memFail[w][u] <= blame[w][u]
  /\ \A k \in Counters : k.what = "fail" => count[k] <= failedFor[k]
=============================================================================
