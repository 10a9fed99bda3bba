----------------------------- MODULE SourceGate -----------------------------
(***************************************************************************)
(* The gate every page fetch goes through: the source registry and its     *)
(* statuses (app/services/source_registry.py, app/api/sources.py), the     *)
(* compliance checks, the robots cache (app/services/robots_service.py),   *)
(* the hybrid router that decides which tier fetches                       *)
(* (app/services/crawler/hybrid_router.py) and crawl_single, which leaves  *)
(* the router when anything in it raises (crawler.py).                     *)
(*                                                                         *)
(* A fetch is cut at its awaits: the rate limiter, robots.txt, the Tier-1  *)
(* request and the managed (ASP) fetch.  What lies between two awaits is   *)
(* one step, its database commits included.                                *)
(***************************************************************************)
EXTENDS Naturals, FiniteSets

CONSTANTS Sources,  \* rows of the sources table, one host each
          Fetches,  \* fetches of one page
          Kinds,    \* the combinations of columns a source may have
          JsProbe,  \* enable_auto_js_probe
          NoSource

Policies == {"strict", "advisory", "off"}
\* source_type = managed_retailer_search, escalate_on_block, robots_policy.
\* The sources that are not managed are the generic:host ones.
AllKinds == [managed : BOOLEAN, escalates : BOOLEAN, policy : Policies]

ASSUME KindsAssumption == Kinds \subseteq AllKinds
ASSUME JsProbeAssumption == JsProbe \in BOOLEAN
ASSUME NoSourceAssumption == NoSource \notin Sources

VARIABLES
  kind,    \* the columns of a source that nothing here changes
  status,  \* Source.status
  robots,  \* RobotsService._cache of the source's host
  src,     \* the source of a fetch
  inside,  \* whether crawl_single made the fetch (or an endpoint did itself)
  stage,   \* the await a fetch stands at, or what it returned
  can      \* what robots.txt said to this fetch

rows     == <<kind, status, robots>>
fetch    == <<src, inside, stage, can>>
gateVars == <<rows, fetch>>

Status  == {"pending_review", "active", "paused", "blocked_or_rate_limited"}
\* How a source is found: by id, by retailer key, or from the URL.
Doors   == {"id", "retailer", "url"}
InRouter == {"rate", "robots", "compliant", "managed"}
GateAwaits  == InRouter \cup {"fallback_compliant", "fallback_managed"}
Answers == {"ok", "rejected", "blocked", "error"}

GateInit ==
  /\ kind \in [Sources -> Kinds]
  /\ status \in [Sources -> {"pending_review", "active", "paused"}]
  /\ robots = [s \in Sources |-> "unread"]
  /\ src    = [f \in Fetches |-> NoSource]
  /\ inside = [f \in Fetches |-> FALSE]
  /\ stage  = [f \in Fetches |-> "new"]
  /\ can    = [f \in Fetches |-> "unasked"]

Step(f, place) == stage' = [stage EXCEPT ![f] = place]
-----------------------------------------------------------------------------
(***************************************************************************)
(* SourceRegistry.                                                         *)
(***************************************************************************)
\* log_event with captcha_detected, access_denied or rate_limited.
BlockingEvent(s) ==
  status' = IF kind[s].managed THEN status
            ELSE [status EXCEPT ![s] = "blocked_or_rate_limited"]

\* get_by_retailer and get_or_create_for_url put a source that is not active
\* back, the one a managed source, the other a generic one; a plain get by id
\* leaves the status alone.
Heals(s, d) == (d = "retailer" /\ kind[s].managed) \/ (d = "url" /\ ~kind[s].managed)
Found(s, d) == d = "id" \/ Heals(s, d) \/ status[s] = "active"

Pause(s) ==
  /\ status[s] # "paused"
  /\ status' = [status EXCEPT ![s] = "paused"]
  /\ UNCHANGED <<robots, fetch>>

\* /activate, /review-compliance
Activate(s) ==
  /\ status[s] # "active"
  /\ status' = [status EXCEPT ![s] = "active"]
  /\ UNCHANGED <<robots, fetch>>
-----------------------------------------------------------------------------
(***************************************************************************)
(* HybridRouter.fetch.                                                     *)
(***************************************************************************)
\* The source is found (and healed) and can_use_source looks at its status,
\* with no await in between.  Only crawl_single looks a source up by URL.
Enter(f, s, d, single) ==
  LET now == IF Heals(s, d) THEN "active" ELSE status[s] IN
  /\ stage[f] = "new"
  /\ Found(s, d) /\ (d = "url" => single)
  /\ src'    = [src EXCEPT ![f] = s]
  /\ inside' = [inside EXCEPT ![f] = single]
  /\ status' = [status EXCEPT ![s] = now]
  /\ Step(f, IF now = "active" THEN "rate" ELSE "rejected")
  /\ UNCHANGED <<robots, can>>

RouteIgnoringAdvice(s, verdict) ==
  IF kind[s].policy = "strict" /\ verdict # "allowed" THEN
    IF kind[s].managed /\ kind[s].escalates THEN "managed" ELSE "rejected"
  ELSE IF kind[s].policy = "advisory" /\ kind[s].managed THEN "managed"
  ELSE "compliant"

\* Where a fetch goes once robots.txt has been dealt with.
Route(s, verdict) ==
  IF kind[s].policy = "strict" /\ verdict # "allowed" THEN
    IF kind[s].managed /\ kind[s].escalates THEN "managed" ELSE "rejected"
  ELSE IF kind[s].policy = "advisory" /\ (kind[s].managed \/ verdict # "allowed") THEN "managed"
  ELSE "compliant"

\* Where an exception that leaves the router takes a fetch.
Exit(f) == IF inside[f] THEN "fallback_compliant" ELSE "error"

\* A page that is not allowed is logged first, and the log's commit may raise.
Heard(f, verdict) ==
  /\ can' = [can EXCEPT ![f] = verdict]
  /\ \/ Step(f, Route(src[f], verdict))
     \/ verdict \in {"disallowed", "unavailable"} /\ Step(f, Exit(f))

\* A parsed file decides by path; a host whose file could not be read is taken
\* to forbid everything, for as long as the process lives.
Verdicts(file) == IF file = "parsed" THEN {"allowed", "disallowed"} ELSE {"unavailable"}

\* The limiter let the fetch through; robots.txt is looked up in the cache.
RateAllowed(f) ==
  LET s == src[f] IN
  /\ stage[f] = "rate"
  /\ \/ kind[s].policy = "off" /\ Heard(f, "unasked")
     \/ kind[s].policy # "off" /\ robots[s] = "unread" /\ Step(f, "robots") /\ UNCHANGED can
     \/ /\ kind[s].policy # "off" /\ robots[s] # "unread"
        /\ \E verdict \in Verdicts(robots[s]) : Heard(f, verdict)
  /\ UNCHANGED <<status, robots, src, inside>>

\* The limiter said no: the event counts as a block of the source.
RateLimited(f) ==
  /\ stage[f] = "rate"
  /\ BlockingEvent(src[f])
  /\ Step(f, "rejected")
  /\ UNCHANGED <<robots, src, inside, can>>

RobotsLoadedAgain(f, file) ==
  /\ stage[f] = "robots"
  /\ robots' = [robots EXCEPT ![src[f]] = IF file = "parsed" THEN file ELSE @]
  /\ \E verdict \in Verdicts(file) : Heard(f, verdict)
  /\ UNCHANGED <<status, src, inside>>

\* The file was not in the cache when the fetch looked.  Two fetches may load it
\* at once, and the later answer stays.
RobotsLoaded(f, file) ==
  /\ stage[f] = "robots"
  /\ robots' = [robots EXCEPT ![src[f]] = file]
  /\ \E verdict \in Verdicts(file) : Heard(f, verdict)
  /\ UNCHANGED <<status, src, inside>>

\* What Tier 1 brings: a page, a page with block signals, a script shell, or an
\* error (whose empty HTML the probe takes for a shell).
Tier1Pages == {"page", "signal", "shell", "failed"}

Escalating(s, page) ==
  /\ kind[s].escalates
  /\ page = "signal" \/ (page \in {"shell", "failed"} /\ JsProbe)

CompliantReply(f, page) ==
  LET s == src[f] IN
  /\ stage[f] = "compliant"
  /\ IF Escalating(s, page)
       THEN /\ IF page = "signal" THEN BlockingEvent(s) ELSE UNCHANGED status
            /\ Step(f, "managed")
       ELSE IF page = "failed"
              THEN BlockingEvent(s) /\ Step(f, "blocked")
              ELSE UNCHANGED status /\ Step(f, "ok")
  /\ UNCHANGED <<robots, src, inside, can>>

\* What the ASP engine brings.  Signals stop the fetch only at tier 4; a block
\* below it is returned as it is, without an event.
ManagedPages == {"page", "tier4_blocked", "lower_blocked", "failed"}

ManagedReply(f, page) ==
  /\ stage[f] = "managed"
  /\ IF page \in {"tier4_blocked", "failed"}
       THEN BlockingEvent(src[f]) ELSE UNCHANGED status
  /\ Step(f, IF page = "page" THEN "ok" ELSE "blocked")
  /\ UNCHANGED <<robots, src, inside, can>>
-----------------------------------------------------------------------------
(***************************************************************************)
(* Exceptions.  Tier 1 and robots.txt catch their own; a provider's may    *)
(* come through the engine, and the database's from any commit.            *)
(***************************************************************************)
Leaves(f) ==
  /\ Step(f, Exit(f))
  /\ UNCHANGED <<status, robots, src, inside, can>>

ProviderRaises(f) == stage[f] = "managed" /\ Leaves(f)

DatabaseRaises(f) == stage[f] \in InRouter /\ Leaves(f)

\* The session could not even find the source.
NoDatabase(f, s, single) ==
  /\ stage[f] = "new"
  /\ src'    = [src EXCEPT ![f] = s]
  /\ inside' = [inside EXCEPT ![f] = single]
  /\ Step(f, IF single THEN "fallback_compliant" ELSE "error")
  /\ UNCHANGED <<status, robots, can>>

\* shop_service gives up on a retailer (asyncio.wait_for).
Cancel(f) ==
  /\ stage[f] \in InRouter /\ ~inside[f]
  /\ Step(f, "error")
  /\ UNCHANGED <<status, robots, src, inside, can>>

\* _fetch_without_db
FallbackReply(f, page) ==
  /\ stage[f] = "fallback_compliant"
  /\ Step(f, IF page \in {"signal", "failed"} \/ (page = "shell" /\ JsProbe)
               THEN "fallback_managed" ELSE "ok")
  /\ UNCHANGED <<status, robots, src, inside, can>>

FallbackRetries(f, answer) ==
  /\ stage[f] = "fallback_managed"
  /\ Step(f, IF answer = "ok" THEN "ok" ELSE "fallback_compliant")
  /\ UNCHANGED <<status, robots, src, inside, can>>

FallbackManagedReply(f, answer) ==
  /\ stage[f] = "fallback_managed"
  /\ Step(f, answer)
  /\ UNCHANGED <<status, robots, src, inside, can>>
-----------------------------------------------------------------------------
GateNext ==
  /\ \/ \E f \in Fetches, s \in Sources, single \in BOOLEAN :
          \/ \E d \in Doors : Enter(f, s, d, single)
          \/ NoDatabase(f, s, single)
     \/ \E f \in Fetches :
          \/ RateAllowed(f) \/ RateLimited(f)
          \/ \E file \in {"parsed", "unavailable"} : RobotsLoaded(f, file)
          \/ \E page \in Tier1Pages : CompliantReply(f, page) \/ FallbackReply(f, page)
          \/ \E page \in ManagedPages : ManagedReply(f, page)
          \/ \E answer \in Answers \ {"rejected"} : FallbackManagedReply(f, answer)
          \/ ProviderRaises(f) \/ DatabaseRaises(f) \/ Cancel(f)
     \/ \E s \in Sources : Pause(s) \/ Activate(s)
  /\ UNCHANGED kind

\* Every await of a fetch has a timeout, so it ends.
Replies(f) ==
  \/ RateAllowed(f) \/ RateLimited(f)
  \/ \E file \in {"parsed", "unavailable"} : RobotsLoaded(f, file)
  \/ \E page \in Tier1Pages : CompliantReply(f, page) \/ FallbackReply(f, page)
  \/ \E page \in ManagedPages : ManagedReply(f, page)
  \/ \E answer \in Answers \ {"rejected"} : FallbackManagedReply(f, answer)

GateSpec == GateInit /\ [][GateNext]_gateVars
FairGateSpec == GateSpec /\ \A f \in Fetches : WF_gateVars(Replies(f) /\ UNCHANGED kind)
-----------------------------------------------------------------------------
(***************************************************************************)
(* Properties.                                                             *)
(***************************************************************************)
\* Type of the state.
GateTypeOK ==
  /\ kind \in [Sources -> Kinds]
  /\ status \in [Sources -> Status]
  /\ robots \in [Sources -> {"unread", "parsed", "unavailable"}]
  /\ src \in [Fetches -> Sources \cup {NoSource}]
  /\ inside \in [Fetches -> BOOLEAN]
  /\ stage \in [Fetches -> {"new"} \cup GateAwaits \cup Answers]
  /\ can \in [Fetches -> {"unasked", "allowed", "disallowed", "unavailable"}]
  /\ \A f \in Fetches : stage[f] # "new" => src[f] # NoSource

\* Inside the router Tier 1 asks only for what robots.txt allows, under either
\* policy, and a strict source that may not escalate is not fetched without that.
\* Advisory and escalating retailers go to the managed fetch whatever the file says,
\* and the fallback of crawl_single does not ask it.
RobotsObeyed ==
  \A f \in Fetches :
    LET k == kind[src[f]] IN
    /\ stage[f] = "compliant" /\ k.policy # "off" => can[f] = "allowed"
    /\ stage[f] = "managed" /\ k.policy = "strict" /\ ~(k.managed /\ k.escalates)
         => can[f] = "allowed"

\* A host's robots.txt, or the failure to read it, is remembered for the life of the
\* process: once a fetch has heard a verdict the host is never unread again, and a
\* cache that contradicts what a fetch heard was filled by another fetch that raced
\* it and heard otherwise.
RobotsRemembered ==
  \A f \in Fetches : can[f] # "unasked" =>
    /\ robots[src[f]] # "unread"
    /\ \/ can[f] \in Verdicts(robots[src[f]])
       \/ \E g \in Fetches \ {f} : src[g] = src[f] /\ can[g] \in Verdicts(robots[src[f]])

\* A fetch that has begun ends, whatever the tiers answer or raise.
FetchesEnd == \A f \in Fetches : stage[f] \in GateAwaits ~> stage[f] \in Answers
=============================================================================
