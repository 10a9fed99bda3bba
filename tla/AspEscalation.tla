--------------------------- MODULE AspEscalation ----------------------------
(***************************************************************************)
(* The ASP engine of one process: concurrent scrapes, each of which builds *)
(* its chain of providers once and goes down it                            *)
(* (app/services/asp/engine.py, providers/registry.py, providers/base.py), *)
(* and the provider health they share: circuit breaker, suspension and     *)
(* daily budget (app/services/asp/provider_health.py).                     *)
(*                                                                         *)
(* The process's memory holds the health; the day's spend is in Redis.     *)
(* Times are kept as what is left of them, so the clock needs no bound.    *)
(***************************************************************************)
EXTENDS Integers, Sequences, FiniteSets, SequencesExt

CONSTANTS Slots,        \* scrapes in flight at once
          Order,        \* asp_provider_order, the configured providers
          Paid,         \* the providers a spent budget disables
          Cost,         \* PROVIDER_COST_USD
          ProviderMaxFailures,  \* provider_max_failures
          Cooldown,     \* provider_circuit_cooldown_seconds, in ticks
          Budget,       \* asp_daily_budget_usd; 0 switches the cap off
          Local, Grid, Captcha,  \* js_browser, browser_grid, captcha_browser
          NoProvider

Providers == ToSet(Order) \cup {Local}

\* The order is what ASP_PROVIDER_ORDER says; the code does not look for a provider named
\* twice there, and no order of the repository names one twice.
ASSUME ProviderAssumption ==
  /\ Paid \subseteq Providers \ {Local, Grid, Captcha}
  /\ Cost \in [Providers -> Nat]
  /\ Order \in Seq(ToSet(Order)) /\ IsInjective(Order)
  /\ NoProvider \notin Providers
ASSUME LimitAssumption == ProviderMaxFailures \in Nat \ {0} /\ Cooldown \in Nat /\ Budget \in Nat

VARIABLES
  failures,  \* failures in a row, counted up to ProviderMaxFailures
  cooling,   \* what is left of circuit_open_until
  disabled,  \* disabled_reason
  spend,     \* the day's spend in Redis, counted up to Budget + 1
  stage,     \* where a scrape stands
  chain,     \* the providers it has still to try, the one it awaits first
  tried,     \* the providers it has attempted
  booked,    \* the provider whose success it is charging
  late       \* history: fetches a slot started of a provider already disabled

health  == <<failures, cooling, disabled>>
scrape  == <<stage, chain, tried, booked>>
aspVars == <<health, spend, scrape, late>>

Reasons == {"none", "suspended_or_billing", "daily_budget_exceeded"}
\* What a fetch brings: a usable page, a page without product signals, a bot wall
\* (or a grid timeout), an infrastructure error, one that tells of a suspension.
Outcomes == {"usable", "unusable", "bot_wall", "infra", "suspension"}

AtMost(n, limit) == IF n > limit THEN limit ELSE n

AspInit ==
  /\ failures = [v \in Providers |-> 0]
  /\ cooling  = [v \in Providers |-> 0]
  /\ disabled = [v \in Providers |-> "none"]
  /\ spend    = 0
  /\ stage    = [s \in Slots |-> "idle"]
  /\ chain    = [s \in Slots |-> <<>>]
  /\ tried    = [s \in Slots |-> {}]
  /\ booked   = [s \in Slots |-> NoProvider]
  /\ late     = [s \in Slots |-> [v \in Providers |-> 0]]
-----------------------------------------------------------------------------
(***************************************************************************)
(* provider_health.                                                        *)
(***************************************************************************)
CircuitOpen(v) ==
  \/ disabled[v] # "none"
  \/ cooling[v] > 0
  \/ failures[v] >= ProviderMaxFailures

BudgetExceeded == \E v \in Providers : disabled[v] = "daily_budget_exceeded"

CircuitOkWhateverDisabled(v) ==
  /\ cooling[v] = 0 /\ failures[v] < ProviderMaxFailures
  /\ ~(v \in Paid /\ BudgetExceeded)

\* AspProvider._circuit_ok
CircuitOk(v) == ~CircuitOpen(v) /\ ~(v \in Paid /\ BudgetExceeded)

RecordSuccessForgives(v) ==
  /\ failures' = [failures EXCEPT ![v] = 0]
  /\ cooling'  = [cooling EXCEPT ![v] = 0]
  /\ disabled' = [disabled EXCEPT ![v] = "none"]

RecordSuccess(v) ==
  /\ failures' = [failures EXCEPT ![v] = 0]
  /\ cooling'  = [cooling EXCEPT ![v] = 0]
  /\ UNCHANGED disabled

\* Bot walls and grid timeouts do not count.
RecordFailure(v, outcome) ==
  IF outcome \notin {"infra", "suspension"} THEN UNCHANGED health
  ELSE LET n == AtMost(failures[v] + 1, ProviderMaxFailures) IN
       /\ failures' = [failures EXCEPT ![v] = n]
       /\ cooling'  = [cooling EXCEPT ![v] =
                         IF outcome = "suspension" \/ n = ProviderMaxFailures THEN Cooldown ELSE @]
       /\ disabled' = [disabled EXCEPT ![v] =
                         IF outcome = "suspension" THEN "suspended_or_billing" ELSE @]
-----------------------------------------------------------------------------
(***************************************************************************)
(* AspEngine.scrape_url, for a retailer's page rendered with JavaScript,   *)
(* tier 4 being enabled.                                                   *)
(***************************************************************************)
\* build_provider_chain, of the providers whose circuit lets them be tried.
BuildProviderChain(usable) ==
  LET Built[i \in 0 .. Len(Order)] ==
        IF i = 0 THEN <<>>
        ELSE IF Order[i] \in usable THEN Append(Built[i - 1], Order[i])
        ELSE Built[i - 1]
  IN Built[Len(Order)]

\* An empty chain becomes the local browser, whose circuit is not asked.
Begin(s) ==
  LET built == BuildProviderChain({v \in Providers : CircuitOk(v)}) IN
  /\ stage[s] = "idle"
  /\ chain' = [chain EXCEPT ![s] = IF built = <<>> THEN <<Local>> ELSE built]
  /\ tried' = [tried EXCEPT ![s] = {}]
  /\ stage' = [stage EXCEPT ![s] = "fetching"]
  /\ UNCHANGED <<health, spend, booked, late>>

\* The scrape returns or raises; its local variables go with it.
Return(s) ==
  /\ stage'  = [stage EXCEPT ![s] = "idle"]
  /\ chain'  = [chain EXCEPT ![s] = <<>>]
  /\ tried'  = [tried EXCEPT ![s] = {}]
  /\ booked' = [booked EXCEPT ![s] = NoProvider]

\* record_success changes memory at once and then charges the day in Redis.
Succeed(s, v) ==
  /\ RecordSuccess(v)
  /\ IF Cost[v] > 0 /\ Budget > 0
       THEN /\ stage' = [stage EXCEPT ![s] = "charging"]
            /\ booked' = [booked EXCEPT ![s] = v]
            /\ UNCHANGED <<chain, tried>>
       ELSE Return(s)

\* A reply of the provider the scrape awaits: either it ends the scrape, or the
\* health is told (over an await) and the scrape goes on.
FetchReply(s, outcome) ==
  LET v == Head(chain[s]) IN
  /\ stage[s] = "fetching"
  /\ IF outcome = "usable"
       THEN Succeed(s, v)
       ELSE /\ RecordFailure(v, outcome)
            /\ stage' = [stage EXCEPT ![s] = "between"]
            /\ chain' = [chain EXCEPT ![s] = Tail(@)]
            /\ tried' = [tried EXCEPT ![s] = @ \cup {v}]
            /\ UNCHANGED booked
  /\ UNCHANGED <<spend, late>>

\* Nothing catches a provider's exception: the scrape ends with it.
FetchRaises(s) ==
  /\ stage[s] \in {"fetching", "retrying"}
  /\ Return(s)
  /\ UNCHANGED <<health, spend, late>>

\* The chain's next provider.  One disabled after the chain was built is still in
\* it; only the captcha provider asks its circuit again, and then answers at once
\* with an error that counts as a bot wall.
NextProvider(s) ==
  LET v == Head(chain[s]) IN
  /\ stage[s] = "between" /\ chain[s] # <<>>
  /\ IF v = Captcha /\ CircuitOpen(Captcha)
       THEN /\ chain' = [chain EXCEPT ![s] = Tail(@)]
            /\ tried' = [tried EXCEPT ![s] = @ \cup {v}]
            /\ UNCHANGED <<stage, late>>
       ELSE /\ stage' = [stage EXCEPT ![s] = "fetching"]
            /\ late' = [late EXCEPT ![s][v] = IF disabled[v] # "none" THEN AtMost(@ + 1, 2) ELSE @]
            /\ UNCHANGED <<chain, tried>>
  /\ UNCHANGED <<health, spend, booked>>

\* After the last one: the local browser once more, unless the caller did not ask
\* for it (retry), the grid was tried or the local circuit is open.
LastResort(s, retry) ==
  /\ stage[s] = "between" /\ chain[s] = <<>>
  /\ IF retry /\ Grid \notin tried[s] /\ CircuitOk(Local)
       THEN stage' = [stage EXCEPT ![s] = "retrying"] /\ UNCHANGED <<chain, tried, booked>>
       ELSE Return(s)
  /\ UNCHANGED <<health, spend, late>>

\* The retry reports block_reason alone, so a page without product signals and
\* every error count as an infrastructure failure.
RetryReply(s, outcome) ==
  /\ stage[s] = "retrying"
  /\ IF outcome = "usable"
       THEN Succeed(s, Local)
       ELSE /\ RecordFailure(Local, IF outcome = "bot_wall" THEN outcome ELSE "infra")
            /\ Return(s)
  /\ UNCHANGED <<spend, late>>

\* INCRBYFLOAT; its reply comes in a later step.
Charge(s) ==
  /\ stage[s] = "charging"
  /\ spend' = AtMost(spend + Cost[booked[s]], Budget + 1)
  /\ stage' = [stage EXCEPT ![s] = IF spend + Cost[booked[s]] > Budget THEN "over" ELSE "charged"]
  /\ UNCHANGED <<health, chain, tried, booked, late>>

\* Redis fails before or after it added; the total is lost and the error swallowed.
ChargeFails(s) ==
  /\ stage[s] = "charging"
  /\ spend' \in {spend, AtMost(spend + Cost[booked[s]], Budget + 1)}
  /\ stage' = [stage EXCEPT ![s] = "charged"]
  /\ UNCHANGED <<health, chain, tried, booked, late>>

\* The total that came back says whether the paid providers are switched off.
Finish(s) ==
  /\ stage[s] \in {"charged", "over"}
  /\ disabled' = IF stage[s] = "charged" THEN disabled
                 ELSE [v \in Providers |->
                         IF v \in Paid THEN "daily_budget_exceeded" ELSE disabled[v]]
  /\ Return(s)
  /\ UNCHANGED <<failures, cooling, spend, late>>
-----------------------------------------------------------------------------
Tick ==
  /\ \E v \in Providers : cooling[v] > 0
  /\ cooling' = [v \in Providers |-> IF cooling[v] > 0 THEN cooling[v] - 1 ELSE 0]
  /\ UNCHANGED <<failures, disabled, spend, scrape, late>>

\* The budget key carries the date.
NewDay ==
  /\ spend > 0
  /\ spend' = 0
  /\ UNCHANGED <<health, scrape, late>>

AspNext ==
  \/ \E s \in Slots :
       \/ Begin(s)
       \/ \E outcome \in Outcomes : FetchReply(s, outcome) \/ RetryReply(s, outcome)
       \/ FetchRaises(s)
       \/ NextProvider(s)
       \/ \E retry \in BOOLEAN : LastResort(s, retry)
       \/ Charge(s) \/ ChargeFails(s) \/ Finish(s)
  \/ Tick \/ NewDay

AspSpec == AspInit /\ [][AspNext]_aspVars
-----------------------------------------------------------------------------
(***************************************************************************)
(* Properties.                                                             *)
(***************************************************************************)
\* Type of the state.
AspTypeOK ==
  /\ failures \in [Providers -> 0 .. ProviderMaxFailures]
  /\ cooling \in [Providers -> 0 .. Cooldown]
  /\ disabled \in [Providers -> Reasons]
  /\ spend \in 0 .. Budget + 1
  /\ stage \in [Slots -> {"idle", "fetching", "between", "retrying", "charging", "charged", "over"}]
  /\ chain \in [Slots -> Seq(Providers)]
  /\ tried \in [Slots -> SUBSET Providers]
  /\ booked \in [Slots -> Providers \cup {NoProvider}]
  /\ late \in [Slots -> [Providers -> 0 .. 2]]
  /\ \A s \in Slots : stage[s] = "fetching" => chain[s] # <<>>
  /\ \A s \in Slots : (stage[s] \in {"charging", "charged", "over"}) = (booked[s] # NoProvider)

\* A suspension or a spent budget takes hold although chains are built once: a
\* scrape slot starts at most one fetch of a provider after it was disabled, in
\* however many scrapes it runs.  (The local browser is what an empty chain falls
\* back to, circuit or not.)
DisabledGoesQuiet ==
  \A s \in Slots, v \in Providers \ {Local} : late[s][v] <= 1

\* ARCHITECTURE.md: suspended providers are disabled automatically.  A success that
\* comes in after the suspension, or a spent budget that overwrites its reason,
\* closes the circuit at most and never makes the provider usable again.
SuspensionStays ==
  [][\A v \in Providers :
       disabled[v] = "suspended_or_billing" => disabled'[v] # "none"]_aspVars

\* ARCHITECTURE.md: the circuit breaker has a cooldown; once it is over, a
\* provider that was not disabled may be tried again.
CircuitCloses ==
  \A v \in Providers : disabled[v] = "none" /\ cooling[v] = 0 => ~CircuitOpen(v)
=============================================================================
