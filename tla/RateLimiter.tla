---------------------------- MODULE RateLimiter -----------------------------
(***************************************************************************)
(* The per-domain rate limiter every crawl goes through                    *)
(* (app/services/rate_limiter.py): callers of wait_or_reject queue on the  *)
(* domain's asyncio.Lock, the holder sleeps with the lock in its hands     *)
(* until the crawl delay since the last grant has passed, and then looks   *)
(* at the grants of the last minute.                                       *)
(*                                                                         *)
(* Two sources may share a domain and differ in their settings, so delay   *)
(* and limit belong to the caller.  A caller's request may be cancelled    *)
(* (asyncio.wait_for in shop_service) while it queues or sleeps.           *)
(***************************************************************************)
EXTENDS Integers, Sequences, FiniteSets

CONSTANTS Callers, Domains,
          DomainOf,    \* netloc of the URL a caller asks for
          DelayField,  \* its source's default_crawl_delay_seconds
          RpmField,    \* its source's max_requests_per_minute
          DefaultDelay, DefaultRpm,  \* the 10 and the 6 of `or 10`, `or 6`
          Minute,      \* the 60.0 of the sliding window, in ticks
          Epoch,       \* reading of the monotonic clock at start
          MaxTime,     \* bound: last tick of the model
          Nobody

ASSUME CallerAssumption ==
  /\ DomainOf \in [Callers -> Domains]
  /\ DelayField \in [Callers -> Nat]
  /\ RpmField \in [Callers -> Nat]
  /\ DefaultDelay \in Nat \ {0} /\ DefaultRpm \in Nat \ {0}
ASSUME TimeAssumption == Minute \in Nat /\ Epoch \in Nat /\ MaxTime \in Nat
ASSUME NobodyAssumption == Nobody \notin Callers

VARIABLES
  now,      \* time.monotonic()
  holder,   \* who holds the lock of a domain
  line,     \* who waits for it, in order
  wake,     \* when the sleep of a caller ends; -1 while it does not sleep
  last,     \* _last_request
  window,   \* _window_counts (times differ, as a delay is at least a tick)
  granted   \* history: the grants of each domain, [at, by]

table == <<last, window>>
vars  == <<now, holder, line, wake, table, granted>>

\* `x or default`: a field of 0 means the default, not "no limit".
OrDefault(field, default) == IF field = 0 THEN default ELSE field
Delay(c) == OrDefault(DelayField[c], DefaultDelay)
Rpm(c)   == OrDefault(RpmField[c], DefaultRpm)

Waits(c) == \E i \in DOMAIN line[DomainOf[c]] : line[DomainOf[c]][i] = c
Holds(c) == holder[DomainOf[c]] = c

Init ==
  /\ now     = Epoch
  /\ holder  = [d \in Domains |-> Nobody]
  /\ line    = [d \in Domains |-> <<>>]
  /\ wake    = [c \in Callers |-> -1]
  /\ last    = [d \in Domains |-> 0]
  /\ window  = [d \in Domains |-> {}]
  /\ granted = [d \in Domains |-> {}]
-----------------------------------------------------------------------------
Call(c) ==
  /\ ~Waits(c) /\ ~Holds(c)
  /\ line' = [line EXCEPT ![DomainOf[c]] = Append(@, c)]
  /\ UNCHANGED <<now, holder, wake, table, granted>>

LockWithoutWaiting(c) ==
  LET d == DomainOf[c] IN
  /\ line[d] # <<>> /\ Head(line[d]) = c /\ holder[d] = Nobody
  /\ holder' = [holder EXCEPT ![d] = c]
  /\ line'   = [line EXCEPT ![d] = Tail(@)]
  /\ wake'   = [wake EXCEPT ![c] = now]
  /\ UNCHANGED <<now, table, granted>>

\* The lock goes to the first in line, who sleeps out the rest of the delay.
Lock(c) ==
  LET d == DomainOf[c] IN
  /\ line[d] # <<>> /\ Head(line[d]) = c /\ holder[d] = Nobody
  /\ holder' = [holder EXCEPT ![d] = c]
  /\ line'   = [line EXCEPT ![d] = Tail(@)]
  /\ wake'   = [wake EXCEPT ![c] =
                  IF now - last[d] < Delay(c) THEN last[d] + Delay(c) ELSE now]
  /\ UNCHANGED <<now, table, granted>>

RecentOpen(d) == {t \in window[d] : t > now - Minute}

\* The sleep is over (it may end late): old grants leave the window.
Recent(d) == {t \in window[d] : t >= now - Minute}
Awake(c)  == Holds(c) /\ now >= wake[c]

Leave(c) ==
  /\ holder' = [holder EXCEPT ![DomainOf[c]] = Nobody]
  /\ wake'   = [wake EXCEPT ![c] = -1]

GrantPastLimit(c) ==
  LET d == DomainOf[c] IN
  /\ Awake(c) /\ Cardinality(Recent(d)) <= Rpm(c)
  /\ window'  = [window EXCEPT ![d] = Recent(d) \cup {now}]
  /\ last'    = [last EXCEPT ![d] = now]
  /\ granted' = [granted EXCEPT ![d] = @ \cup {[at |-> now, by |-> c]}]
  /\ Leave(c)
  /\ UNCHANGED <<now, line>>

Grant(c) ==
  LET d == DomainOf[c] IN
  /\ Awake(c) /\ Cardinality(Recent(d)) < Rpm(c)
  /\ window'  = [window EXCEPT ![d] = Recent(d) \cup {now}]
  /\ last'    = [last EXCEPT ![d] = now]
  /\ granted' = [granted EXCEPT ![d] = @ \cup {[at |-> now, by |-> c]}]
  /\ Leave(c)
  /\ UNCHANGED <<now, line>>

RejectCounts(c) ==
  LET d == DomainOf[c] IN
  /\ Awake(c) /\ Cardinality(Recent(d)) >= Rpm(c)
  /\ window' = [window EXCEPT ![d] = Recent(d) \cup {now}]
  /\ Leave(c)
  /\ UNCHANGED <<now, line, last, granted>>

\* "rate_limited": the call has slept for nothing; last is left alone.
Reject(c) ==
  LET d == DomainOf[c] IN
  /\ Awake(c) /\ Cardinality(Recent(d)) >= Rpm(c)
  /\ window' = [window EXCEPT ![d] = Recent(d)]
  /\ Leave(c)
  /\ UNCHANGED <<now, line, last, granted>>

\* A caller that waits leaves the line.
Without(q, i) == [k \in 1 .. Len(q) - 1 |-> IF k < i THEN q[k] ELSE q[k + 1]]

GiveUp(c) ==
  \E i \in DOMAIN line[DomainOf[c]] :
    /\ line[DomainOf[c]][i] = c
    /\ line' = [line EXCEPT ![DomainOf[c]] = Without(@, i)]

\* CancelledError at the lock or in the sleep; `async with` lets go.
Cancel(c) ==
  \/ /\ GiveUp(c)
     /\ UNCHANGED <<now, holder, wake, table, granted>>
  \/ /\ Holds(c)
     /\ Leave(c)
     /\ UNCHANGED <<now, line, table, granted>>

\* Time passes.  A sleeper may oversleep: nothing forces it to wake in time.
Tick ==
  /\ now < MaxTime
  /\ now' = now + 1
  /\ UNCHANGED <<holder, line, wake, table, granted>>
-----------------------------------------------------------------------------
Next ==
  \/ \E c \in Callers : Call(c) \/ Lock(c) \/ Grant(c) \/ Reject(c) \/ Cancel(c)
  \/ Tick

Spec == Init /\ [][Next]_vars
-----------------------------------------------------------------------------
(***************************************************************************)
(* Properties.                                                             *)
(***************************************************************************)
GrantRecord == [at : Int, by : Callers]

\* Type of the state.
TypeOK ==
  /\ now \in Nat
  /\ holder \in [Domains -> Callers \cup {Nobody}]
  /\ line \in [Domains -> Seq(Callers)]
  /\ wake \in [Callers -> Int]
  /\ last \in [Domains -> Nat]
  /\ window \in [Domains -> SUBSET Nat]
  /\ granted \in [Domains -> SUBSET GrantRecord]

\* The crawl delay is kept between any two grants of a domain, whoever asks,
\* whatever is cancelled: no caller is let through sooner after another than
\* its own source allows, although the clock is read before the sleep.
Spacing ==
  \A d \in Domains : \A g, h \in granted[d] :
    g.at <= h.at /\ g # h => h.at - g.at >= Delay(h.by)

\* No sliding minute that ends with a grant holds more grants than the source
\* of that grant allows.
WindowBound ==
  \A d \in Domains : \A g \in granted[d] :
    Cardinality({h \in granted[d] : g.at - Minute <= h.at /\ h.at <= g.at}) <= Rpm(g.by)

\* Only the holder of a domain's lock sleeps for that domain, never longer than
\* its delay, and nobody both holds the lock and waits for it: the line moves.
SleepBounded ==
  \A c \in Callers :
    /\ wake[c] # -1 <=> Holds(c)
    /\ wake[c] <= now + Delay(c)
    /\ ~(Holds(c) /\ Waits(c))

\* A call is rejected only after as many real grants in the last minute as its
\* source allows: rejected and cancelled calls use up nothing.
RejectionsJustified ==
  [][\A c \in Callers :
       Reject(c) => Cardinality({g \in granted[DomainOf[c]] : g.at >= now - Minute})
                      >= Rpm(c)]_vars

Limiter == INSTANCE DomainLimiter WITH
  DelayOf <- [c \in Callers |-> Delay(c)],
  RpmOf   <- [c \in Callers |-> Rpm(c)]

\* wait_or_reject keeps what DomainLimiter promises: whoever queues, sleeps late or
\* is cancelled, a grant is decided as if by all grants there ever were, although
\* the code reads the clock and the last grant before it sleeps, and counts in a
\* table it prunes.
ImplementsLimiter == Limiter!Spec
=============================================================================
