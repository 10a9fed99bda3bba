----------------------------- MODULE CrawlCache -----------------------------
(***************************************************************************)
(* The crawl cache (cache.py) that the finance endpoints, the scrape       *)
(* endpoints and the prefetcher share: one entry per key, with the time it *)
(* was written and a time to live that the key's domain decides.           *)
(* Every operation is one round trip, so other requests run between the    *)
(* look-up of one and its write.  With Redis behind it a round trip may    *)
(* fail, and nothing in cache.py catches that: the caller gets the         *)
(* exception, and does not learn whether the entry changed.                *)
(***************************************************************************)
EXTENDS Integers, FiniteSets

CONSTANTS Keys,
          Ttl,       \* _ttl_for_url of each key
          OnRedis,   \* the backend: Redis, or the memory of the process
          MaxTime,   \* bound on the clock
          NoEntry

ASSUME CacheAssumption == Ttl \in [Keys -> Nat \ {0}] /\ OnRedis \in BOOLEAN /\ MaxTime \in Nat

VARIABLES cache,  \* [value, at] of each key; at is _cached_at
          now

AnyAge == -1   \* no max_age_ms

\* get: an entry that has not expired and is no older than the caller allows.
Hit(k, maxAge) ==
  /\ cache[k] # NoEntry
  /\ now - cache[k].at < Ttl[k]
  /\ maxAge = AnyAge \/ now - cache[k].at <= maxAge

Set(k, value)  == cache' = [cache EXCEPT ![k] = [value |-> value, at |-> now]]
Invalidate(k)  == cache' = [cache EXCEPT ![k] = NoEntry]
ClearAll       == cache' = [k \in Keys |-> NoEntry]

\* The same calls when Redis fails before or after it did as it was told; a clear
\* is several calls.
GetRaises           == OnRedis /\ UNCHANGED cache
SetRaises(k, value) == OnRedis /\ (UNCHANGED cache \/ Set(k, value))
InvalidateRaises(k) == OnRedis /\ (UNCHANGED cache \/ Invalidate(k))
ClearRaises == OnRedis /\ \E gone \in SUBSET Keys :
                 cache' = [k \in Keys |-> IF k \in gone THEN NoEntry ELSE cache[k]]

\* An entry past its time to live is gone; forgetting it here says no more.
Tick == /\ now < MaxTime
        /\ now' = now + 1
        /\ cache' = [k \in Keys |->
             IF cache[k] # NoEntry /\ now' - cache[k].at >= Ttl[k] THEN NoEntry ELSE cache[k]]
=============================================================================
