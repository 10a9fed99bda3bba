------------------------------ MODULE AspProofs ------------------------------
(***************************************************************************)
(* Proofs about the two halves of the ASP layer.                           *)
(*                                                                         *)
(* EgressRotation: for any proxies, processes, retailers and fetches, any  *)
(* limits, and Redis failing at any call.                                  *)
(*                                                                         *)
(* AspEscalation: for any order of providers, any costs and limits, and    *)
(* any number of scrapes that run at once.                                 *)
(***************************************************************************)
EXTENDS EgressRotation, AspEscalation, FiniteSetTheorems, SequenceTheorems,
        WellFoundedInduction, TLAPS

Places == {"pick", "fetching", "direct", "ok", "failed"}

\* What a fetch of f may be: at this place, through this proxy, after so many attempts.
\* One behind a proxy remembers that it used a real one; the HTTP provider always is.
Sound(f, place, u, real, n, images) ==
  /\ place \in Places /\ u \in Proxies \cup {NoProxy} /\ real \in BOOLEAN
  /\ n \in 0 .. MaxAttempts /\ images \in BOOLEAN
  /\ place \in {"pick", "fetching"} => n < MaxAttempts
  /\ images => KindOf[f] = "shots"
  /\ u # NoProxy => real
  /\ KindOf[f] = "http" /\ place = "fetching" => u # NoProxy
  /\ place = "failed" /\ KindOf[f] # "http" => u = NoProxy \/ (KindOf[f] = "shots" /\ images)

SoundNow(f) == Sound(f, at[f], using[f], usedReal[f], tries[f], pictures[f])

RouteInv ==
  /\ at = [f \in Fetches |-> at[f]] /\ using = [f \in Fetches |-> using[f]]
  /\ usedReal = [f \in Fetches |-> usedReal[f]] /\ tries = [f \in Fetches |-> tries[f]]
  /\ pictures = [f \in Fetches |-> pictures[f]]
  /\ \A f \in Fetches : SoundNow(f)

\* What the processes remember, and what Redis does for them.
MemoryInv ==
  /\ memSticky \in [Processes -> [Retailers -> Proxies \cup {NoProxy}]]
  /\ fresh \in [Processes -> SUBSET Retailers]
  /\ turn \in [Processes -> 0 .. TurnModulus - 1]
  /\ sticky \in [Retailers -> Proxies \cup {NoProxy}]

Calls == [incr : SUBSET Counters, wipe : SUBSET Hosts,
          look : SUBSET [shop : Retailers, url : Proxies],
          found : SUBSET Retailers, clear : SUBSET Retailers]

\* Those that still have to add one to a counter.
Waiting(k) == {w \in Processes : k \in calls[w].incr}

\* No process counts more failures of a proxy than it saw.  No counter of Redis, with
\* all that is still to be added to it, is ahead of the failures it should know of.
CountInv ==
  /\ memFail \in [Processes -> [Proxies -> Nat]] /\ blame \in [Processes -> [Proxies -> Nat]]
  /\ calls \in [Processes -> Calls]
  /\ count \in [Counters -> Nat] /\ failedFor \in [Counters -> Nat]
  /\ \A w \in Processes, u \in Proxies : memFail[w][u] <= blame[w][u]
  /\ \A k \in Counters : k.what = "fail" => count[k] + Cardinality(Waiting(k)) <= failedFor[k]

IInv == RouteInv /\ MemoryInv /\ CountInv
-----------------------------------------------------------------------------
LEMMA Constants ==
  /\ NoProxy \notin Proxies /\ Direct \subseteq Proxies /\ NoRetailer \notin Retailers
  /\ HostOf \in [Fetches -> Processes] /\ RetailerOf \in [Fetches -> Retailers]
  /\ KindOf \in [Fetches -> {"html", "shots", "http"}]
  /\ \A u \in Proxies : HostKey[u] \in Hosts
  /\ TurnModulus \in Nat \ {0} /\ MaxAttempts \in Nat \ {0} /\ IsFiniteSet(Processes)
BY UrlsAssumption, FetchesAssumption, LimitsAssumption, TurnAssumption DEF Hosts

LEMMA KeyIsCounter ==
  ASSUME NEW what \in {"ok", "fail"}, NEW u \in Proxies, NEW r \in Retailers \cup {NoRetailer}
  PROVE  Key(what, u, r) \in Counters /\ Key(what, u, r).what = what
BY Constants DEF Key, Counters

LEMMA NoCallsIsCalls == NoCalls \in Calls /\ NoCalls.incr = {}
BY DEF NoCalls, Calls

\* Everything asked of Redis is asked of something there is.
LEMMA FailKeysAreCounters ==
  ASSUME NEW f \in Fetches, NEW u \in Proxies, NEW named \in BOOLEAN
  PROVE  /\ FailKeys(f, u, named) \subseteq Counters
         /\ \A k \in FailKeys(f, u, named) : Concerns(k, f, u, named)
<1>1. RetailerOf[f] \in Retailers
  BY Constants
<1>2. /\ Key("fail", u, NoRetailer) \in Counters /\ Key("fail", u, RetailerOf[f]) \in Counters
  BY <1>1, KeyIsCounter
<1>3. Concerns(Key("fail", u, NoRetailer), f, u, named)
      /\ (named => Concerns(Key("fail", u, RetailerOf[f]), f, u, named))
  BY DEF Key, Concerns
<1>4. QED
  BY <1>2, <1>3 DEF FailKeys

LEMMA WaitingFinite ==
  ASSUME NEW k
  PROVE  IsFiniteSet(Waiting(k)) /\ Cardinality(Waiting(k)) \in Nat
<1>1. IsFiniteSet(Processes) /\ Waiting(k) \subseteq Processes
  BY Constants DEF Waiting
<1>2. QED
  BY <1>1, FS_Subset, FS_CardinalityType

\* A process that was idle takes on the increments in more.
LEMMA TakesOn ==
  ASSUME CountInv, NEW w \in Processes, NEW todo \in Calls, calls[w].incr = {},
         calls' = [calls EXCEPT ![w] = todo], NEW k \in Counters
  PROVE  /\ k \in todo.incr => Cardinality(Waiting(k)') = Cardinality(Waiting(k)) + 1
         /\ k \notin todo.incr => Cardinality(Waiting(k)') = Cardinality(Waiting(k))
<1>1. calls \in [Processes -> Calls]
  BY DEF CountInv
<1>2. \A x \in Processes : calls'[x] = IF x = w THEN todo ELSE calls[x]
  BY <1>1
<1>3. w \notin Waiting(k)
  BY DEF Waiting
<1>4. ASSUME k \in todo.incr PROVE Waiting(k)' = Waiting(k) \cup {w}
  BY <1>2, <1>4 DEF Waiting
<1>5. ASSUME k \notin todo.incr PROVE Waiting(k)' = Waiting(k)
  BY <1>2, <1>3, <1>5 DEF Waiting
<1>6. Cardinality(Waiting(k) \cup {w}) = Cardinality(Waiting(k)) + 1
  BY <1>3, WaitingFinite, FS_AddElement
<1>7. QED
  BY <1>4, <1>5, <1>6

LEMMA FailureEarned ==
  ASSUME CountInv, NEW f \in Fetches, NEW u \in Proxies, NEW named \in BOOLEAN, Idle(HostOf[f]),
         MarkFailure(f, u, named), Blames(f, u, named)
  PROVE  CountInv'
<1> DEFINE w == HostOf[f]
           left == [q \in Retailers |-> IF memSticky[w][q] = u THEN NoProxy ELSE memSticky[w][q]]
           keys == FailKeys(f, u, named)
           looks == [shop : {q \in Retailers : left[q] # NoProxy}, url : {u}]
           shops == IF named THEN {RetailerOf[f]} ELSE {}
           todo == [NoCalls EXCEPT !.incr = keys, !.look = looks, !.clear = shops]
<1>c. w \in Processes /\ RetailerOf[f] \in Retailers
  BY Constants
<1>t. /\ memFail \in [Processes -> [Proxies -> Nat]] /\ blame \in [Processes -> [Proxies -> Nat]]
      /\ calls \in [Processes -> Calls]
      /\ count \in [Counters -> Nat] /\ failedFor \in [Counters -> Nat]
  BY DEF CountInv
<1>1. /\ memFail' = [memFail EXCEPT ![w][u] = @ + 1] /\ blame' = [blame EXCEPT ![w][u] = @ + 1]
      /\ calls' = [calls EXCEPT ![w] = todo] /\ count' = count
      /\ failedFor' = [k \in Counters |->
                         IF Concerns(k, f, u, named) THEN failedFor[k] + 1 ELSE failedFor[k]]
  BY DEF MarkFailure, Blames, redis
<1>2. todo \in Calls /\ todo.incr = FailKeys(f, u, named)
  <2>1. keys \subseteq Counters /\ shops \subseteq Retailers
    BY <1>c, FailKeysAreCounters
  <2>2. looks \subseteq [shop : Retailers, url : Proxies]
    <3> HIDE DEF left
    <3>1. QED
      OBVIOUS
  <2> HIDE DEF keys, looks, shops
  <2>3. todo \in Calls /\ todo.incr = keys
    BY <2>1, <2>2 DEF NoCalls, Calls
  <2>4. QED
    BY <2>3 DEF keys
<1>3. calls[w].incr = {}
  BY NoCallsIsCalls DEF Idle
<1> HIDE DEF w, todo
<1>4. /\ memFail' \in [Processes -> [Proxies -> Nat]] /\ blame' \in [Processes -> [Proxies -> Nat]]
      /\ calls' \in [Processes -> Calls]
      /\ count' \in [Counters -> Nat] /\ failedFor' \in [Counters -> Nat]
  BY <1>c, <1>t, <1>1, <1>2
<1>5. ASSUME NEW x \in Processes, NEW v \in Proxies PROVE memFail'[x][v] <= blame'[x][v]
  <2>1. memFail[x][v] <= blame[x][v] /\ memFail[x][v] \in Nat /\ blame[x][v] \in Nat
    BY <1>t DEF CountInv
  <2>2. \/ memFail'[x][v] = memFail[x][v] + 1 /\ blame'[x][v] = blame[x][v] + 1
        \/ memFail'[x][v] = memFail[x][v] /\ blame'[x][v] = blame[x][v]
    BY <1>c, <1>t, <1>1
  <2>3. QED
    BY <2>1, <2>2
<1>6. ASSUME NEW k \in Counters, k.what = "fail"
      PROVE  count'[k] + Cardinality(Waiting(k)') <= failedFor'[k]
  <2>1. count[k] + Cardinality(Waiting(k)) <= failedFor[k] /\ count[k] \in Nat
        /\ failedFor[k] \in Nat /\ Cardinality(Waiting(k)) \in Nat
    BY <1>6, <1>t, WaitingFinite DEF CountInv
  <2>2. CASE k \in todo.incr
    <3>1. Cardinality(Waiting(k)') = Cardinality(Waiting(k)) + 1
      BY <1>c, <1>1, <1>2, <1>3, <2>2, TakesOn
    <3>2. failedFor'[k] = failedFor[k] + 1
      BY <1>1, <1>2, <2>2, FailKeysAreCounters
    <3>3. QED
      BY <1>1, <2>1, <3>1, <3>2
  <2>3. CASE k \notin todo.incr
    <3>1. Cardinality(Waiting(k)') = Cardinality(Waiting(k))
      BY <1>c, <1>1, <1>2, <1>3, <2>3, TakesOn
    <3>2. failedFor'[k] \in {failedFor[k], failedFor[k] + 1}
      BY <1>1
    <3>3. QED
      BY <1>1, <2>1, <3>1, <3>2
  <2>4. QED
    BY <2>2, <2>3
<1>7. QED
  BY <1>4, <1>5, <1>6 DEF CountInv

LEMMA SuccessEarned ==
  ASSUME CountInv, NEW f \in Fetches, NEW u \in Proxies, NEW named \in BOOLEAN, Idle(HostOf[f]),
         MarkSuccess(f, u, named), UNCHANGED history
  PROVE  CountInv'
<1> DEFINE w == HostOf[f]
           told == {Key("ok", u, NoRetailer)} \cup
                   (IF named THEN {Key("ok", u, RetailerOf[f])} ELSE {})
           todo == [NoCalls EXCEPT !.incr = told, !.wipe = {HostKey[u]}]
<1>c. w \in Processes /\ RetailerOf[f] \in Retailers
  BY Constants
<1>t. /\ memFail \in [Processes -> [Proxies -> Nat]] /\ blame \in [Processes -> [Proxies -> Nat]]
      /\ calls \in [Processes -> Calls]
      /\ count \in [Counters -> Nat] /\ failedFor \in [Counters -> Nat]
  BY DEF CountInv
<1>1. /\ memFail' = [memFail EXCEPT ![w][u] = 0] /\ blame' = blame /\ failedFor' = failedFor
      /\ calls' = [calls EXCEPT ![w] = todo] /\ count' = count
  BY DEF MarkSuccess, history, redis
<1>2. told \subseteq Counters /\ \A k \in told : k.what = "ok"
  BY <1>c, KeyIsCounter
<1> HIDE DEF told
<1>3. todo \in Calls /\ todo.incr = told
  BY <1>2, Constants DEF NoCalls, Calls
<1>4. calls[w].incr = {}
  BY NoCallsIsCalls DEF Idle
<1> HIDE DEF w, todo
<1>5. memFail' \in [Processes -> [Proxies -> Nat]] /\ calls' \in [Processes -> Calls]
  BY <1>c, <1>t, <1>1, <1>3
<1>6. ASSUME NEW x \in Processes, NEW v \in Proxies PROVE memFail'[x][v] <= blame'[x][v]
  <2>1. memFail[x][v] <= blame[x][v] /\ memFail[x][v] \in Nat /\ blame[x][v] \in Nat
    BY <1>t DEF CountInv
  <2>2. memFail'[x][v] \in {0, memFail[x][v]}
    BY <1>c, <1>t, <1>1
  <2>3. QED
    BY <1>1, <2>1, <2>2
<1>7. ASSUME NEW k \in Counters, k.what = "fail"
      PROVE  count'[k] + Cardinality(Waiting(k)') <= failedFor'[k]
  <2>1. k \notin todo.incr
    BY <1>2, <1>3, <1>7
  <2>2. Cardinality(Waiting(k)') = Cardinality(Waiting(k))
    BY <1>c, <1>1, <1>3, <1>4, <2>1, TakesOn
  <2>3. QED
    BY <1>1, <1>7, <2>2 DEF CountInv
<1>8. QED
  BY <1>t, <1>1, <1>5, <1>6, <1>7 DEF CountInv

LEMMA NothingCounted ==
  ASSUME CountInv, UNCHANGED <<memFail, calls, count, history>>
  PROVE  CountInv'
<1>1. \A k : Waiting(k)' = Waiting(k)
  BY DEF Waiting
<1>2. QED
  BY <1>1 DEF CountInv, history

\* A step of Redis: no counter rises but by an increment that was waiting.
LEMMA CallEarned ==
  ASSUME CountInv, NEW w \in Processes, NEW todo \in Calls, calls' = [calls EXCEPT ![w] = todo],
         todo.incr = calls[w].incr, UNCHANGED <<memFail, history>>,
         count' \in [Counters -> Nat], \A k \in Counters : count'[k] <= count[k]
  PROVE  CountInv'
<1>1. calls \in [Processes -> Calls] /\ blame' = blame /\ failedFor' = failedFor /\ memFail' = memFail
  BY DEF CountInv, history
<1>2. calls' \in [Processes -> Calls] /\ \A x \in Processes : calls'[x].incr = calls[x].incr
  BY <1>1
<1>3. \A k : Waiting(k)' = Waiting(k)
  BY <1>2 DEF Waiting
<1>4. ASSUME NEW k \in Counters, k.what = "fail"
      PROVE  count'[k] + Cardinality(Waiting(k)') <= failedFor'[k]
  <2>1. count[k] + Cardinality(Waiting(k)) <= failedFor[k] /\ count[k] \in Nat /\ count'[k] \in Nat
        /\ failedFor[k] \in Nat /\ Cardinality(Waiting(k)) \in Nat /\ count'[k] <= count[k]
    BY <1>4, WaitingFinite DEF CountInv
  <2>2. QED
    BY <1>1, <1>3, <2>1
<1>5. QED
  BY <1>1, <1>2, <1>4 DEF CountInv

LEMMA IncrEarned ==
  ASSUME CountInv, NEW w \in Processes, NEW k \in calls[w].incr, NEW works \in BOOLEAN,
         RedisIncr(w, k, works), UNCHANGED history
  PROVE  CountInv'
<1> DEFINE todo == [calls[w] EXCEPT !.incr = @ \ {k}]
<1>t. /\ memFail \in [Processes -> [Proxies -> Nat]] /\ calls \in [Processes -> Calls]
      /\ count \in [Counters -> Nat] /\ failedFor \in [Counters -> Nat]
      /\ calls[w] \in Calls /\ k \in Counters
  BY DEF CountInv, Calls
<1>1. /\ calls' = [calls EXCEPT ![w] = todo] /\ memFail' = memFail /\ blame' = blame
      /\ failedFor' = failedFor /\ (count' = count \/ count' = [count EXCEPT ![k] = @ + 1])
  BY <1>t DEF RedisIncr, memory, history, Calls
<1>2. todo \in Calls /\ todo.incr = calls[w].incr \ {k}
  BY <1>t DEF Calls
<1> HIDE DEF todo
<1>3. calls' \in [Processes -> Calls] /\ count' \in [Counters -> Nat]
  BY <1>t, <1>1, <1>2
<1>4. ASSUME NEW j \in Counters, j.what = "fail"
      PROVE  count'[j] + Cardinality(Waiting(j)') <= failedFor'[j]
  <2>1. count[j] + Cardinality(Waiting(j)) <= failedFor[j] /\ count[j] \in Nat
        /\ failedFor[j] \in Nat /\ Cardinality(Waiting(j)) \in Nat /\ IsFiniteSet(Waiting(j))
    BY <1>4, <1>t, WaitingFinite DEF CountInv
  <2>2. CASE j = k
    <3>1. w \in Waiting(j) /\ Waiting(j)' = Waiting(j) \ {w}
      BY <1>t, <1>1, <1>2, <2>2 DEF Waiting
    <3>2. Cardinality(Waiting(j)') = Cardinality(Waiting(j)) - 1
      BY <2>1, <3>1, FS_RemoveElement
    <3>3. count'[j] \in {count[j], count[j] + 1}
      BY <1>t, <1>1, <2>2
    <3>4. QED
      BY <1>1, <2>1, <3>2, <3>3
  <2>3. CASE j # k
    <3>1. Waiting(j)' = Waiting(j) /\ count'[j] = count[j]
      BY <1>t, <1>1, <1>2, <2>3 DEF Waiting
    <3>2. QED
      BY <1>1, <2>1, <3>1
  <2>4. QED
    BY <2>2, <2>3
<1>5. QED
  BY <1>1, <1>3, <1>4 DEF CountInv

LEMMA RedisKeeps ==
  ASSUME IInv, NEW w \in Processes, RedisStep(w), UNCHANGED <<fetch, history>>
  PROVE  CountInv' /\ MemoryInv'
<1>t. /\ CountInv /\ MemoryInv /\ calls \in [Processes -> Calls] /\ calls[w] \in Calls
      /\ count \in [Counters -> Nat] /\ sticky \in [Retailers -> Proxies \cup {NoProxy}]
      /\ calls[w].found \subseteq Retailers /\ calls[w].clear \subseteq Retailers
  BY DEF IInv, CountInv, MemoryInv, Calls
<1>m. ASSUME UNCHANGED memory, sticky' \in [Retailers -> Proxies \cup {NoProxy}]
      PROVE  MemoryInv' /\ memFail' = memFail
  BY <1>t, <1>m DEF MemoryInv, memory
<1>s. ASSUME NEW r \in Retailers PROVE [sticky EXCEPT ![r] = NoProxy] \in [Retailers -> Proxies \cup {NoProxy}]
  BY <1>t
<1>c. \A k \in Counters : count[k] <= count[k]
  BY <1>t
<1>1. ASSUME NEW works \in BOOLEAN, NEW k \in calls[w].incr, RedisIncr(w, k, works)
      PROVE  CountInv' /\ MemoryInv'
  BY <1>t, <1>m, <1>1, IncrEarned DEF RedisIncr
<1>2. ASSUME NEW works \in BOOLEAN, NEW l \in calls[w].look, RedisLook(w, l, works)
      PROVE  CountInv' /\ MemoryInv'
  <2> DEFINE looks == IF works THEN calls[w].look \ {l} ELSE {}
             founds == IF works /\ sticky[l.shop] = l.url THEN {l.shop} ELSE {}
             todo == [calls[w] EXCEPT !.look = looks, !.found = founds]
  <2>1. calls' = [calls EXCEPT ![w] = todo] /\ UNCHANGED <<memory, redis>>
    BY <1>t, <1>2 DEF RedisLook, Calls
  <2>2. looks \in SUBSET [shop : Retailers, url : Proxies] /\ founds \in SUBSET Retailers
    BY <1>t DEF Calls
  <2> HIDE DEF looks, founds
  <2>3. todo \in Calls /\ todo.incr = calls[w].incr
    BY <1>t, <2>2 DEF Calls
  <2> HIDE DEF todo
  <2>4. QED
    BY <1>t, <1>m, <1>c, <2>1, <2>3, CallEarned DEF redis
<1>3. ASSUME NEW works \in BOOLEAN, NEW r \in calls[w].found, RedisForget(w, r, works)
      PROVE  CountInv' /\ MemoryInv'
  <2> DEFINE looks == IF works THEN calls[w].look ELSE {}
             todo == [calls[w] EXCEPT !.found = {}, !.look = looks]
  <2>1. /\ calls' = [calls EXCEPT ![w] = todo] /\ UNCHANGED <<memory, count>>
        /\ r \in Retailers /\ sticky' \in {sticky, [sticky EXCEPT ![r] = NoProxy]}
    BY <1>t, <1>3 DEF RedisForget, Calls
  <2>2. looks \in SUBSET [shop : Retailers, url : Proxies]
    BY <1>t DEF Calls
  <2> HIDE DEF looks
  <2>3. todo \in Calls /\ todo.incr = calls[w].incr
    BY <1>t, <2>2 DEF Calls
  <2> HIDE DEF todo
  <2>4. QED
    BY <1>t, <1>m, <1>s, <1>c, <2>1, <2>3, CallEarned
<1>4. ASSUME NEW works \in BOOLEAN, NEW r \in calls[w].clear, RedisClear(w, r, works)
      PROVE  CountInv' /\ MemoryInv'
  <2> DEFINE todo == [calls[w] EXCEPT !.clear = {}]
  <2>1. /\ calls' = [calls EXCEPT ![w] = todo] /\ UNCHANGED <<memory, count>>
        /\ r \in Retailers /\ sticky' \in {sticky, [sticky EXCEPT ![r] = NoProxy]}
    BY <1>t, <1>4 DEF RedisClear, Calls
  <2>2. todo \in Calls /\ todo.incr = calls[w].incr
    BY <1>t DEF Calls
  <2> HIDE DEF todo
  <2>3. QED
    BY <1>t, <1>m, <1>s, <1>c, <2>1, <2>2, CallEarned
<1>5. ASSUME NEW k \in Counters, RedisWipe(w, k) PROVE CountInv' /\ MemoryInv'
  <2>1. count' = [count EXCEPT ![k] = 0] /\ calls' = [calls EXCEPT ![w] = calls[w]]
        /\ UNCHANGED <<memory, sticky>>
    BY <1>t, <1>5 DEF RedisWipe
  <2>2. count' \in [Counters -> Nat] /\ \A j \in Counters : count'[j] <= count[j]
    BY <1>t, <2>1
  <2>3. QED
    BY <1>t, <1>m, <2>1, <2>2, CallEarned
<1>6. ASSUME RedisWiped(w) PROVE CountInv' /\ MemoryInv'
  <2> DEFINE todo == [calls[w] EXCEPT !.wipe = {}]
  <2>1. calls' = [calls EXCEPT ![w] = todo] /\ UNCHANGED <<memory, redis>>
    BY <1>t, <1>6 DEF RedisWiped, Calls
  <2>2. todo \in Calls /\ todo.incr = calls[w].incr
    BY <1>t DEF Calls
  <2> HIDE DEF todo
  <2>3. QED
    BY <1>t, <1>m, <1>c, <2>1, <2>2, CallEarned DEF redis
<1>7. QED
  BY <1>1, <1>2, <1>3, <1>4, <1>5, <1>6 DEF RedisStep

LEMMA ExpiryKeeps ==
  ASSUME IInv, Expires, UNCHANGED <<memFail, memSticky, turn, calls, fetch, history>>
  PROVE  CountInv' /\ MemoryInv'
<1>t. /\ CountInv /\ MemoryInv /\ count \in [Counters -> Nat]
      /\ memSticky \in [Processes -> [Retailers -> Proxies \cup {NoProxy}]]
      /\ fresh \in [Processes -> SUBSET Retailers]
      /\ turn \in [Processes -> 0 .. TurnModulus - 1]
      /\ sticky \in [Retailers -> Proxies \cup {NoProxy}]
  BY DEF IInv, CountInv, MemoryInv
<1>1. ASSUME NEW w \in Processes, NEW r \in fresh[w], fresh' = [fresh EXCEPT ![w] = @ \ {r}],
             UNCHANGED <<count, sticky>>
      PROVE  CountInv' /\ MemoryInv'
  <2>1. fresh' \in [Processes -> SUBSET Retailers]
    BY <1>t, <1>1
  <2>2. QED
    BY <1>t, <1>1, <2>1, NothingCounted DEF MemoryInv
<1>2. ASSUME NEW r \in Retailers, sticky' = [sticky EXCEPT ![r] = NoProxy], UNCHANGED <<fresh, count>>
      PROVE  CountInv' /\ MemoryInv'
  <2>1. sticky' \in [Retailers -> Proxies \cup {NoProxy}]
    BY <1>t, <1>2
  <2>2. QED
    BY <1>t, <1>2, <2>1, NothingCounted DEF MemoryInv
<1>3. ASSUME NEW k \in Counters, count[k] > 0, count' = [count EXCEPT ![k] = 0],
             UNCHANGED <<fresh, sticky>>
      PROVE  CountInv' /\ MemoryInv'
  <2>1. count' \in [Counters -> Nat] /\ \A j \in Counters : count'[j] <= count[j]
    BY <1>t, <1>3
  <2>2. ASSUME NEW j \in Counters, j.what = "fail"
        PROVE  count'[j] + Cardinality(Waiting(j)') <= failedFor'[j]
    <3>1. Waiting(j)' = Waiting(j) /\ failedFor' = failedFor
      BY DEF Waiting, history
    <3>2. count[j] + Cardinality(Waiting(j)) <= failedFor[j] /\ count[j] \in Nat /\ count'[j] \in Nat
          /\ failedFor[j] \in Nat /\ Cardinality(Waiting(j)) \in Nat /\ count'[j] <= count[j]
      BY <1>t, <2>1, <2>2, WaitingFinite DEF CountInv
    <3>3. QED
      BY <3>1, <3>2
  <2>3. CountInv'
    BY <1>t, <2>1, <2>2 DEF CountInv, history
  <2>4. QED
    BY <1>t, <1>3, <2>3 DEF MemoryInv
<1>4. QED
  BY <1>1, <1>2, <1>3 DEF Expires
-----------------------------------------------------------------------------
\* A fetch that moves to where it may be leaves the others as they were.
LEMMA MoveKeeps ==
  ASSUME RouteInv, NEW f \in Fetches, NEW place, NEW u, NEW real, NEW n, NEW images,
         Sound(f, place, u, real, n, images),
         at' = [at EXCEPT ![f] = place], using' = [using EXCEPT ![f] = u],
         usedReal' = [usedReal EXCEPT ![f] = real], tries' = [tries EXCEPT ![f] = n],
         pictures' = [pictures EXCEPT ![f] = images]
  PROVE  RouteInv'
<1>1. ASSUME NEW g \in Fetches PROVE SoundNow(g)'
  <2>1. CASE g = f
    <3>1. at'[g] = place /\ using'[g] = u /\ usedReal'[g] = real /\ tries'[g] = n
          /\ pictures'[g] = images
      BY <2>1 DEF RouteInv
    <3>2. QED
      BY <2>1, <3>1 DEF SoundNow
  <2>2. CASE g # f
    <3>1. at'[g] = at[g] /\ using'[g] = using[g] /\ usedReal'[g] = usedReal[g]
          /\ tries'[g] = tries[g] /\ pictures'[g] = pictures[g]
      BY <2>2 DEF RouteInv
    <3>2. QED
      BY <3>1 DEF SoundNow, RouteInv
  <2>3. QED
    BY <2>1, <2>2
<1>2. QED
  BY <1>1 DEF RouteInv

\* What is known of a fetch.
LEMMA Known ==
  ASSUME RouteInv, NEW f \in Fetches
  PROVE  /\ Sound(f, at[f], using[f], usedReal[f], tries[f], pictures[f])
         /\ using' = using => using' = [using EXCEPT ![f] = using[f]]
         /\ usedReal' = usedReal => usedReal' = [usedReal EXCEPT ![f] = usedReal[f]]
         /\ tries' = tries => tries' = [tries EXCEPT ![f] = tries[f]]
         /\ pictures' = pictures => pictures' = [pictures EXCEPT ![f] = pictures[f]]
BY DEF RouteInv, SoundNow

LEMMA GoesKeep ==
  ASSUME RouteInv, NEW f \in Fetches, NEW place,
         Sound(f, place, using[f], usedReal[f], tries[f], pictures[f]),
         at' = [at EXCEPT ![f] = place], UNCHANGED <<tries, using, usedReal, pictures>>
  PROVE  RouteInv'
<1>1. \A g \in Fetches : SoundNow(g)'
  BY DEF RouteInv, SoundNow
<1>2. QED
  BY <1>1 DEF RouteInv

\* A fetch whose loop is over has failed only without a proxy or with blank pictures.
LEMMA EndsKeep ==
  ASSUME RouteInv, NEW f \in Fetches, NEW images \in BOOLEAN, NEW n \in 0 .. MaxAttempts,
         images => KindOf[f] = "shots", Ends(f, images), UNCHANGED <<using, usedReal>>,
         tries' = [tries EXCEPT ![f] = n], pictures' = [pictures EXCEPT ![f] = images]
  PROVE  RouteInv'
<1> DEFINE place == IF usedReal[f] /\ ~images THEN "direct" ELSE "failed"
<1>1. at' = [at EXCEPT ![f] = place]
  BY DEF Ends, Goto
<1>2. Sound(f, place, using[f], usedReal[f], n, images)
  BY Known DEF Sound, Places
<1> HIDE DEF place
<1>3. using' = [using EXCEPT ![f] = using[f]] /\ usedReal' = [usedReal EXCEPT ![f] = usedReal[f]]
  BY Known
<1>4. QED
  BY <1>1, <1>2, <1>3, MoveKeeps

LEMMA PickKeeps ==
  ASSUME IInv, NEW f \in Fetches, NEW u \in Proxies, Pick(f, u)
  PROVE  IInv'
<1>t. /\ RouteInv /\ MemoryInv /\ CountInv /\ HostOf[f] \in Processes /\ RetailerOf[f] \in Retailers
      /\ Sound(f, at[f], using[f], usedReal[f], tries[f], pictures[f]) /\ at[f] = "pick"
      /\ tries[f] \in 0 .. MaxAttempts /\ pictures[f] \in BOOLEAN
      /\ (pictures[f] => KindOf[f] = "shots")
      /\ tries' = [tries EXCEPT ![f] = tries[f]] /\ pictures' = [pictures EXCEPT ![f] = pictures[f]]
  BY Constants, Known DEF IInv, Pick, Sound
<1>1. CountInv'
  BY <1>t, NothingCounted DEF Pick
<1>2. MemoryInv'
  <2>1. /\ memSticky \in [Processes -> [Retailers -> Proxies \cup {NoProxy}]]
        /\ fresh \in [Processes -> SUBSET Retailers]
        /\ turn \in [Processes -> 0 .. TurnModulus - 1]
        /\ sticky \in [Retailers -> Proxies \cup {NoProxy}]
    BY <1>t DEF MemoryInv
  <2>2. CASE UNCHANGED <<memSticky, fresh, turn, sticky>>
    BY <2>1, <2>2 DEF MemoryInv
  <2>3. CASE /\ turn'      = [turn EXCEPT ![HostOf[f]] = (@ + 1) % TurnModulus]
             /\ memSticky' = [memSticky EXCEPT ![HostOf[f]][RetailerOf[f]] = u]
             /\ fresh'     = [fresh EXCEPT ![HostOf[f]] = @ \cup {RetailerOf[f]}]
             /\ sticky' \in {sticky, [sticky EXCEPT ![RetailerOf[f]] = u]}
    <3>1. \A i \in 0 .. TurnModulus - 1 : (i + 1) % TurnModulus \in 0 .. TurnModulus - 1
      BY Constants
    <3>2. turn' \in [Processes -> 0 .. TurnModulus - 1]
      BY <1>t, <2>1, <2>3, <3>1
    <3>3. memSticky' \in [Processes -> [Retailers -> Proxies \cup {NoProxy}]]
      BY <1>t, <2>1, <2>3
    <3>4. fresh' \in [Processes -> SUBSET Retailers]
      BY <1>t, <2>1, <2>3
    <3>5. sticky' \in [Retailers -> Proxies \cup {NoProxy}]
      BY <1>t, <2>1, <2>3
    <3>6. QED
      BY <3>2, <3>3, <3>4, <3>5 DEF MemoryInv
  <2>4. QED
    BY <2>2, <2>3 DEF Pick, GetNextProxy
<1>3. RouteInv'
  <2>1. CASE u \in Direct /\ KindOf[f] = "shots" /\ tries[f] > 0
    <3>1. Ends(f, pictures[f]) /\ UNCHANGED <<using, usedReal>>
      BY <2>1 DEF Pick
    <3>2. QED
      BY <1>t, <3>1, EndsKeep
  <2>2. CASE ~(u \in Direct /\ KindOf[f] = "shots" /\ tries[f] > 0)
    <3> DEFINE behind == u \notin Direct \/ KindOf[f] = "http"
               proxy  == IF behind THEN u ELSE NoProxy
               real   == usedReal[f] \/ behind
    <3>1. /\ using' = [using EXCEPT ![f] = proxy] /\ usedReal' = [usedReal EXCEPT ![f] = real]
          /\ at' = [at EXCEPT ![f] = "fetching"]
      BY <2>2 DEF Pick, Goto
    <3>2. /\ proxy \in Proxies \cup {NoProxy} /\ real \in BOOLEAN /\ (proxy # NoProxy => real)
          /\ (KindOf[f] = "http" => proxy # NoProxy) /\ tries[f] < MaxAttempts
      BY <1>t, Constants DEF Sound
    <3> HIDE DEF proxy, real
    <3>3. Sound(f, "fetching", proxy, real, tries[f], pictures[f])
      BY <1>t, <3>2 DEF Sound, Places
    <3>4. QED
      BY <1>t, <3>1, <3>3, MoveKeeps
  <2>3. QED
    BY <2>1, <2>2
<1>4. QED
  BY <1>1, <1>2, <1>3 DEF IInv

\* A pool that is told of an attempt keeps a type of its own.
LEMMA FailureRemembered ==
  ASSUME MemoryInv, NEW f \in Fetches, NEW u \in Proxies, NEW named \in BOOLEAN,
         MarkFailure(f, u, named)
  PROVE  MemoryInv'
<1> DEFINE left == [q \in Retailers |->
                      IF memSticky[HostOf[f]][q] = u THEN NoProxy ELSE memSticky[HostOf[f]][q]]
           kept == IF named THEN [left EXCEPT ![RetailerOf[f]] = NoProxy] ELSE left
<1>1. /\ memSticky \in [Processes -> [Retailers -> Proxies \cup {NoProxy}]]
      /\ HostOf[f] \in Processes /\ RetailerOf[f] \in Retailers
  BY Constants DEF MemoryInv
<1>2. memSticky' = [memSticky EXCEPT ![HostOf[f]] = kept] /\ UNCHANGED <<fresh, turn, sticky>>
  BY DEF MarkFailure, redis
<1>3. kept \in [Retailers -> Proxies \cup {NoProxy}]
  BY <1>1
<1> HIDE DEF kept
<1>4. memSticky' \in [Processes -> [Retailers -> Proxies \cup {NoProxy}]]
  BY <1>1, <1>2, <1>3
<1>5. QED
  BY <1>2, <1>4 DEF MemoryInv

LEMMA FetchKeeps ==
  ASSUME IInv, NEW f \in Fetches, Idle(HostOf[f]), FetchStep(f)
  PROVE  IInv'
<1>t. /\ RouteInv /\ MemoryInv /\ CountInv
      /\ Sound(f, at[f], using[f], usedReal[f], tries[f], pictures[f])
      /\ using' = using => using' = [using EXCEPT ![f] = using[f]]
      /\ usedReal' = usedReal => usedReal' = [usedReal EXCEPT ![f] = usedReal[f]]
      /\ tries' = tries => tries' = [tries EXCEPT ![f] = tries[f]]
      /\ pictures' = pictures => pictures' = [pictures EXCEPT ![f] = pictures[f]]
  BY Known DEF IInv
<1>n. ASSUME UNCHANGED <<memory, calls, redis, history>> PROVE CountInv' /\ MemoryInv'
  BY <1>t, <1>n, NothingCounted DEF memory, redis, MemoryInv
<1>1. ASSUME NEW u \in Proxies, Pick(f, u) PROVE IInv'
  BY <1>1, PickKeeps
<1>2. ASSUME Succeeds(f) PROVE IInv'
  <2>1. RouteInv'
    <3>1. /\ at' = [at EXCEPT ![f] = "ok"] /\ UNCHANGED <<tries, using, usedReal, pictures>>
      BY <1>2 DEF Succeeds, Goto
    <3>2. Sound(f, "ok", using[f], usedReal[f], tries[f], pictures[f])
      BY <1>t DEF Sound, Places
    <3>3. QED
      BY <1>t, <3>1, <3>2, GoesKeep
  <2>2. CASE using[f] # NoProxy
    <3> DEFINE named == KindOf[f] # "http"
    <3>1. using[f] \in Proxies /\ named \in BOOLEAN /\ MarkSuccess(f, using[f], named)
          /\ UNCHANGED history
      BY <1>t, <1>2, <2>2 DEF Succeeds, Sound
    <3> HIDE DEF named
    <3>2. CountInv'
      BY <1>t, <3>1, SuccessEarned
    <3>3. UNCHANGED <<memSticky, fresh, turn, redis>>
      BY <3>1 DEF MarkSuccess
    <3>4. QED
      BY <1>t, <2>1, <3>2, <3>3 DEF IInv, MemoryInv, redis
  <2>3. CASE using[f] = NoProxy
    BY <1>n, <1>2, <2>1, <2>3 DEF Succeeds, IInv
  <2>4. QED
    BY <2>2, <2>3
<1>3. ASSUME NEW images \in BOOLEAN, Blocked(f, images) PROVE IInv'
  <2>1. /\ at[f] = "fetching" /\ using[f] \in Proxies /\ (images => KindOf[f] = "shots")
        /\ MarkFailure(f, using[f], TRUE) /\ Blames(f, using[f], TRUE)
        /\ tries' = [tries EXCEPT ![f] = tries[f] + 1] /\ tries[f] + 1 \in 0 .. MaxAttempts
        /\ pictures' = [pictures EXCEPT ![f] = images] /\ UNCHANGED <<using, usedReal>>
    <3>1. /\ at[f] = "fetching" /\ using[f] # NoProxy /\ (images => KindOf[f] = "shots")
          /\ MarkFailure(f, using[f], TRUE) /\ Blames(f, using[f], TRUE)
          /\ tries' = [tries EXCEPT ![f] = tries[f] + 1]
          /\ pictures' = [pictures EXCEPT ![f] = images] /\ UNCHANGED <<using, usedReal>>
      BY <1>3 DEF Blocked
    <3>2. using[f] \in Proxies /\ tries[f] \in 0 .. MaxAttempts /\ tries[f] < MaxAttempts
      BY <1>t, <3>1 DEF Sound
    <3>3. tries[f] + 1 \in 0 .. MaxAttempts
      BY <3>2, Constants
    <3>4. QED
      BY <3>1, <3>2, <3>3
  <2>2. CountInv' /\ MemoryInv'
    BY <1>t, <2>1, FailureEarned, FailureRemembered
  <2>3. CASE Goto(f, "pick") /\ tries[f] + 1 < MaxAttempts
    <3>1. Sound(f, "pick", using[f], usedReal[f], tries[f] + 1, images)
      BY <1>t, <2>1, <2>3 DEF Sound, Places
    <3>2. RouteInv'
      BY <1>t, <2>1, <2>3, <3>1, MoveKeeps DEF Goto
    <3>3. QED
      BY <2>2, <3>2 DEF IInv
  <2>4. CASE Ends(f, images)
    <3>1. RouteInv'
      BY <1>t, <2>1, <2>4, EndsKeep
    <3>2. QED
      BY <2>2, <3>1 DEF IInv
  <2>5. QED
    BY <1>3, <2>3, <2>4 DEF Blocked
<1>4. ASSUME NEW images \in BOOLEAN, Breaks(f, images) PROVE IInv'
  <2>1. /\ images => KindOf[f] = "shots"
        /\ pictures' = [pictures EXCEPT ![f] = images] /\ Ends(f, images)
        /\ UNCHANGED <<memory, calls, redis, tries, using, usedReal, history>>
        /\ tries[f] \in 0 .. MaxAttempts
    BY <1>t, <1>4 DEF Breaks, Sound
  <2>2. RouteInv'
    BY <1>t, <2>1, EndsKeep
  <2>3. QED
    BY <1>n, <2>1, <2>2 DEF IInv
<1>5. ASSUME HttpFails(f) PROVE IInv'
  <2>1. /\ at[f] = "fetching" /\ KindOf[f] = "http" /\ using[f] \in Proxies
        /\ MarkFailure(f, using[f], FALSE) /\ Blames(f, using[f], FALSE)
        /\ at' = [at EXCEPT ![f] = "failed"] /\ UNCHANGED <<tries, using, usedReal, pictures>>
    BY <1>t, <1>5 DEF HttpFails, Sound, Goto
  <2>2. CountInv' /\ MemoryInv'
    BY <1>t, <2>1, FailureEarned, FailureRemembered
  <2>3. Sound(f, "failed", using[f], usedReal[f], tries[f], pictures[f])
    BY <1>t, <2>1 DEF Sound, Places
  <2>4. RouteInv'
    BY <1>t, <2>1, <2>3, GoesKeep
  <2>5. QED
    BY <2>2, <2>4 DEF IInv
<1>6. ASSUME NEW answer \in {"ok", "failed"}, DirectReply(f, answer) PROVE IInv'
  <2>1. at' = [at EXCEPT ![f] = answer] /\ using' = [using EXCEPT ![f] = NoProxy]
    BY <1>6 DEF DirectReply
  <2>u. UNCHANGED <<memory, calls, redis, tries, usedReal, pictures, history>>
    BY <1>6 DEF DirectReply
  <2>2. Sound(f, answer, NoProxy, usedReal[f], tries[f], pictures[f])
    BY <1>t DEF Sound, Places
  <2>3. /\ usedReal' = [usedReal EXCEPT ![f] = usedReal[f]]
        /\ tries' = [tries EXCEPT ![f] = tries[f]] /\ pictures' = [pictures EXCEPT ![f] = pictures[f]]
    BY <1>t, <2>u
  <2>4. RouteInv'
    BY <1>t, <2>1, <2>2, <2>3, MoveKeeps
  <2>5. QED
    BY <1>n, <2>u, <2>4 DEF IInv
<1>7. QED
  BY <1>1, <1>2, <1>3, <1>4, <1>5, <1>6 DEF FetchStep

LEMMA NothingRouted == ASSUME RouteInv, UNCHANGED fetch PROVE RouteInv'
<1>1. UNCHANGED <<at, tries, using, usedReal, pictures>>
  BY DEF fetch
<1>2. \A f \in Fetches : SoundNow(f)' <=> SoundNow(f)
  BY <1>1 DEF SoundNow
<1>3. QED
  BY <1>1, <1>2 DEF RouteInv

LEMMA StepKeeps == ASSUME IInv, [Next]_vars PROVE IInv'
<1>1. ASSUME NEW f \in Fetches, Idle(HostOf[f]), FetchStep(f) PROVE IInv'
  BY <1>1, FetchKeeps
<1>2. ASSUME NEW w \in Processes, RedisStep(w), UNCHANGED <<fetch, history>> PROVE IInv'
  BY <1>2, RedisKeeps, NothingRouted DEF IInv
<1>3. CASE Expires /\ UNCHANGED <<memFail, memSticky, turn, calls, fetch, history>>
  BY <1>3, ExpiryKeeps, NothingRouted DEF IInv
<1>4. CASE UNCHANGED vars
  <2>1. UNCHANGED <<memFail, memSticky, fresh, turn, calls, count, sticky, fetch, history>>
    BY <1>4 DEF vars, memory, redis
  <2>2. QED
    BY <2>1, NothingRouted, NothingCounted DEF IInv, MemoryInv
<1>5. QED
  BY <1>1, <1>2, <1>3, <1>4 DEF Next

LEMMA InitHolds == ASSUME Init PROVE IInv
<1>1. RouteInv
  BY Constants DEF Init, RouteInv, SoundNow, Sound, Places
<1>2. MemoryInv
  BY Constants DEF Init, MemoryInv
<1>3. CountInv
  <2>1. \A k : Waiting(k) = {}
    BY NoCallsIsCalls DEF Init, Waiting
  <2>2. \A k : Cardinality(Waiting(k)) = 0
    BY <2>1, FS_EmptySet
  <2>3. QED
    BY <2>2, NoCallsIsCalls DEF Init, CountInv
<1>4. QED
  BY <1>1, <1>2, <1>3 DEF IInv

LEMMA Invariant == Spec => []IInv
BY InitHolds, StepKeeps, PTL DEF Spec
-----------------------------------------------------------------------------
\* The type of the pool and of its users' attempts: only a fetch with attempts left picks
\* an egress, and only a capture keeps pictures.
THEOREM TypeCorrect == Spec => []PoolTypeOK
<1>1. ASSUME IInv PROVE PoolTypeOK
  <2>1. /\ memFail \in [Processes -> [Proxies -> Nat]] /\ blame \in [Processes -> [Proxies -> Nat]]
        /\ calls \in [Processes -> Calls]
        /\ count \in [Counters -> Nat] /\ failedFor \in [Counters -> Nat]
    BY <1>1 DEF IInv, CountInv
  <2>2. /\ at \in [Fetches -> Places] /\ tries \in [Fetches -> 0 .. MaxAttempts]
        /\ using \in [Fetches -> Proxies \cup {NoProxy}] /\ usedReal \in [Fetches -> BOOLEAN]
        /\ pictures \in [Fetches -> BOOLEAN]
        /\ \A f \in Fetches : /\ at[f] = "pick" => tries[f] < MaxAttempts
                              /\ pictures[f] => KindOf[f] = "shots"
    BY <1>1 DEF IInv, RouteInv, SoundNow, Sound
  <2>3. QED
    BY <1>1, <2>1, <2>2 DEF IInv, MemoryInv, PoolTypeOK, Calls, Places
<1>2. QED
  BY <1>1, Invariant, PTL

\* browser_fetcher.py:351, "so a broken egress node can never take down all fetches":
\* a browser fetch fails only after an attempt without a proxy, whichever proxies the pool
\* gives, however many attempts it is allowed and whatever Redis loses; or it is a capture
\* that was shown blank pictures through its last proxy.
THEOREM DirectInTheEnd == Spec => []NeverFailsBehindProxy
<1>1. IInv => NeverFailsBehindProxy
  BY DEF IInv, RouteInv, SoundNow, Sound, NeverFailsBehindProxy
<1>2. QED
  BY <1>1, Invariant, PTL

\* No counter of the pool, in Redis or in any process, is ahead of the failures it stands
\* for, so a proxy is skipped for real failures only, however the calls of the processes
\* to Redis interleave, and whichever of them fail.
THEOREM SkipsEarned == Spec => []SkipsAreEarned
<1>1. ASSUME IInv PROVE SkipsAreEarned
  <2>1. ASSUME NEW k \in Counters, k.what = "fail" PROVE count[k] <= failedFor[k]
    <3>1. count[k] + Cardinality(Waiting(k)) <= failedFor[k] /\ count[k] \in Nat
          /\ failedFor[k] \in Nat /\ Cardinality(Waiting(k)) \in Nat
      BY <1>1, <2>1, WaitingFinite DEF IInv, CountInv
    <3>2. QED
      BY <3>1
  <2>2. QED
    BY <1>1, <2>1 DEF IInv, CountInv, SkipsAreEarned
<1>2. QED
  BY <1>1, Invariant, PTL
-----------------------------------------------------------------------------
(***************************************************************************)
(* AspEscalation: the chain of providers.                                  *)
(***************************************************************************)
\* Induction over a set of numbers, as its least element.
LEMMA LeastElement ==
  ASSUME NEW T, T \subseteq Nat, T # {}
  PROVE  \E n \in T : \A m \in T : n <= m
<1> DEFINE Less == {p \in Nat \X Nat : p[1] < p[2]}
<1>1. \A m, n \in Nat : m < n => <<m, n>> \in Less
  OBVIOUS
<1>2. IsWellFoundedOn(Less, Nat)
  BY NatLessThanWellFounded DEF OpToRel
<1> HIDE DEF Less
<1>3. PICK n \in T : \A m \in T : <<m, n>> \notin Less
  BY <1>2, WFMin
<1>4. \A m \in T : ~(m < n)
  BY <1>1, <1>3
<1>5. QED
  BY <1>4

\* What the loop of build_provider_chain adds for the i-th provider of the order.
Added(g, i, usable) == IF i = 0 THEN <<>>
                       ELSE IF Order[i] \in usable THEN Append(g[i - 1], Order[i])
                       ELSE g[i - 1]

\* The loop has a result, for any order.
LEMMA LoopEnds ==
  ASSUME NEW usable
  PROVE  \A n \in Nat : \E g : g = [i \in 0 .. n |-> Added(g, i, usable)]
<1> DEFINE P(n) == \E g : g = [i \in 0 .. n |-> Added(g, i, usable)]
           T    == {n \in Nat : ~P(n)}
<1>1. SUFFICES ASSUME T # {} PROVE FALSE
  OBVIOUS
<1>2. PICK n \in T : \A m \in T : n <= m
  BY <1>1, LeastElement
<1>3. P(0)
  <2> DEFINE g == [i \in 0 .. 0 |-> <<>>]
  <2>1. g = [i \in 0 .. 0 |-> Added(g, i, usable)]
    BY DEF Added
  <2>2. QED
    BY <2>1
<1>4. n \in Nat /\ n # 0 /\ n - 1 \in Nat /\ n - 1 \notin T
  <2>1. n \in Nat /\ ~P(n)
    BY <1>2
  <2>2. n # 0
    BY <1>3, <2>1
  <2> HIDE DEF T, P
  <2>3. n - 1 \in Nat /\ ~(n <= n - 1)
    BY <2>1, <2>2
  <2>4. QED
    BY <1>2, <2>1, <2>2, <2>3
<1>5. PICK g : g = [i \in 0 .. n - 1 |-> Added(g, i, usable)]
  BY <1>4
<1> DEFINE h == [i \in 0 .. n |-> IF i = n THEN Added(g, n, usable) ELSE g[i]]
<1>6. \A i \in 0 .. n : Added(h, i, usable) = IF i = n THEN Added(g, n, usable) ELSE g[i]
  <2> TAKE i \in 0 .. n
  <2>1. CASE i = 0
    BY <1>4, <1>5, <2>1 DEF Added
  <2>2. CASE i # 0
    <3>1. i - 1 \in 0 .. n /\ i - 1 # n /\ h[i - 1] = g[i - 1]
      BY <1>4, <2>2
    <3>2. Added(h, i, usable) = Added(g, i, usable)
      BY <2>2, <3>1 DEF Added
    <3>3. CASE i = n
      BY <3>2, <3>3
    <3>4. CASE i # n
      <4>1. i \in 0 .. n - 1
        BY <1>4, <3>4
      <4>2. g[i] = Added(g, i, usable)
        BY <1>5, <4>1
      <4>3. QED
        BY <3>2, <3>4, <4>2
    <3>5. QED
      BY <3>3, <3>4
  <2>3. QED
    BY <2>1, <2>2
<1>7. h = [i \in 0 .. n |-> Added(h, i, usable)]
  BY <1>6
<1>8. P(n)
  BY <1>7
<1>9. QED
  BY <1>2, <1>8

\* What a chain may be: providers that may be tried, none of them twice.
LEMMA ChainBuilt ==
  ASSUME NEW usable \in SUBSET Providers
  PROVE  /\ BuildProviderChain(usable) \in Seq(usable)
         /\ IsInjective(BuildProviderChain(usable))
<1> DEFINE n == Len(Order)
           Defines(g) == g = [i \in 0 .. n |-> Added(g, i, usable)]
           built == CHOOSE g : Defines(g)
<1>o. /\ Order \in Seq(ToSet(Order)) /\ n \in Nat /\ \A i \in 1 .. n : Order[i] \in ToSet(Order)
      /\ \A i, j \in 1 .. n : Order[i] = Order[j] => i = j
  <2>1. Order \in Seq(ToSet(Order)) /\ IsInjective(Order)
    BY ProviderAssumption
  <2>2. DOMAIN Order = 1 .. n /\ n \in Nat
    BY <2>1
  <2>3. QED
    BY <2>1, <2>2 DEF IsInjective, ToSet
<1>1. BuildProviderChain(usable) = built[n]
  BY DEF BuildProviderChain, Added
<1>2. Defines(built)
  <2>1. \E g : Defines(g)
    BY <1>o, LoopEnds
  <2> HIDE DEF Defines
  <2>2. QED
    BY <2>1
<1> HIDE DEF built, n
<1>3. \A i \in 0 .. n : built[i] = Added(built, i, usable)
  BY <1>2
<1> DEFINE Good(c, i) == /\ c \in Seq(usable)
                         /\ \A k \in 1 .. Len(c) : \E j \in 1 .. i : c[k] = Order[j]
                         /\ \A k, l \in 1 .. Len(c) : c[k] = c[l] => k = l
           T == {i \in 0 .. n : ~Good(built[i], i)}
<1>4. ASSUME T # {} PROVE FALSE
  <2>1. PICK i \in T : \A m \in T : i <= m
    <3>1. T \subseteq Nat
      BY <1>o
    <3> HIDE DEF T
    <3>2. QED
      BY <1>4, <3>1, LeastElement
  <2>2. i \in 0 .. n /\ i \in Nat /\ ~Good(built[i], i)
    BY <1>o, <2>1
  <2>3. CASE i = 0
    <3>1. built[0] = <<>>
      BY <1>3, <2>2, <2>3 DEF Added
    <3>2. Good(built[0], 0)
      BY <3>1
    <3>3. QED
      BY <2>2, <2>3, <3>2
  <2>4. CASE i # 0
    <3> DEFINE c == built[i - 1]
               d == built[i]
    <3>1. i - 1 \in 0 .. n /\ i - 1 \notin T /\ i \in 1 .. n
      BY <1>o, <2>1, <2>2, <2>4
    <3>2. Good(c, i - 1)
      BY <3>1
    <3>3. d = IF Order[i] \in usable THEN Append(c, Order[i]) ELSE c
      BY <1>3, <2>2, <2>4 DEF Added
    <3> HIDE DEF c, d
    <3>4. CASE Order[i] \notin usable
      <4>1. Good(d, i)
        BY <3>2, <3>3, <3>4, <2>2, <2>4
      <4>2. QED
        BY <2>2, <4>1 DEF d
    <3>5. CASE Order[i] \in usable
      <4>1. /\ d \in Seq(usable) /\ Len(d) = Len(c) + 1 /\ Len(c) \in Nat
            /\ \A k \in 1 .. Len(c) : d[k] = c[k]
            /\ d[Len(c) + 1] = Order[i]
        BY <3>2, <3>3, <3>5
      <4>2. \A k \in 1 .. Len(c) : d[k] # Order[i]
        <5> TAKE k \in 1 .. Len(c)
        <5>1. PICK j \in 1 .. i - 1 : c[k] = Order[j]
          BY <3>2
        <5>2. j \in 1 .. n /\ j # i
          BY <2>2, <3>1, <5>1, <1>o
        <5>3. QED
          BY <1>o, <3>1, <4>1, <5>1, <5>2
      <4>3. ASSUME NEW k \in 1 .. Len(d) PROVE \E j \in 1 .. i : d[k] = Order[j]
        <5>1. CASE k = Len(c) + 1
          BY <2>2, <3>1, <4>1, <5>1
        <5>2. CASE k # Len(c) + 1
          <6>1. k \in 1 .. Len(c)
            BY <4>1, <5>2
          <6>2. PICK j \in 1 .. i - 1 : c[k] = Order[j]
            BY <3>2, <6>1
          <6>3. QED
            BY <2>2, <4>1, <6>1, <6>2
        <5>3. QED
          BY <5>1, <5>2
      <4>4. ASSUME NEW k \in 1 .. Len(d), NEW l \in 1 .. Len(d), d[k] = d[l] PROVE k = l
        <5>1. CASE k = Len(c) + 1 \/ l = Len(c) + 1
          BY <4>1, <4>2, <4>4, <5>1
        <5>2. CASE k # Len(c) + 1 /\ l # Len(c) + 1
          <6>1. k \in 1 .. Len(c) /\ l \in 1 .. Len(c)
            BY <4>1, <5>2
          <6>2. QED
            BY <3>2, <4>1, <4>4, <6>1
        <5>3. QED
          BY <5>1, <5>2
      <4>5. Good(d, i)
        BY <4>1, <4>3, <4>4
      <4>6. QED
        BY <2>2, <4>5 DEF d
    <3>6. QED
      BY <3>4, <3>5
  <2>5. QED
    BY <2>3, <2>4
<1>5. Good(built[n], n)
  BY <1>4, <1>o
<1>6. IsInjective(built[n])
  BY <1>5 DEF IsInjective
<1>7. QED
  BY <1>1, <1>5, <1>6
-----------------------------------------------------------------------------
(***************************************************************************)
(* AspEscalation: health and scrapes.                                      *)
(***************************************************************************)
Stages == {"idle", "fetching", "between", "retrying", "charging", "charged", "over"}

HealthInv ==
  /\ failures \in [Providers -> 0 .. ProviderMaxFailures]
  /\ cooling \in [Providers -> 0 .. Cooldown]
  /\ disabled \in [Providers -> Reasons]
  /\ spend \in 0 .. Budget + 1

ScrapeInv ==
  /\ stage \in [Slots -> Stages] /\ chain \in [Slots -> Seq(Providers)]
  /\ tried \in [Slots -> SUBSET Providers] /\ booked \in [Slots -> Providers \cup {NoProvider}]
  /\ late \in [Slots -> [Providers -> 0 .. 2]]

\* What holds of one slot, which stands at place with the chain c, has booked b, and has
\* started l[v] late fetches of v: a provider it started late is disabled for good, and
\* comes after no other one in the chain it is working on.
SlotOk(place, c, b, l, reason) ==
  /\ IsInjective(c)
  /\ place = "fetching" => c # <<>>
  /\ (place \in {"charging", "charged", "over"}) = (b # NoProvider)
  /\ \A v \in Providers \ {Local} : l[v] # 0 =>
       /\ l[v] = 1 /\ reason[v] # "none"
       /\ place = "between" => v \notin ToSet(c)
       /\ place = "fetching" => v \notin ToSet(Tail(c))

SlotsOk == \A s \in Slots : SlotOk(stage[s], chain[s], booked[s], late[s], disabled)

AspInv == HealthInv /\ ScrapeInv /\ SlotsOk

Stay == \A v \in Providers : disabled[v] # "none" => disabled'[v] # "none"

LEMMA AspConstants ==
  /\ Paid \subseteq Providers /\ Local \in Providers /\ NoProvider \notin Providers
  /\ Cost \in [Providers -> Nat] /\ ProviderMaxFailures \in Nat \ {0} /\ Cooldown \in Nat /\ Budget \in Nat
BY ProviderAssumption, LimitAssumption DEF Providers

LEMMA RecordFailureHealth ==
  ASSUME HealthInv, NEW v \in Providers, NEW outcome, RecordFailure(v, outcome), UNCHANGED spend
  PROVE  HealthInv' /\ Stay
<1>1. CASE UNCHANGED health
  BY <1>1 DEF health, HealthInv, Stay
<1>2. CASE ~UNCHANGED health
  <2> DEFINE n == AtMost(failures[v] + 1, ProviderMaxFailures)
             rest == IF outcome = "suspension" \/ n = ProviderMaxFailures THEN Cooldown ELSE cooling[v]
             reason == IF outcome = "suspension" THEN "suspended_or_billing" ELSE disabled[v]
  <2>1. /\ failures' = [failures EXCEPT ![v] = n] /\ cooling' = [cooling EXCEPT ![v] = rest]
        /\ disabled' = [disabled EXCEPT ![v] = reason]
    BY <1>2 DEF RecordFailure
  <2>2. n \in 0 .. ProviderMaxFailures
    BY AspConstants DEF HealthInv, AtMost
  <2>3. rest \in 0 .. Cooldown
    BY AspConstants DEF HealthInv
  <2>4. reason \in Reasons /\ (disabled[v] # "none" => reason # "none")
    BY DEF HealthInv, Reasons
  <2> HIDE DEF n, rest, reason
  <2>5. HealthInv'
    BY <2>1, <2>2, <2>3, <2>4 DEF HealthInv
  <2>6. Stay
    BY <2>1, <2>4 DEF HealthInv, Stay
  <2>7. QED
    BY <2>5, <2>6
<1>3. QED
  BY <1>1, <1>2

LEMMA RecordSuccessHealth ==
  ASSUME HealthInv, NEW v \in Providers, RecordSuccess(v), UNCHANGED spend
  PROVE  HealthInv' /\ Stay
BY AspConstants DEF RecordSuccess, HealthInv, Stay

LEMMA NothingHealth ==
  ASSUME HealthInv, UNCHANGED <<health, spend>>
  PROVE  HealthInv' /\ Stay
BY DEF HealthInv, Stay, health

\* It suffices that the slot which moved is as it should be, the others being as they were.
LEMMA SlotMoves ==
  ASSUME AspInv, HealthInv', Stay, NEW s \in Slots,
         NEW place \in Stages, stage' = [stage EXCEPT ![s] = place],
         NEW c \in Seq(Providers), chain' = [chain EXCEPT ![s] = c],
         NEW b \in Providers \cup {NoProvider}, booked' = [booked EXCEPT ![s] = b],
         NEW l \in [Providers -> 0 .. 2], late' = [late EXCEPT ![s] = l],
         tried' \in [Slots -> SUBSET Providers], SlotOk(place, c, b, l, disabled')
  PROVE  AspInv' /\ Stay
<1>1. ScrapeInv'
  BY DEF AspInv, ScrapeInv
<1>2. ASSUME NEW r \in Slots
      PROVE  SlotOk(stage'[r], chain'[r], booked'[r], late'[r], disabled')
  <2>1. CASE r = s
    BY <2>1 DEF AspInv, ScrapeInv
  <2>2. CASE r # s
    <3>1. stage'[r] = stage[r] /\ chain'[r] = chain[r] /\ booked'[r] = booked[r] /\ late'[r] = late[r]
      BY <2>2 DEF AspInv, ScrapeInv
    <3>2. SlotOk(stage[r], chain[r], booked[r], late[r], disabled)
      BY DEF AspInv, SlotsOk
    <3>3. QED
      BY <3>1, <3>2 DEF SlotOk, Stay
  <2>3. QED
    BY <2>1, <2>2
<1>3. QED
  BY <1>1, <1>2 DEF AspInv, SlotsOk

LEMMA ChainTail ==
  ASSUME NEW c \in Seq(Providers), c # <<>>, IsInjective(c)
  PROVE  /\ Head(c) \in Providers /\ Head(c) \in ToSet(c)
         /\ Tail(c) \in Seq(Providers) /\ IsInjective(Tail(c))
         /\ ToSet(Tail(c)) \subseteq ToSet(c) /\ Head(c) \notin ToSet(Tail(c))
<1>1. /\ Len(c) \in Nat \ {0} /\ DOMAIN c = 1 .. Len(c) /\ Head(c) = c[1]
      /\ Tail(c) \in Seq(Providers) /\ Len(Tail(c)) = Len(c) - 1
      /\ \A i \in 1 .. Len(c) - 1 : Tail(c)[i] = c[i + 1]
      /\ DOMAIN Tail(c) = 1 .. Len(c) - 1
  OBVIOUS
<1>2. \A i, j \in 1 .. Len(c) : c[i] = c[j] => i = j
  BY <1>1 DEF IsInjective
<1>3. IsInjective(Tail(c))
  <2> SUFFICES ASSUME NEW i \in 1 .. Len(c) - 1, NEW j \in 1 .. Len(c) - 1, Tail(c)[i] = Tail(c)[j]
               PROVE  i = j
    BY <1>1 DEF IsInjective
  <2>1. i + 1 \in 1 .. Len(c) /\ j + 1 \in 1 .. Len(c) /\ c[i + 1] = c[j + 1]
    BY <1>1
  <2>2. i + 1 = j + 1
    BY <1>2, <2>1
  <2>3. QED
    BY <2>2
<1>4. \A v \in ToSet(Tail(c)) : v \in ToSet(c) /\ v # Head(c)
  <2> TAKE v \in ToSet(Tail(c))
  <2>1. PICK i \in 1 .. Len(c) - 1 : v = Tail(c)[i]
    BY <1>1 DEF ToSet
  <2>2. i + 1 \in 1 .. Len(c) /\ i + 1 # 1 /\ v = c[i + 1] /\ 1 \in 1 .. Len(c)
    BY <1>1, <2>1
  <2>3. QED
    BY <1>1, <1>2, <2>2 DEF ToSet
<1>5. Head(c) \in ToSet(c) /\ Head(c) \in Providers
  <2>1. 1 \in DOMAIN c
    BY <1>1
  <2>2. QED
    BY <1>1, <2>1 DEF ToSet
<1>6. QED
  BY <1>1, <1>3, <1>4, <1>5

\* A slot that keeps what it counted, and does not work on a chain next, is as it should be.
LEMMA RestOk ==
  ASSUME AspInv, Stay, NEW s \in Slots, NEW place \in Stages \ {"fetching", "between"},
         NEW c \in Seq(Providers), IsInjective(c), NEW b \in Providers \cup {NoProvider},
         (place \in {"charging", "charged", "over"}) = (b # NoProvider)
  PROVE  SlotOk(place, c, b, late[s], disabled')
BY DEF AspInv, SlotsOk, SlotOk, Stay

LEMMA Slot ==
  ASSUME AspInv, NEW s \in Slots
  PROVE  /\ stage[s] \in Stages /\ chain[s] \in Seq(Providers) /\ IsInjective(chain[s])
         /\ booked[s] \in Providers \cup {NoProvider} /\ late[s] \in [Providers -> 0 .. 2]
         /\ tried[s] \in SUBSET Providers /\ (stage[s] = "fetching" => chain[s] # <<>>)
         /\ (stage[s] \in {"charging", "charged", "over"}) = (booked[s] # NoProvider)
         /\ chain' = chain => chain' = [chain EXCEPT ![s] = chain[s]]
         /\ booked' = booked => booked' = [booked EXCEPT ![s] = booked[s]]
         /\ late' = late => late' = [late EXCEPT ![s] = late[s]]
         /\ tried \in [Slots -> SUBSET Providers] /\ HealthInv
BY DEF AspInv, ScrapeInv, SlotsOk, SlotOk

LEMMA ReturnKeeps ==
  ASSUME AspInv, HealthInv', Stay, NEW s \in Slots, Return(s), UNCHANGED late
  PROVE  AspInv' /\ Stay
<1>1. <<>> \in Seq(Providers) /\ IsInjective(<<>>)
  BY DEF IsInjective
<1>2. "idle" \in Stages /\ "idle" \in Stages \ {"fetching", "between"}
  BY DEF Stages
<1>3. tried' \in [Slots -> SUBSET Providers]
  <2>1. tried \in [Slots -> SUBSET Providers]
    BY DEF AspInv, ScrapeInv
  <2>2. QED
    BY <2>1 DEF Return
<1>4. ("idle" \in {"charging", "charged", "over"}) = (NoProvider # NoProvider)
  OBVIOUS
<1>5. SlotOk("idle", <<>>, NoProvider, late[s], disabled')
  BY <1>1, <1>2, <1>4, RestOk
<1>6. late[s] \in [Providers -> 0 .. 2] /\ late' = [late EXCEPT ![s] = late[s]]
  BY DEF AspInv, ScrapeInv
<1>7. QED
  BY <1>1, <1>2, <1>3, <1>5, <1>6, SlotMoves DEF Return

LEMMA SucceedKeeps ==
  ASSUME AspInv, NEW s \in Slots, NEW v \in Providers, Succeed(s, v), UNCHANGED <<spend, late>>
  PROVE  AspInv' /\ Stay
<1>1. HealthInv' /\ Stay
  BY Slot, RecordSuccessHealth DEF Succeed
<1>2. CASE Return(s)
  BY <1>1, <1>2, ReturnKeeps
<1>3. CASE stage' = [stage EXCEPT ![s] = "charging"] /\ booked' = [booked EXCEPT ![s] = v] /\ UNCHANGED <<chain, tried>>
  <2>1. v # NoProvider /\ "charging" \in Stages
    BY AspConstants DEF Stages
  <2>2. SlotOk("charging", chain[s], v, late[s], disabled')
    BY <1>1, <2>1, Slot, RestOk
  <2>3. QED
    BY <1>1, <1>3, <2>1, <2>2, Slot, SlotMoves
<1>4. QED
  BY <1>2, <1>3 DEF Succeed

LEMMA BeginKeeps ==
  ASSUME AspInv, NEW s \in Slots, Begin(s)
  PROVE  AspInv' /\ Stay
<1> DEFINE open  == {v \in Providers : CircuitOk(v)}
           built == BuildProviderChain(open)
           c     == IF built = <<>> THEN <<Local>> ELSE built
<1>1. /\ stage[s] = "idle" /\ chain' = [chain EXCEPT ![s] = c] /\ tried' = [tried EXCEPT ![s] = {}]
      /\ stage' = [stage EXCEPT ![s] = "fetching"] /\ UNCHANGED <<health, spend, booked, late>>
  BY DEF Begin
<1>2. open \in SUBSET Providers /\ built \in Seq(open) /\ IsInjective(built)
  BY ChainBuilt
<1>3. \A v \in open : disabled[v] = "none"
  BY DEF CircuitOk, CircuitOpen
<1> HIDE DEF open, built
<1>4. c \in Seq(Providers) /\ c # <<>> /\ IsInjective(c)
  <2>1. CASE built = <<>>
    BY <2>1, AspConstants DEF IsInjective
  <2>2. CASE built # <<>>
    BY <1>2, <2>2
  <2>3. QED
    BY <2>1, <2>2
<1>5. \A v \in ToSet(c) : v = Local \/ disabled[v] = "none"
  <2>1. CASE built = <<>>
    <3>1. ToSet(c) = {Local}
      BY <2>1 DEF ToSet
    <3>2. QED
      BY <3>1
  <2>2. CASE built # <<>>
    <3>1. ToSet(c) \subseteq open
      BY <1>2, <2>2 DEF ToSet
    <3>2. QED
      BY <1>3, <3>1
  <2>3. QED
    BY <2>1, <2>2
<1> HIDE DEF c
<1>6. ToSet(Tail(c)) \subseteq ToSet(c)
  BY <1>4, ChainTail
<1>7. HealthInv' /\ Stay /\ disabled' = disabled
  BY <1>1, Slot, NothingHealth DEF health
<1>8. SlotOk("fetching", c, booked[s], late[s], disabled')
  <2>1. booked[s] = NoProvider
    BY <1>1, Slot
  <2>2. \A v \in Providers \ {Local} : late[s][v] # 0 => late[s][v] = 1 /\ disabled[v] # "none"
    BY DEF AspInv, SlotsOk, SlotOk
  <2>3. QED
    BY <1>4, <1>5, <1>6, <1>7, <2>1, <2>2 DEF SlotOk
<1>9. tried' \in [Slots -> SUBSET Providers] /\ "fetching" \in Stages
  BY <1>1, Slot DEF Stages
<1>10. QED
  BY <1>1, <1>4, <1>7, <1>8, <1>9, Slot, SlotMoves

\* A provider that has been tried leaves the chain.
LEMMA Tried ==
  ASSUME AspInv, HealthInv', Stay, NEW s \in Slots, stage[s] \in {"fetching", "between"}, chain[s] # <<>>,
         stage' = [stage EXCEPT ![s] = "between"], chain' = [chain EXCEPT ![s] = Tail(@)],
         tried' = [tried EXCEPT ![s] = @ \cup {Head(chain[s])}], UNCHANGED <<booked, late>>
  PROVE  AspInv' /\ Stay
<1>1. /\ Head(chain[s]) \in Providers /\ Tail(chain[s]) \in Seq(Providers)
      /\ IsInjective(Tail(chain[s])) /\ ToSet(Tail(chain[s])) \subseteq ToSet(chain[s])
  BY Slot, ChainTail
<1>2. tried' \in [Slots -> SUBSET Providers] /\ "between" \in Stages /\ booked[s] = NoProvider
  BY <1>1, Slot DEF Stages
<1>3. \A v \in Providers \ {Local} : late[s][v] # 0 =>
         late[s][v] = 1 /\ disabled'[v] # "none" /\ v \notin ToSet(Tail(chain[s]))
  BY <1>1 DEF AspInv, SlotsOk, SlotOk, Stay
<1>4. SlotOk("between", Tail(chain[s]), booked[s], late[s], disabled')
  BY <1>1, <1>2, <1>3 DEF SlotOk
<1>5. chain' = [chain EXCEPT ![s] = Tail(chain[s])]
  OBVIOUS
<1>6. QED
  BY <1>1, <1>2, <1>4, <1>5, Slot, SlotMoves

LEMMA FetchReplyKeeps ==
  ASSUME AspInv, NEW s \in Slots, NEW outcome \in Outcomes, FetchReply(s, outcome)
  PROVE  AspInv' /\ Stay
<1>1. stage[s] = "fetching" /\ chain[s] # <<>> /\ Head(chain[s]) \in Providers /\ UNCHANGED <<spend, late>>
  BY Slot, ChainTail DEF FetchReply
<1>2. CASE outcome = "usable"
  BY <1>1, <1>2, SucceedKeeps DEF FetchReply
<1>3. CASE outcome # "usable"
  <2>1. RecordFailure(Head(chain[s]), outcome)
    BY <1>3 DEF FetchReply
  <2>2. HealthInv' /\ Stay
    BY <1>1, <2>1, Slot, RecordFailureHealth
  <2>3. QED
    BY <1>1, <1>3, <2>2, Tried DEF FetchReply
<1>4. QED
  BY <1>2, <1>3

LEMMA NextProviderKeeps ==
  ASSUME AspInv, NEW s \in Slots, NextProvider(s)
  PROVE  AspInv' /\ Stay
<1> DEFINE v == Head(chain[s])
           n == IF disabled[v] # "none" THEN AtMost(late[s][v] + 1, 2) ELSE late[s][v]
           l == [late[s] EXCEPT ![v] = n]
<1>1. stage[s] = "between" /\ chain[s] # <<>> /\ UNCHANGED <<health, spend, booked>>
      /\ stage \in [Slots -> Stages]
  BY DEF NextProvider, AspInv, ScrapeInv
<1>2. HealthInv' /\ Stay /\ disabled' = disabled
  BY <1>1, Slot, NothingHealth DEF health
<1>3. v \in Providers /\ v \in ToSet(chain[s]) /\ v \notin ToSet(Tail(chain[s]))
      /\ ToSet(Tail(chain[s])) \subseteq ToSet(chain[s])
  BY <1>1, Slot, ChainTail
<1>4. CASE chain' = [chain EXCEPT ![s] = Tail(@)] /\ tried' = [tried EXCEPT ![s] = @ \cup {v}] /\ UNCHANGED <<stage, late>>
  <2>1. stage' = [stage EXCEPT ![s] = "between"]
    BY <1>1, <1>4
  <2>2. QED
    BY <1>1, <1>2, <1>4, <2>1, Tried
<1>5. CASE stage' = [stage EXCEPT ![s] = "fetching"] /\ late' = [late EXCEPT ![s][v] = n] /\ UNCHANGED <<chain, tried>>
  <2>1. late' = [late EXCEPT ![s] = l]
    BY <1>5
  <2>2. \A u \in Providers \ {Local} : late[s][u] # 0 =>
          late[s][u] = 1 /\ disabled[u] # "none" /\ u \notin ToSet(chain[s])
    BY <1>1 DEF AspInv, SlotsOk, SlotOk
  <2>3. n \in 0 .. 2
    BY <1>3, Slot DEF AtMost
  <2>4. v # Local => n = 0 \/ (n = 1 /\ disabled[v] # "none")
    BY <1>3, <2>2 DEF AtMost
  <2> HIDE DEF n
  <2>5. /\ l \in [Providers -> 0 .. 2] /\ l[v] = n
        /\ \A u \in Providers : u # v => l[u] = late[s][u]
    BY <1>3, <2>3, Slot
  <2> HIDE DEF l, v
  <2>6. \A u \in Providers \ {Local} : l[u] # 0 =>
          l[u] = 1 /\ disabled[u] # "none" /\ u \notin ToSet(Tail(chain[s]))
    BY <1>3, <2>2, <2>4, <2>5
  <2>7. booked[s] = NoProvider /\ "fetching" \in Stages
    BY <1>1, Slot DEF Stages
  <2>8. SlotOk("fetching", chain[s], booked[s], l, disabled')
    BY <1>1, <1>2, <2>6, <2>7, Slot DEF SlotOk
  <2>9. /\ chain' = [chain EXCEPT ![s] = chain[s]] /\ chain[s] \in Seq(Providers)
        /\ booked' = [booked EXCEPT ![s] = booked[s]] /\ booked[s] \in Providers \cup {NoProvider}
        /\ stage' = [stage EXCEPT ![s] = "fetching"] /\ tried' \in [Slots -> SUBSET Providers]
    BY <1>1, <1>5, Slot
  <2>10. QED
    BY <1>2, <2>1, <2>5, <2>7, <2>8, <2>9, SlotMoves
<1>6. QED
  BY <1>4, <1>5 DEF NextProvider

LEMMA RetryKeeps ==
  ASSUME AspInv, NEW s \in Slots,
         \/ FetchRaises(s)
         \/ \E retry \in BOOLEAN : LastResort(s, retry)
         \/ \E outcome \in Outcomes : RetryReply(s, outcome)
  PROVE  AspInv' /\ Stay
<1>1. CASE FetchRaises(s)
  BY <1>1, Slot, NothingHealth, ReturnKeeps DEF FetchRaises
<1>2. ASSUME NEW retry \in BOOLEAN, LastResort(s, retry) PROVE AspInv' /\ Stay
  <2>1. stage[s] = "between" /\ UNCHANGED <<health, spend, late>>
    BY <1>2 DEF LastResort
  <2>2. HealthInv' /\ Stay
    BY <2>1, Slot, NothingHealth
  <2>3. CASE Return(s)
    BY <2>1, <2>2, <2>3, ReturnKeeps
  <2>4. CASE stage' = [stage EXCEPT ![s] = "retrying"] /\ UNCHANGED <<chain, tried, booked>>
    <3>1. booked[s] = NoProvider /\ "retrying" \in Stages
      BY <2>1, Slot DEF Stages
    <3>2. SlotOk("retrying", chain[s], booked[s], late[s], disabled')
      BY <2>2, <3>1, Slot, RestOk
    <3>3. QED
      BY <2>1, <2>2, <2>4, <3>1, <3>2, Slot, SlotMoves
  <2>5. QED
    BY <1>2, <2>3, <2>4 DEF LastResort
<1>3. ASSUME NEW outcome \in Outcomes, RetryReply(s, outcome) PROVE AspInv' /\ Stay
  <2>1. UNCHANGED <<spend, late>> /\ Local \in Providers
    BY <1>3, AspConstants DEF RetryReply
  <2>2. CASE outcome = "usable"
    BY <1>3, <2>1, <2>2, SucceedKeeps DEF RetryReply
  <2>3. CASE outcome # "usable"
    <3>1. Return(s) /\ \E seen : RecordFailure(Local, seen)
      BY <1>3, <2>3 DEF RetryReply
    <3>2. HealthInv' /\ Stay
      BY <2>1, <3>1, Slot, RecordFailureHealth
    <3>3. QED
      BY <2>1, <3>1, <3>2, ReturnKeeps
  <2>4. QED
    BY <2>2, <2>3
<1>4. QED
  BY <1>1, <1>2, <1>3

LEMMA ChargeKeeps ==
  ASSUME AspInv, NEW s \in Slots, Charge(s) \/ ChargeFails(s)
  PROVE  AspInv' /\ Stay
<1>1. /\ stage[s] = "charging" /\ UNCHANGED <<health, chain, tried, booked, late>>
      /\ spend' \in {spend, AtMost(spend + Cost[booked[s]], Budget + 1)}
      /\ \E place \in {"charged", "over"} : stage' = [stage EXCEPT ![s] = place]
  BY DEF Charge, ChargeFails
<1>2. booked[s] \in Providers /\ booked[s] # NoProvider
  BY <1>1, Slot
<1>3. spend' \in 0 .. Budget + 1
  <2>1. spend \in 0 .. Budget + 1 /\ Cost[booked[s]] \in Nat /\ Budget \in Nat
    BY <1>2, Slot, AspConstants DEF HealthInv
  <2>2. QED
    BY <1>1, <2>1 DEF AtMost
<1>4. HealthInv' /\ Stay
  BY <1>1, <1>3, Slot DEF HealthInv, health, Stay
<1>5. PICK place \in {"charged", "over"} : stage' = [stage EXCEPT ![s] = place]
  BY <1>1
<1>6. place \in Stages \ {"fetching", "between"} /\ place \in {"charging", "charged", "over"}
  BY DEF Stages
<1>7. SlotOk(place, chain[s], booked[s], late[s], disabled')
  BY <1>2, <1>4, <1>6, Slot, RestOk
<1>8. /\ chain' = [chain EXCEPT ![s] = chain[s]] /\ chain[s] \in Seq(Providers)
      /\ booked' = [booked EXCEPT ![s] = booked[s]] /\ booked[s] \in Providers \cup {NoProvider}
      /\ late' = [late EXCEPT ![s] = late[s]] /\ late[s] \in [Providers -> 0 .. 2]
      /\ tried' \in [Slots -> SUBSET Providers]
  BY <1>1, Slot
<1>9. QED
  BY <1>4, <1>5, <1>6, <1>7, <1>8, SlotMoves

LEMMA FinishKeeps ==
  ASSUME AspInv, NEW s \in Slots, Finish(s)
  PROVE  AspInv' /\ Stay
<1>1. /\ Return(s) /\ UNCHANGED <<failures, cooling, spend, late>>
      /\ \/ disabled' = disabled
         \/ disabled' = [v \in Providers |-> IF v \in Paid THEN "daily_budget_exceeded" ELSE disabled[v]]
  BY DEF Finish
<1>2. disabled \in [Providers -> Reasons] /\ HealthInv
  BY Slot DEF HealthInv
<1>3. disabled' \in [Providers -> Reasons] /\ Stay
  BY <1>1, <1>2 DEF Reasons, Stay
<1>4. HealthInv'
  BY <1>1, <1>2, <1>3 DEF HealthInv
<1>5. QED
  BY <1>1, <1>3, <1>4, ReturnKeeps

\* Time passes, a day begins, or nothing happens at all.
LEMMA ClockKeeps ==
  ASSUME AspInv, UNCHANGED <<scrape, late, disabled>>, failures' = failures,
         \/ UNCHANGED <<cooling, spend>>
         \/ cooling' = [v \in Providers |-> IF cooling[v] > 0 THEN cooling[v] - 1 ELSE 0] /\ UNCHANGED spend
         \/ spend' = 0 /\ UNCHANGED cooling
  PROVE  AspInv' /\ Stay
<1>1. cooling \in [Providers -> 0 .. Cooldown] /\ Cooldown \in Nat /\ Budget \in Nat
  BY AspConstants DEF AspInv, HealthInv
<1>2. cooling' \in [Providers -> 0 .. Cooldown]
  BY <1>1
<1>3. HealthInv' /\ Stay
  BY <1>1, <1>2 DEF AspInv, HealthInv, Stay
<1>4. ScrapeInv' /\ SlotsOk'
  BY DEF AspInv, ScrapeInv, SlotsOk, scrape
<1>5. QED
  BY <1>3, <1>4 DEF AspInv

LEMMA AspStepKeeps == ASSUME AspInv, [AspNext]_aspVars PROVE AspInv' /\ Stay
<1>1. ASSUME NEW s \in Slots, Begin(s) PROVE AspInv' /\ Stay
  BY <1>1, BeginKeeps
<1>2. ASSUME NEW s \in Slots, NEW outcome \in Outcomes, FetchReply(s, outcome) PROVE AspInv' /\ Stay
  BY <1>2, FetchReplyKeeps
<1>3. ASSUME NEW s \in Slots, NextProvider(s) PROVE AspInv' /\ Stay
  BY <1>3, NextProviderKeeps
<1>4. ASSUME NEW s \in Slots,
             \/ FetchRaises(s)
             \/ \E retry \in BOOLEAN : LastResort(s, retry)
             \/ \E outcome \in Outcomes : RetryReply(s, outcome)
      PROVE  AspInv' /\ Stay
  BY <1>4, RetryKeeps
<1>5. ASSUME NEW s \in Slots, Charge(s) \/ ChargeFails(s) PROVE AspInv' /\ Stay
  BY <1>5, ChargeKeeps
<1>6. ASSUME NEW s \in Slots, Finish(s) PROVE AspInv' /\ Stay
  BY <1>6, FinishKeeps
<1>7. CASE Tick
  BY <1>7, ClockKeeps DEF Tick
<1>8. CASE NewDay
  BY <1>8, ClockKeeps DEF NewDay, health
<1>9. CASE UNCHANGED aspVars
  BY <1>9, ClockKeeps DEF aspVars, health
<1>10. QED
  BY <1>1, <1>2, <1>3, <1>4, <1>5, <1>6, <1>7, <1>8, <1>9 DEF AspNext

LEMMA AspInitHolds == ASSUME AspInit PROVE AspInv
<1>1. HealthInv /\ ScrapeInv
  BY AspConstants DEF AspInit, HealthInv, ScrapeInv, Reasons, Stages
<1>2. SlotsOk
  <2> SUFFICES ASSUME NEW s \in Slots PROVE SlotOk("idle", <<>>, NoProvider, late[s], disabled)
    BY DEF AspInit, SlotsOk
  <2>1. \A v \in Providers : late[s][v] = 0
    BY DEF AspInit
  <2>2. IsInjective(<<>>)
    BY DEF IsInjective
  <2>3. QED
    BY <2>1, <2>2 DEF SlotOk
<1>3. QED
  BY <1>1, <1>2 DEF AspInv

LEMMA AspInvariant == AspSpec => []AspInv
<1>1. ASSUME AspInv, [AspNext]_aspVars PROVE AspInv'
  BY <1>1, AspStepKeeps
<1>2. QED
  BY <1>1, AspInitHolds, PTL DEF AspSpec
-----------------------------------------------------------------------------
\* The health, the budget and the scrapes are what they should be; a scrape that
\* fetches has a provider left, and it charges one exactly while it is to pay.
THEOREM AspTypeCorrect == AspSpec => []AspTypeOK
<1>1. AspInv => AspTypeOK
  BY DEF AspInv, HealthInv, ScrapeInv, SlotsOk, SlotOk, AspTypeOK, Stages
<1>2. QED
  BY <1>1, AspInvariant, PTL

\* A provider that was suspended or is out of budget goes quiet although chains are built
\* once per scrape: no slot ever starts more than one fetch of it, for any order that names
\* no provider twice, any number of concurrent scrapes and any costs.
THEOREM DisabledProvidersGoQuiet == AspSpec => []DisabledGoesQuiet
<1>1. AspInv => DisabledGoesQuiet
  <2> SUFFICES ASSUME AspInv, NEW s \in Slots, NEW v \in Providers \ {Local} PROVE late[s][v] <= 1
    BY DEF DisabledGoesQuiet
  <2>1. late[s][v] # 0 => late[s][v] = 1
    BY DEF AspInv, SlotsOk, SlotOk
  <2>2. QED
    BY <2>1
<1>2. QED
  BY <1>1, AspInvariant, PTL

\* No success that comes in late, no charge, tick or new day makes a suspended provider
\* usable again.
THEOREM SuspendedForGood == AspSpec => SuspensionStays
<1>1. ASSUME AspInv, [AspNext]_aspVars
      PROVE  [\A v \in Providers :
                disabled[v] = "suspended_or_billing" => disabled'[v] # "none"]_aspVars
  <2>1. [\A v \in Providers : disabled[v] # "none" => disabled'[v] # "none"]_aspVars
    BY <1>1, AspStepKeeps DEF Stay
  <2>2. QED
    BY <2>1
<1>2. QED
  BY <1>1, AspInvariant, PTL DEF AspSpec, SuspensionStays
==============================================================================
