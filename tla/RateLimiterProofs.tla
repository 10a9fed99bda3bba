------------------------- MODULE RateLimiterProofs --------------------------
(***************************************************************************)
(* Proofs about RateLimiter, for any callers and domains, any settings and *)
(* any length of the sliding window.                                       *)
(***************************************************************************)
EXTENDS RateLimiter, FiniteSetTheorems, TLAPS

\* Nobody waits twice in a line q, or for another domain's lock, or for a lock he
\* holds, h being the holder.
InOrder(q, h, d) ==
  /\ h # Nobody => DomainOf[h] = d
  /\ \A i \in 1 .. Len(q) : DomainOf[q[i]] = d /\ q[i] # h
  /\ \A i, k \in 1 .. Len(q) : q[i] = q[k] => i = k

QueueInv == \A d \in Domains : InOrder(line[d], holder[d], d)

\* The sleep of a holder was computed from the last grant, which stays the last
\* one while he holds the lock.
SleepInv ==
  \A c \in Callers :
    /\ wake[c] # -1 <=> Holds(c)
    /\ wake[c] <= now + Delay(c)
    /\ Holds(c) => last[DomainOf[c]] + Delay(c) <= wake[c]

\* What the tables say of the grants.
TableInv ==
  \A d \in Domains :
    /\ last[d] <= now
    /\ \A g \in granted[d] : g.at <= last[d]
    /\ \A g \in granted[d] : now - Minute <= g.at => g.at \in window[d]
    /\ \A t \in window[d] : \E g \in granted[d] : g.at = t
    /\ IsFiniteSet(granted[d]) /\ IsFiniteSet(window[d])

IInv == TypeOK /\ QueueInv /\ SleepInv /\ TableInv /\ Spacing /\ WindowBound
-----------------------------------------------------------------------------
\* A delay and a limit are never 0.
LEMMA Settings ==
  \A c \in Callers :
    /\ DomainOf[c] \in Domains
    /\ Delay(c) \in Nat /\ Delay(c) > 0 /\ Rpm(c) \in Nat /\ Rpm(c) > 0
BY CallerAssumption DEF Delay, Rpm, OrDefault

\* The line after someone has left it.
LEMMA WithoutFacts ==
  ASSUME NEW S, NEW q \in Seq(S), NEW i \in DOMAIN q
  PROVE  /\ Without(q, i) \in Seq(S)
         /\ DOMAIN Without(q, i) = 1 .. Len(q) - 1
         /\ \A k \in 1 .. Len(q) - 1 :
              Without(q, i)[k] = IF k < i THEN q[k] ELSE q[k + 1]
<1>1. Len(q) \in Nat /\ DOMAIN q = 1 .. Len(q) /\ i \in 1 .. Len(q)
  OBVIOUS
<1>2. Len(q) - 1 \in Nat
  BY <1>1
<1>3. \A k \in 1 .. Len(q) - 1 : (IF k < i THEN q[k] ELSE q[k + 1]) \in S
  BY <1>1
<1>4. Without(q, i) \in [1 .. Len(q) - 1 -> S]
  BY <1>3 DEF Without
<1>5. QED
  BY <1>2, <1>4 DEF Without

LEMMA TypeStep == TypeOK /\ [Next]_vars => TypeOK'
<1> SUFFICES ASSUME TypeOK, [Next]_vars PROVE TypeOK'
  OBVIOUS
<1> USE Settings DEF TypeOK, table
<1>1. ASSUME NEW c \in Callers, Call(c) PROVE TypeOK'
  BY <1>1 DEF Call
<1>2. ASSUME NEW c \in Callers, Lock(c) PROVE TypeOK'
  <2>1. /\ now' = now /\ last' = last /\ window' = window /\ granted' = granted
        /\ line[DomainOf[c]] # <<>>
        /\ holder' = [holder EXCEPT ![DomainOf[c]] = c]
        /\ line' = [line EXCEPT ![DomainOf[c]] = Tail(@)]
        /\ \E t \in {last[DomainOf[c]] + Delay(c), now} : wake' = [wake EXCEPT ![c] = t]
    BY <1>2 DEF Lock
  <2>2. Tail(line[DomainOf[c]]) \in Seq(Callers)
    BY <2>1
  <2>3. \A t \in {last[DomainOf[c]] + Delay(c), now} : t \in Int
    OBVIOUS
  <2>4. wake' \in [Callers -> Int]
    BY <2>1, <2>3
  <2>5. line' \in [Domains -> Seq(Callers)]
    BY <2>1, <2>2
  <2>6. holder' \in [Domains -> Callers \cup {Nobody}]
    BY <2>1
  <2>7. QED
    BY <2>1, <2>4, <2>5, <2>6
<1>3. ASSUME NEW c \in Callers, Grant(c) PROVE TypeOK'
  <2>1. [at |-> now, by |-> c] \in GrantRecord
    BY DEF GrantRecord
  <2>2. Recent(DomainOf[c]) \cup {now} \in SUBSET Nat
    BY DEF Recent
  <2>3. QED
    BY <1>3, <2>1, <2>2 DEF Grant, Leave
<1>4. ASSUME NEW c \in Callers, Reject(c) PROVE TypeOK'
  BY <1>4 DEF Reject, Leave, Recent
<1>5. ASSUME NEW c \in Callers, Cancel(c) PROVE TypeOK'
  <2>1. CASE Holds(c) /\ Leave(c) /\ UNCHANGED <<now, line, table, granted>>
    BY <2>1 DEF Leave
  <2>2. CASE GiveUp(c) /\ UNCHANGED <<now, holder, wake, table, granted>>
    <3>1. PICK i \in DOMAIN line[DomainOf[c]] :
            line' = [line EXCEPT ![DomainOf[c]] = Without(line[DomainOf[c]], i)]
      BY <2>2 DEF GiveUp
    <3>2. Without(line[DomainOf[c]], i) \in Seq(Callers)
      BY WithoutFacts
    <3>3. QED
      BY <2>2, <3>1, <3>2
  <2>3. QED
    BY <1>5, <2>1, <2>2 DEF Cancel
<1>6. CASE Tick
  BY <1>6 DEF Tick
<1>7. CASE UNCHANGED vars
  BY <1>7 DEF vars
<1> QED
  BY <1>1, <1>2, <1>3, <1>4, <1>5, <1>6, <1>7 DEF Next

\* A line with one more at its end, with its first the holder, without someone,
\* and with the lock free.
LEMMA LineJoined ==
  ASSUME NEW q \in Seq(Callers), NEW h, NEW d, NEW c \in Callers, InOrder(q, h, d),
         DomainOf[c] = d, h # c, \A i \in 1 .. Len(q) : q[i] # c
  PROVE  InOrder(Append(q, c), h, d)
<1>1. /\ Len(Append(q, c)) = Len(q) + 1 /\ Len(q) \in Nat
      /\ \A i \in 1 .. Len(q) + 1 : Append(q, c)[i] = IF i = Len(q) + 1 THEN c ELSE q[i]
  OBVIOUS
<1>2. \A i \in 1 .. Len(q) + 1 : i = Len(q) + 1 \/ i \in 1 .. Len(q)
  BY <1>1
<1>3. QED
  BY <1>1, <1>2 DEF InOrder

LEMMA LineMoved ==
  ASSUME NEW q \in Seq(Callers), NEW d, InOrder(q, Nobody, d), q # <<>>
  PROVE  InOrder(Tail(q), Head(q), d)
<1>1. /\ Len(q) \in Nat /\ 1 \in 1 .. Len(q) /\ Head(q) = q[1] /\ Len(Tail(q)) = Len(q) - 1
      /\ \A i \in 1 .. Len(q) - 1 : Tail(q)[i] = q[i + 1]
  OBVIOUS
<1>2. \A i \in 1 .. Len(q) - 1 : i + 1 \in 1 .. Len(q) /\ i + 1 # 1
  BY <1>1
<1>3. \A i, k \in 1 .. Len(q) - 1 : i + 1 = k + 1 => i = k
  BY <1>1
<1>4. QED
  BY <1>1, <1>2, <1>3 DEF InOrder

LEMMA LineLeft ==
  ASSUME NEW q \in Seq(Callers), NEW h, NEW d, InOrder(q, h, d), NEW j \in DOMAIN q
  PROVE  InOrder(Without(q, j), h, d)
<1> DEFINE old(k) == IF k < j THEN k ELSE k + 1
<1>1. /\ Len(q) \in Nat /\ j \in 1 .. Len(q) /\ Len(Without(q, j)) = Len(q) - 1
      /\ \A k \in 1 .. Len(q) - 1 : Without(q, j)[k] = q[old(k)]
  BY WithoutFacts
<1>2. \A k \in 1 .. Len(q) - 1 : old(k) \in 1 .. Len(q)
  BY <1>1
<1>3. \A k, l \in 1 .. Len(q) - 1 : old(k) = old(l) => k = l
  BY <1>1
<1> HIDE DEF old
<1>4. QED
  BY <1>1, <1>2, <1>3 DEF InOrder

LEMMA LineFreed ==
  ASSUME NEW q \in Seq(Callers), NEW h, NEW d, InOrder(q, h, d)
  PROVE  InOrder(q, Nobody, d)
<1>1. \A i \in 1 .. Len(q) : q[i] \in Callers
  OBVIOUS
<1>2. QED
  BY <1>1, NobodyAssumption DEF InOrder

LEMMA QueueStep == TypeOK /\ QueueInv /\ [Next]_vars => QueueInv'
<1> SUFFICES ASSUME TypeOK, QueueInv, [Next]_vars, NEW d \in Domains
             PROVE  InOrder(line'[d], holder'[d], d)
  BY DEF QueueInv, InOrder
<1> USE Settings
<1>0. /\ InOrder(line[d], holder[d], d) /\ line[d] \in Seq(Callers)
      /\ line \in [Domains -> Seq(Callers)] /\ holder \in [Domains -> Callers \cup {Nobody}]
  BY DEF QueueInv, TypeOK
<1>1. ASSUME NEW c \in Callers, Call(c) PROVE InOrder(line'[d], holder'[d], d)
  <2>1. CASE d = DomainOf[c]
    <3>1. line'[d] = Append(line[d], c) /\ holder' = holder /\ holder[d] # c
      BY <1>1, <1>0, <2>1 DEF Call, Holds
    <3>2. \A i \in 1 .. Len(line[d]) : line[d][i] # c
      BY <1>1, <1>0, <2>1 DEF Call, Waits
    <3>3. QED
      BY <3>1, <3>2, <1>0, <2>1, LineJoined
  <2>2. CASE d # DomainOf[c]
    BY <1>1, <1>0, <2>2 DEF Call
  <2>3. QED
    BY <2>1, <2>2
<1>2. ASSUME NEW c \in Callers, Lock(c) PROVE InOrder(line'[d], holder'[d], d)
  <2>1. CASE d = DomainOf[c]
    <3>1. /\ line'[d] = Tail(line[d]) /\ holder'[d] = Head(line[d])
          /\ line[d] # <<>> /\ holder[d] = Nobody
      BY <1>2, <1>0, <2>1 DEF Lock
    <3>2. QED
      BY <3>1, <1>0, LineMoved
  <2>2. CASE d # DomainOf[c]
    BY <1>2, <1>0, <2>2 DEF Lock
  <2>3. QED
    BY <2>1, <2>2
<1>3. ASSUME NEW c \in Callers, Leave(c), UNCHANGED line
      PROVE  InOrder(line'[d], holder'[d], d)
  <2>1. line'[d] = line[d] /\ (holder'[d] = holder[d] \/ holder'[d] = Nobody)
    BY <1>3, <1>0 DEF Leave
  <2>2. QED
    BY <2>1, <1>0, LineFreed
<1>4. ASSUME NEW c \in Callers, GiveUp(c), UNCHANGED holder
      PROVE  InOrder(line'[d], holder'[d], d)
  <2>1. PICK j \in DOMAIN line[DomainOf[c]] :
          line' = [line EXCEPT ![DomainOf[c]] = Without(line[DomainOf[c]], j)]
    BY <1>4 DEF GiveUp
  <2>2. CASE d = DomainOf[c]
    <3>1. line'[d] = Without(line[d], j) /\ j \in DOMAIN line[d]
      BY <2>1, <2>2, <1>0
    <3>2. QED
      BY <3>1, <1>0, <1>4, LineLeft
  <2>3. CASE d # DomainOf[c]
    BY <2>1, <1>0, <1>4, <2>3
  <2>4. QED
    BY <2>2, <2>3
<1>5. CASE UNCHANGED <<holder, line>>
  BY <1>5, <1>0
<1> QED
  BY <1>1, <1>2, <1>3, <1>4, <1>5 DEF Next, Grant, Reject, Cancel, Tick, vars
-----------------------------------------------------------------------------
\* Whether or not there is anything left to sleep, the delay is over at the end of it.
LEMMA SleepsEnough ==
  ASSUME NEW delay \in Nat, NEW before \in Nat, NEW clock \in Nat, before <= clock,
         NEW until, until = IF clock - before < delay THEN before + delay ELSE clock
  PROVE  until # -1 /\ until <= clock + delay /\ before + delay <= until
<1>1. CASE clock - before < delay
  BY <1>1
<1>2. CASE clock - before >= delay
  BY <1>2
<1>3. QED
  BY <1>1, <1>2

\* Only the holder of a lock touches the table of its domain.
LEMMA SleepStep ==
  TypeOK /\ SleepInv /\ TableInv /\ [Next]_vars => SleepInv'
<1> SUFFICES ASSUME TypeOK, SleepInv, TableInv, [Next]_vars, NEW x \in Callers
             PROVE  /\ wake'[x] # -1 <=> holder'[DomainOf[x]] = x
                    /\ wake'[x] <= now' + Delay(x)
                    /\ holder'[DomainOf[x]] = x => last'[DomainOf[x]] + Delay(x) <= wake'[x]
  BY DEF SleepInv, Holds, Delay
<1> DEFINE Sleeps == /\ wake'[x] # -1 <=> holder'[DomainOf[x]] = x
                     /\ wake'[x] <= now' + Delay(x)
                     /\ holder'[DomainOf[x]] = x => last'[DomainOf[x]] + Delay(x) <= wake'[x]
<1> USE Settings, NobodyAssumption DEF TypeOK, table
<1>0. /\ DomainOf[x] \in Domains /\ Delay(x) \in Nat /\ Delay(x) > 0
      /\ now \in Nat /\ last[DomainOf[x]] \in Nat /\ wake[x] \in Int
      /\ last[DomainOf[x]] <= now
      /\ wake[x] # -1 <=> holder[DomainOf[x]] = x
      /\ wake[x] <= now + Delay(x)
      /\ holder[DomainOf[x]] = x => last[DomainOf[x]] + Delay(x) <= wake[x]
  BY DEF SleepInv, TableInv, Holds
<1>1. ASSUME NEW c \in Callers, Lock(c) PROVE Sleeps
  <2>1. CASE c = x
    <3>1. /\ wake'[x] = IF now - last[DomainOf[x]] < Delay(x) THEN last[DomainOf[x]] + Delay(x)
                       ELSE now
          /\ holder'[DomainOf[x]] = x /\ last' = last /\ now' = now
      BY <1>1, <1>0, <2>1 DEF Lock
    <3>2. /\ wake'[x] # -1 /\ wake'[x] <= now + Delay(x)
          /\ last[DomainOf[x]] + Delay(x) <= wake'[x]
      BY <3>1, <1>0, SleepsEnough
    <3>3. QED
      BY <3>1, <3>2
  <2>2. CASE c # x
    BY <1>1, <1>0, <2>2 DEF Lock
  <2>3. QED
    BY <2>1, <2>2
<1>2. ASSUME NEW c \in Callers, Holds(c), Leave(c), UNCHANGED now,
             last' = last \/ last' = [last EXCEPT ![DomainOf[c]] = now]
      PROVE  Sleeps
  <2>1. CASE c = x
    BY <1>2, <1>0, <2>1 DEF Leave
  <2>2. CASE c # x
    BY <1>2, <1>0, <2>2 DEF Leave, Holds
  <2>3. QED
    BY <2>1, <2>2
<1>3. CASE UNCHANGED <<holder, wake, last>> /\ now' \in {now, now + 1}
  BY <1>3, <1>0
<1>4. \A c \in Callers : Grant(c) \/ Reject(c) => Holds(c)
  BY DEF Grant, Reject, Awake
<1> QED
  BY <1>1, <1>2, <1>3, <1>4
     DEF Next, Call, Grant, Reject, Cancel, GiveUp, Tick, vars

\* The tables and the grants.
LEMMA TableStep ==
  TypeOK /\ SleepInv /\ TableInv /\ [Next]_vars => TableInv'
<1> SUFFICES ASSUME TypeOK, SleepInv, TableInv, [Next]_vars, NEW d \in Domains
             PROVE  /\ last'[d] <= now'
                    /\ \A g \in granted'[d] : g.at <= last'[d]
                    /\ \A g \in granted'[d] : now' - Minute <= g.at => g.at \in window'[d]
                    /\ \A t \in window'[d] : \E g \in granted'[d] : g.at = t
                    /\ IsFiniteSet(granted'[d]) /\ IsFiniteSet(window'[d])
  BY DEF TableInv
<1> DEFINE Kept == /\ last'[d] <= now'
                   /\ \A g \in granted'[d] : g.at <= last'[d]
                   /\ \A g \in granted'[d] : now' - Minute <= g.at => g.at \in window'[d]
                   /\ \A t \in window'[d] : \E g \in granted'[d] : g.at = t
                   /\ IsFiniteSet(granted'[d]) /\ IsFiniteSet(window'[d])
<1> USE Settings, TimeAssumption
<1>0. /\ now \in Nat /\ last[d] \in Nat /\ last[d] <= now
      /\ \A g \in granted[d] : g.at \in Int /\ g.at <= last[d]
      /\ \A g \in granted[d] : now - Minute <= g.at => g.at \in window[d]
      /\ \A t \in window[d] : t \in Nat /\ \E g \in granted[d] : g.at = t
      /\ IsFiniteSet(granted[d]) /\ IsFiniteSet(window[d])
  BY DEF TableInv, TypeOK, GrantRecord
<1>1. Recent(d) \subseteq window[d] /\ IsFiniteSet(Recent(d))
  BY <1>0, FS_Subset DEF Recent
<1>2. /\ last \in [Domains -> Nat] /\ window \in [Domains -> SUBSET Nat]
      /\ granted \in [Domains -> SUBSET GrantRecord]
  BY DEF TypeOK
<1>3. ASSUME NEW c \in Callers, Grant(c) PROVE Kept
  <2>1. CASE d = DomainOf[c]
    <3>1. /\ window'[d] = Recent(d) \cup {now} /\ last'[d] = now /\ now' = now
          /\ granted'[d] = granted[d] \cup {[at |-> now, by |-> c]}
      BY <1>3, <1>2, <2>1 DEF Grant
    <3>2. IsFiniteSet(Recent(d) \cup {now})
      BY <1>1, FS_AddElement
    <3>3. IsFiniteSet(granted[d] \cup {[at |-> now, by |-> c]})
      BY <1>0, FS_AddElement
    <3>4. /\ \A g \in granted'[d] : g.at <= now
          /\ \A g \in granted'[d] : now - Minute <= g.at => g.at \in window'[d]
      BY <3>1, <1>0 DEF Recent
    <3>5. ASSUME NEW t \in window'[d] PROVE \E g \in granted'[d] : g.at = t
      <4>1. CASE t = now
        <5>1. [at |-> now, by |-> c] \in granted'[d] /\ [at |-> now, by |-> c].at = t
          BY <3>1, <4>1
        <5>2. QED
          BY <5>1
      <4>2. CASE t # now
        BY <4>2, <3>1, <3>5, <1>0, <1>1
      <4>3. QED
        BY <4>1, <4>2
    <3>6. QED
      BY <3>1, <3>2, <3>3, <3>4, <3>5, <1>0
  <2>2. CASE d # DomainOf[c]
    BY <1>3, <1>2, <1>0, <2>2 DEF Grant
  <2>3. QED
    BY <2>1, <2>2
<1>4. ASSUME NEW c \in Callers, Reject(c) PROVE Kept
  <2>1. CASE d = DomainOf[c]
    <3>1. /\ window'[d] = Recent(d) /\ last' = last /\ now' = now /\ granted' = granted
      BY <1>4, <1>2, <2>1 DEF Reject
    <3>2. \A g \in granted[d] : now - Minute <= g.at => g.at \in Recent(d)
      BY <1>0 DEF Recent
    <3>3. QED
      BY <3>1, <3>2, <1>0, <1>1
  <2>2. CASE d # DomainOf[c]
    BY <1>4, <1>2, <1>0, <2>2 DEF Reject
  <2>3. QED
    BY <2>1, <2>2
<1>5. CASE UNCHANGED <<last, window, granted>> /\ now' \in {now, now + 1}
  <2>1. now' \in Nat /\ now <= now'
    BY <1>5, <1>0
  <2>2. \A g \in granted[d] : now' - Minute <= g.at => g.at \in window[d]
    BY <2>1, <1>0
  <2>3. QED
    BY <1>5, <2>1, <2>2, <1>0
<1> QED
  BY <1>3, <1>4, <1>5 DEF Next, Call, Lock, Cancel, Tick, vars, table

\* A grant comes no sooner after the last one than its delay.
LEMMA GrantLater ==
  ASSUME TypeOK, SleepInv, TableInv, NEW c \in Callers, Grant(c),
         NEW g \in granted[DomainOf[c]]
  PROVE  g.at \in Int /\ now - g.at >= Delay(c)
<1>1. Holds(c) /\ now >= wake[c]
  BY DEF Grant, Awake
<1>2. last[DomainOf[c]] + Delay(c) <= wake[c] /\ g.at <= last[DomainOf[c]]
  BY <1>1, Settings DEF SleepInv, TableInv
<1>3. /\ g.at \in Int /\ now \in Nat /\ wake[c] \in Int /\ last[DomainOf[c]] \in Nat
      /\ Delay(c) \in Nat
  BY Settings DEF TypeOK, GrantRecord
<1>4. QED
  BY <1>1, <1>2, <1>3

LEMMA SpacingStep ==
  TypeOK /\ SleepInv /\ TableInv /\ Spacing /\ [Next]_vars => Spacing'
<1> SUFFICES ASSUME TypeOK, SleepInv, TableInv, Spacing, [Next]_vars,
                    NEW d \in Domains, NEW g \in granted'[d], NEW h \in granted'[d],
                    g.at <= h.at, g # h
             PROVE  h.at - g.at >= Delay(h.by)
  BY DEF Spacing, Delay
<1>1. ASSUME g \in granted[d], h \in granted[d] PROVE h.at - g.at >= Delay(h.by)
  BY <1>1 DEF Spacing
<1>2. ASSUME NEW c \in Callers, Grant(c) PROVE h.at - g.at >= Delay(h.by)
  <2>1. CASE d = DomainOf[c]
    <3>1. granted'[d] = granted[d] \cup {[at |-> now, by |-> c]}
      BY <1>2, <2>1 DEF Grant, TypeOK
    <3>2. CASE h \notin granted[d]
      <4>1. h = [at |-> now, by |-> c] /\ g \in granted[d]
        BY <3>1, <3>2
      <4>2. QED
        BY <4>1, <1>2, <2>1, GrantLater
    <3>3. CASE g \notin granted[d]
      <4>1. g = [at |-> now, by |-> c] /\ h \in granted[d]
        BY <3>1, <3>3
      <4>2. h.at \in Int /\ now - h.at >= Delay(c) /\ Delay(c) > 0 /\ Delay(c) \in Nat
        BY <4>1, <1>2, <2>1, GrantLater, Settings
      <4>3. now \in Nat /\ now <= h.at
        BY <4>1 DEF TypeOK
      <4>4. QED
        BY <4>2, <4>3
    <3>4. QED
      BY <1>1, <3>2, <3>3
  <2>2. CASE d # DomainOf[c]
    BY <1>2, <1>1, <2>2 DEF Grant, TypeOK
  <2>3. QED
    BY <2>1, <2>2
<1>3. CASE UNCHANGED granted
  BY <1>3, <1>1
<1> QED
  BY <1>2, <1>3 DEF Next, Call, Lock, Reject, Cancel, Tick, vars, table

\* Distinct grants have distinct times, so the window counts them all.
LEMMA WindowStep ==
  TypeOK /\ SleepInv /\ TableInv /\ Spacing /\ WindowBound /\ [Next]_vars => WindowBound'
<1> DEFINE Last(S, g) == {h \in S : g.at - Minute <= h.at /\ h.at <= g.at}
<1> SUFFICES ASSUME TypeOK, SleepInv, TableInv, Spacing, WindowBound, [Next]_vars,
                    NEW d \in Domains, NEW g \in granted'[d]
             PROVE  Cardinality(Last(granted'[d], g)) <= Rpm(g.by)
  BY DEF WindowBound, Rpm
<1>1. ASSUME granted'[d] = granted[d] PROVE Cardinality(Last(granted'[d], g)) <= Rpm(g.by)
  BY <1>1 DEF WindowBound
<1>2. ASSUME NEW c \in Callers, Grant(c)
      PROVE  Cardinality(Last(granted'[d], g)) <= Rpm(g.by)
  <2>1. CASE d = DomainOf[c]
    <3> DEFINE new == [at |-> now, by |-> c]
    <3>1. /\ granted'[d] = granted[d] \cup {new}
          /\ Cardinality(Recent(d)) < Rpm(c)
          /\ Rpm(c) \in Nat
      BY <1>2, <2>1, Settings DEF Grant, TypeOK
    <3>2. /\ now \in Nat /\ Minute \in Nat
          /\ \A h \in granted[d] : h.at \in Int /\ h.at < now
      <4>1. \A h \in granted[d] : h.at \in Int /\ now - h.at >= Delay(c)
        BY <1>2, <2>1, GrantLater
      <4>2. QED
        BY <4>1, Settings, TimeAssumption DEF TypeOK
    <3>3. CASE g \in granted[d]
      <4>1. Last(granted'[d], g) = Last(granted[d], g)
        BY <3>1, <3>2, <3>3
      <4>2. QED
        BY <4>1, <3>3 DEF WindowBound
    <3>4. CASE g = new
      <4> DEFINE W == Last(granted'[d], g)
      <4> DEFINE T == Recent(d) \cup {now}
      <4> DEFINE f == [h \in W |-> h.at]
      <4>1. \A h \in W : h = new \/ (h \in granted[d] /\ now - Minute <= h.at)
        BY <3>1, <3>4
      <4>2. \A h \in W : h.at \in T
        BY <4>1, <3>2 DEF Recent, TableInv
      <4>3. \A h, k \in W : h.at = k.at => h = k
        <5>1. SUFFICES ASSUME NEW h \in W, NEW k \in W, h.at = k.at, h # k PROVE FALSE
          OBVIOUS
        <5>2. h \in granted[d] /\ k \in granted[d]
          BY <5>1, <4>1, <3>2
        <5>3. k.at - h.at >= Delay(k.by) /\ k.by \in Callers
          BY <5>1, <5>2, <3>2 DEF Spacing, TypeOK, GrantRecord
        <5>4. QED
          BY <5>1, <5>2, <5>3, <3>2, Settings
      <4>4. f \in Injection(W, T)
        BY <4>2, <4>3 DEF Injection, IsInjective
      <4>5. IsFiniteSet(Recent(d))
        BY FS_Subset DEF TableInv, Recent
      <4>6. /\ IsFiniteSet(T) /\ Cardinality(Recent(d)) \in Nat
            /\ Cardinality(T) \in {Cardinality(Recent(d)), Cardinality(Recent(d)) + 1}
        BY <4>5, FS_AddElement, FS_CardinalityType
      <4>7. Cardinality(W) <= Cardinality(T) /\ Cardinality(W) \in Nat
        BY <4>4, <4>6, FS_Injection, FS_CardinalityType
      <4>8. Cardinality(W) <= Rpm(c)
        BY <4>6, <4>7, <3>1
      <4>9. QED
        BY <4>8, <3>4
    <3>5. QED
      BY <3>1, <3>3, <3>4
  <2>2. CASE d # DomainOf[c]
    BY <1>2, <1>1, <2>2 DEF Grant, TypeOK
  <2>3. QED
    BY <2>1, <2>2
<1>3. CASE UNCHANGED granted
  BY <1>3, <1>1
<1> QED
  BY <1>2, <1>3 DEF Next, Call, Lock, Reject, Cancel, Tick, vars, table
-----------------------------------------------------------------------------
LEMMA InitInv == Init => IInv
<1> SUFFICES ASSUME Init PROVE IInv
  OBVIOUS
<1> USE Settings, NobodyAssumption, TimeAssumption DEF Init
<1>1. TypeOK
  BY DEF TypeOK
<1>2. QueueInv
  BY DEF QueueInv, InOrder
<1>3. SleepInv
  BY DEF SleepInv, Holds
<1>4. TableInv
  BY FS_EmptySet DEF TableInv
<1>5. Spacing /\ WindowBound
  BY DEF Spacing, WindowBound
<1> QED
  BY <1>1, <1>2, <1>3, <1>4, <1>5 DEF IInv

\* The inductive invariant of the limiter.
THEOREM Invariance == Spec => []IInv
<1>1. IInv /\ [Next]_vars => IInv'
  BY TypeStep, QueueStep, SleepStep, TableStep, SpacingStep, WindowStep DEF IInv
<1> QED
  BY <1>1, InitInv, PTL DEF Spec

\* TypeOK: the lock, its line, the sleeps and the tables keep their types.
THEOREM TypeCorrect == Spec => []TypeOK
<1>1. IInv => TypeOK
  BY DEF IInv
<1> QED
  BY <1>1, Invariance, PTL

\* Spacing: whoever asks and is cancelled, no grant of a domain comes sooner after
\* another than the delay of the source it is for.
THEOREM DelayKept == Spec => []Spacing
<1>1. IInv => Spacing
  BY DEF IInv
<1> QED
  BY <1>1, Invariance, PTL

\* WindowBound: no minute that ends with a grant holds more grants than the source
\* of that grant allows, at any length of the minute and any limits.
THEOREM LimitKept == Spec => []WindowBound
<1>1. IInv => WindowBound
  BY DEF IInv
<1> QED
  BY <1>1, Invariance, PTL

\* SleepBounded: only the holder sleeps, for his delay at most, and nobody waits
\* for a lock he holds: the limiter does not lock itself.
THEOREM NoSelfLock == Spec => []SleepBounded
<1>1. IInv => SleepBounded
  <2>1. SUFFICES ASSUME IInv, NEW c \in Callers, Holds(c), Waits(c) PROVE FALSE
    BY DEF IInv, SleepBounded, SleepInv
  <2>2. PICK i \in DOMAIN line[DomainOf[c]] : line[DomainOf[c]][i] = c
    BY <2>1 DEF Waits
  <2>3. line[DomainOf[c]] \in Seq(Callers) /\ InOrder(line[DomainOf[c]], c, DomainOf[c])
    BY <2>1, Settings DEF IInv, TypeOK, QueueInv, Holds
  <2>4. i \in 1 .. Len(line[DomainOf[c]])
    BY <2>2, <2>3
  <2>5. QED
    BY <2>2, <2>3, <2>4 DEF InOrder
<1> QED
  BY <1>1, Invariance, PTL

\* The table, pruned, holds as many times as there are grants in the last minute:
\* none is missing, and no two grants came at one time.
LEMMA TableCounts ==
  ASSUME TypeOK, TableInv, Spacing, NEW d \in Domains
  PROVE  Cardinality(Recent(d)) = Cardinality({g \in granted[d] : g.at >= now - Minute})
<1> DEFINE W == {g \in granted[d] : g.at >= now - Minute}
           f == [g \in W |-> g.at]
<1>1. /\ IsFiniteSet(granted[d]) /\ now \in Nat /\ Minute \in Nat
      /\ \A g \in granted[d] : g.at \in Int /\ g.by \in Callers
      /\ \A g \in granted[d] : now - Minute <= g.at => g.at \in window[d]
      /\ \A t \in window[d] : t \in Nat /\ \E g \in granted[d] : g.at = t
  BY TimeAssumption DEF TableInv, TypeOK, GrantRecord
<1>2. \A g \in W : g.at \in Recent(d)
  BY <1>1 DEF Recent
<1>3. \A t \in Recent(d) : \E g \in W : g.at = t
  BY <1>1 DEF Recent
<1>4. ASSUME NEW g \in W, NEW h \in W, g.at = h.at PROVE g = h
  <2>1. SUFFICES ASSUME g # h PROVE FALSE
    OBVIOUS
  <2>2. h.at - g.at >= Delay(h.by) /\ h.by \in Callers /\ g.at \in Int /\ h.at \in Int
    BY <1>1, <1>4, <2>1 DEF Spacing
  <2>3. Delay(h.by) \in Nat /\ Delay(h.by) > 0
    BY <2>2, Settings
  <2>4. QED
    BY <1>4, <2>2, <2>3
<1>5. f \in Surjection(W, Recent(d)) /\ f \in Injection(W, Recent(d))
  BY <1>2, <1>3, <1>4 DEF Surjection, Injection, IsInjective
<1>6. IsFiniteSet(W)
  BY <1>1, FS_Subset
<1>7. IsFiniteSet(Recent(d)) /\ Cardinality(Recent(d)) <= Cardinality(W)
  BY <1>5, <1>6, FS_Surjection
<1>8. Cardinality(W) <= Cardinality(Recent(d))
  BY <1>5, <1>7, FS_Injection
<1>9. Cardinality(Recent(d)) \in Nat /\ Cardinality(W) \in Nat
  BY <1>6, <1>7, FS_CardinalityType
<1>10. QED
  BY <1>7, <1>8, <1>9

\* RejectionsJustified: a call is turned away only after as many grants in the last
\* minute as its source allows.
THEOREM RejectedForGrants == Spec => RejectionsJustified
<1>1. ASSUME IInv, NEW c \in Callers, Reject(c)
      PROVE  Cardinality({g \in granted[DomainOf[c]] : g.at >= now - Minute}) >= Rpm(c)
  <2>1. Cardinality(Recent(DomainOf[c])) >= Rpm(c)
    BY <1>1 DEF Reject
  <2>2. QED
    BY <1>1, <2>1, Settings, TableCounts DEF IInv
<1>2. IInv /\ [Next]_vars =>
        [\A c \in Callers :
           Reject(c) => Cardinality({g \in granted[DomainOf[c]] : g.at >= now - Minute})
                          >= Rpm(c)]_vars
  BY <1>1
<1> QED
  BY <1>2, Invariance, PTL DEF Spec, RejectionsJustified
-----------------------------------------------------------------------------
(***************************************************************************)
(* The limiter implements DomainLimiter.                                   *)
(***************************************************************************)
\* Limiter counts as we do.
LEMMA OneCount == ASSUME NEW S PROVE Limiter!Cardinality(S) = Cardinality(S)
BY DEF Cardinality, Limiter!Cardinality

LEMMA GrantRefines ==
  ASSUME IInv, NEW c \in Callers, Grant(c) PROVE Limiter!Grant(c)
<1> DEFINE d == DomainOf[c]
<1>1. d \in Domains
  BY Settings
<1>2. \A g \in granted[d] : now - g.at >= Delay(c)
  BY GrantLater DEF IInv
<1>3. Limiter!Cardinality(Limiter!LastMinute(d)) < Rpm(c)
  <2>1. Cardinality(Recent(d)) < Rpm(c)
    BY DEF Grant
  <2>2. QED
    BY <1>1, <2>1, OneCount, TableCounts DEF IInv, Limiter!LastMinute
<1>4. /\ granted' = [granted EXCEPT ![d] = @ \cup {[at |-> now, by |-> c]}]
      /\ now' = now
  BY DEF Grant
<1>5. QED
  BY <1>2, <1>3, <1>4 DEF Limiter!Grant

LEMMA StepRefines == IInv /\ [Next]_vars => [Limiter!Next]_Limiter!vars
<1> SUFFICES ASSUME IInv, [Next]_vars PROVE [Limiter!Next]_Limiter!vars
  OBVIOUS
<1>1. ASSUME NEW c \in Callers, Grant(c) PROVE Limiter!Next
  BY <1>1, GrantRefines DEF Limiter!Next
<1>2. CASE Tick
  BY <1>2 DEF Tick, Limiter!Next, Limiter!Tick
<1>3. CASE UNCHANGED <<now, granted>>
  BY <1>3 DEF Limiter!vars
<1>4. QED
  BY <1>1, <1>2, <1>3 DEF Next, Call, Lock, Reject, Cancel, vars, table

\* ImplementsLimiter: whoever queues and is cancelled, each grant keeps its source's
\* delay to all earlier ones and its limit in the last minute, for any settings.
THEOREM Refinement == Spec => ImplementsLimiter
<1>1. Init => Limiter!Init
  BY DEF Init, Limiter!Init
<1>2. QED
  BY <1>1, Invariance, StepRefines, PTL DEF Spec, Limiter!Spec, ImplementsLimiter
=============================================================================
