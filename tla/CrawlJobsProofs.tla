--------------------------- MODULE CrawlJobsProofs --------------------------
(***************************************************************************)
(* Proofs about CrawlJobs, for any number of jobs, workers and permits and *)
(* any time to live.                                                       *)
(***************************************************************************)
EXTENDS CrawlJobs, FiniteSetTheorems, TLAPS

\* The two keys of a job.  The last conjunct is the argument about expiry:
\* a STATUS key that lags behind the outcome is never outlived by RESULT's
\* absence, because RESULT was written later with the same time to live.
KeyInv(j) ==
  /\ status[j].doc = "absent" <=> status[j].ttl = 0
  /\ result[j].doc = "absent" <=> result[j].ttl = 0
  /\ result[j].doc # "absent" => result[j].doc \in Terminal /\ result[j].doc = reached[j]
  /\ status[j].doc \notin {"absent", reached[j]} =>
       /\ status[j].doc = "running"
       /\ reached[j] \in Terminal
       /\ status[j].ttl <= result[j].ttl

\* The furthest document tells where the job is.
ProgressInv(j) ==
  /\ api[j] = "new" <=> reached[j] = "absent"
  /\ api[j] \in {"new", "marked"} => ~Queued(j) /\ ~InHand(j) /\ ~InTask(j)
  /\ api[j] = "marked" => reached[j] = "queued"
  /\ Queued(j) => reached[j] = "queued"
  /\ InHand(j) => reached[j] = "queued"
  /\ \A w \in Workers :
       /\ task[w][j] \in {"waiting", "running"} => reached[j] = "running"
       /\ task[w][j] \in Terminal => reached[j] = task[w][j]

\* What the client was told; the last conjunct covers the moment between the
\* two reads of get_job.
ClientInv(j) ==
  /\ Precedes(seen[j], reached[j])
  /\ poll[j] = "status" /\ seen[j] \in Terminal => status[j].doc \in {"absent", reached[j]}

IInv == /\ TypeOK
        /\ DeliveredOnce
        /\ Accounted
        /\ \A j \in Jobs : KeyInv(j) /\ ProgressInv(j) /\ ClientInv(j)
-----------------------------------------------------------------------------
\* What SETEX and the expiry clock make of a key.
LEMMA KeyFacts ==
  /\ Absent \in Key
  /\ \A doc \in Docs : Setex(doc) \in Key
  /\ \A key \in Key :
       /\ Aged(key) \in Key
       /\ key.ttl <= 1 => Aged(key) = Absent
       /\ key.ttl > 1  => Aged(key).doc = key.doc /\ Aged(key).ttl = key.ttl - 1
<1>1. TTL \in Nat /\ TTL > 0
  BY TTLAssumption
<1>2. Absent \in Key
  BY <1>1 DEF Absent, Key
<1>3. \A doc \in Docs : Setex(doc) \in Key
  BY <1>1 DEF Setex, Key
<1>4. ASSUME NEW key \in Key
      PROVE  /\ Aged(key) \in Key
             /\ key.ttl <= 1 => Aged(key) = Absent
             /\ key.ttl > 1  => Aged(key).doc = key.doc /\ Aged(key).ttl = key.ttl - 1
  <2>1. key.ttl \in 0 .. TTL /\ key.doc \in Docs \cup {"absent"}
    BY DEF Key
  <2>2. CASE key.ttl <= 1
    BY <2>2, <2>1, <1>2 DEF Aged
  <2>3. CASE key.ttl > 1
    <3>1. Aged(key) = [key EXCEPT !.ttl = key.ttl - 1]
      BY <2>3, <2>1, <1>1 DEF Aged
    <3>2. key.ttl - 1 \in 0 .. TTL
      BY <2>3, <2>1, <1>1
    <3>3. QED
      BY <3>1, <3>2, <2>1, <2>3, <1>1 DEF Key
  <2>4. QED
    BY <2>2, <2>3, <2>1, <1>1
<1>5. QED
  BY <1>2, <1>3, <1>4

LEMMA TypeStep == TypeOK /\ [Next]_vars => TypeOK'
<1> SUFFICES ASSUME TypeOK, [Next]_vars PROVE TypeOK'
  OBVIOUS
<1> USE TTLAssumption DEF TypeOK, Docs, Terminal, TaskStage, HasPermit
<1>k. /\ Absent \in Key
      /\ \A doc \in Docs : Setex(doc) \in Key
      /\ \A key \in Key : Aged(key) \in Key
  BY KeyFacts
<1>s. \A raw : StoredStatus(raw) \in Terminal
  BY DEF StoredStatus
<1>1. ASSUME NEW j \in Jobs, EnqueueMark(j) PROVE TypeOK'
  BY <1>1, <1>k DEF EnqueueMark, workers, client
<1>2. ASSUME NEW j \in Jobs, EnqueuePush(j) PROVE TypeOK'
  BY <1>2 DEF EnqueuePush, workers, client, history
<1>3. ASSUME NEW j \in Jobs, EnqueueReply(j) \/ EnqueueFault(j) PROVE TypeOK'
  BY <1>3 DEF EnqueueReply, EnqueueFault, redis, workers, client, history
<1>4. ASSUME NEW j \in Jobs, PollResult(j) PROVE TypeOK'
  BY <1>4 DEF PollResult, Key, redis, workers, history
<1>5. ASSUME NEW j \in Jobs, PollStatus(j) PROVE TypeOK'
  BY <1>5 DEF PollStatus, Key, redis, workers, history
<1>6. ASSUME NEW w \in Workers, Pop(w) PROVE TypeOK'
  BY <1>6 DEF Pop, client, history
<1>7. ASSUME NEW w \in Workers, MarkRunning(w) PROVE TypeOK'
  BY <1>7, <1>k DEF MarkRunning, client
<1>8. ASSUME NEW w \in Workers, WorkerCrash(w) PROVE TypeOK'
  BY <1>8 DEF WorkerCrash, Unfinished, redis, client
<1>9. ASSUME NEW w \in Workers, NEW j \in Jobs, Start(w, j) PROVE TypeOK'
  BY <1>9 DEF Start, redis, client, history
<1>10. ASSUME NEW w \in Workers, NEW j \in Jobs, NEW raw \in RawStatus,
              StoreResult(w, j, raw)
       PROVE  TypeOK'
  BY <1>10, <1>k, <1>s DEF StoreResult, client
<1>11. ASSUME NEW w \in Workers, NEW j \in Jobs, StoreStatus(w, j) PROVE TypeOK'
  BY <1>11, <1>k DEF StoreStatus, client, history
<1>12. ASSUME NEW w \in Workers, NEW j \in Jobs, StoreFault(w, j) PROVE TypeOK'
  BY <1>12 DEF StoreFault, redis, client
<1>13. CASE Tick
  BY <1>13, <1>k DEF Tick, workers, client, history
<1>14. CASE UNCHANGED vars
  BY <1>14 DEF vars, redis, workers, client, history
<1> QED
  BY <1>1, <1>2, <1>3, <1>4, <1>5, <1>6, <1>7, <1>8, <1>9, <1>10, <1>11, <1>12,
     <1>13, <1>14 DEF Next
-----------------------------------------------------------------------------
\* The list a push and a pop leave.
LEMMA AppendFacts ==
  ASSUME NEW S, NEW q \in Seq(S), NEW x \in S
  PROVE  /\ DOMAIN Append(q, x) = 1 .. Len(q) + 1
         /\ \A i \in 1 .. Len(q) : Append(q, x)[i] = q[i]
         /\ Append(q, x)[Len(q) + 1] = x
  OBVIOUS

LEMMA TailFacts ==
  ASSUME NEW S, NEW q \in Seq(S), q # <<>>
  PROVE  /\ Len(q) \in Nat /\ Len(q) > 0
         /\ DOMAIN q = 1 .. Len(q)
         /\ Head(q) = q[1] /\ Head(q) \in S
         /\ DOMAIN Tail(q) = 1 .. Len(q) - 1
         /\ \A i \in 1 .. Len(q) - 1 : Tail(q)[i] = q[i + 1]
  OBVIOUS

\* Who is in the list after a push and after a pop.
LEMMA PushQueued ==
  ASSUME TypeOK, NEW j \in Jobs, EnqueuePush(j)
  PROVE  \A k \in Jobs : Queued(k)' <=> (Queued(k) \/ k = j)
<1>1. queue \in Seq(Jobs) /\ queue' = Append(queue, j)
  BY DEF TypeOK, EnqueuePush
<1>2. DOMAIN queue = 1 .. Len(queue) /\ Len(queue) \in Nat
  BY <1>1
<1>3. /\ DOMAIN queue' = 1 .. Len(queue) + 1
      /\ \A i \in 1 .. Len(queue) : queue'[i] = queue[i]
      /\ queue'[Len(queue) + 1] = j
  BY <1>1, AppendFacts
<1>4. QED
  BY <1>2, <1>3 DEF Queued

LEMMA PopQueued ==
  ASSUME TypeOK, DeliveredOnce, NEW w \in Workers, Pop(w)
  PROVE  /\ Head(queue) \in Jobs /\ Queued(Head(queue))
         /\ \A k \in Jobs : Queued(k)' <=> (Queued(k) /\ k # Head(queue))
         /\ \A i, k \in DOMAIN queue' : queue'[i] = queue'[k] => i = k
<1>1. queue \in Seq(Jobs) /\ queue # <<>> /\ queue' = Tail(queue)
  BY DEF TypeOK, Pop
<1>2. /\ Len(queue) \in Nat /\ Len(queue) > 0
      /\ DOMAIN queue = 1 .. Len(queue)
      /\ Head(queue) = queue[1] /\ Head(queue) \in Jobs
      /\ DOMAIN queue' = 1 .. Len(queue) - 1
      /\ \A i \in 1 .. Len(queue) - 1 : queue'[i] = queue[i + 1]
  BY <1>1, TailFacts
<1>3. \A i, k \in DOMAIN queue : queue[i] = queue[k] => i = k
  BY DEF DeliveredOnce
<1>4. Queued(Head(queue))
  BY <1>2 DEF Queued
<1>5. ASSUME NEW k \in Jobs PROVE Queued(k)' <=> (Queued(k) /\ k # Head(queue))
  <2>1. ASSUME Queued(k)' PROVE Queued(k) /\ k # Head(queue)
    <3>1. PICK i \in DOMAIN queue' : queue'[i] = k
      BY <2>1 DEF Queued
    <3>2. i + 1 \in DOMAIN queue /\ queue[i + 1] = k /\ 1 \in DOMAIN queue /\ i + 1 # 1
      BY <3>1, <1>2
    <3>3. QED
      BY <3>2, <1>2, <1>3 DEF Queued
  <2>2. ASSUME Queued(k), k # Head(queue) PROVE Queued(k)'
    <3>1. PICK i \in DOMAIN queue : queue[i] = k
      BY <2>2 DEF Queued
    <3>2. i - 1 \in DOMAIN queue' /\ queue'[i - 1] = k
      BY <3>1, <2>2, <1>2
    <3>3. QED
      BY <3>2 DEF Queued
  <2>3. QED
    BY <2>1, <2>2
<1>6. \A i, k \in DOMAIN queue' : queue'[i] = queue'[k] => i = k
  <2>1. \A i \in DOMAIN queue' : i \in Nat /\ i + 1 \in DOMAIN queue /\ queue'[i] = queue[i + 1]
    BY <1>2
  <2>2. QED
    BY <2>1, <1>3
<1>7. QED
  BY <1>2, <1>4, <1>5, <1>6
-----------------------------------------------------------------------------
(***************************************************************************)
(* BRPOP's at-most-once delivery is kept by every step.                    *)
(***************************************************************************)
LEMMA DeliveryStep ==
  ASSUME TypeOK, DeliveredOnce, \A j \in Jobs : ProgressInv(j), [Next]_vars
  PROVE  DeliveredOnce'
<1> USE DEF HasPermit, Terminal
<1>n. NoJob \notin Jobs
  BY NoJobAssumption
<1>t. /\ hand \in [Workers -> Jobs \cup {NoJob}]
      /\ task \in [Workers -> [Jobs -> TaskStage]]
  BY DEF TypeOK
<1>0. ASSUME UNCHANGED <<queue, hand, task>> PROVE DeliveredOnce'
  BY <1>0 DEF DeliveredOnce, Queued, InHand, InTask
<1>1. ASSUME NEW j \in Jobs, EnqueuePush(j) PROVE DeliveredOnce'
  <2>1. UNCHANGED <<hand, task>> /\ api[j] = "marked"
    BY <1>1 DEF EnqueuePush, workers
  <2>2. ~Queued(j) /\ ~InHand(j) /\ ~InTask(j)
    BY <2>1 DEF ProgressInv
  <2>3. \A k \in Jobs : Queued(k)' <=> (Queued(k) \/ k = j)
    BY <1>1, PushQueued
  <2>4. \A i, k \in DOMAIN queue' : queue'[i] = queue'[k] => i = k
    <3>1. queue \in Seq(Jobs) /\ queue' = Append(queue, j)
      BY <1>1 DEF TypeOK, EnqueuePush
    <3>2. /\ DOMAIN queue = 1 .. Len(queue) /\ Len(queue) \in Nat
          /\ DOMAIN queue' = 1 .. Len(queue) + 1
          /\ \A i \in 1 .. Len(queue) : queue'[i] = queue[i]
          /\ queue'[Len(queue) + 1] = j
      BY <3>1, AppendFacts
    <3>3. \A i \in DOMAIN queue : queue[i] # j
      BY <2>2 DEF Queued
    <3>4. \A i, k \in DOMAIN queue : queue[i] = queue[k] => i = k
      BY DEF DeliveredOnce
    <3>5. QED
      BY <3>2, <3>3, <3>4
  <2>5. QED
    BY <2>1, <2>2, <2>3, <2>4 DEF DeliveredOnce, InHand, InTask
<1>2. ASSUME NEW w \in Workers, Pop(w) PROVE DeliveredOnce'
  <2> DEFINE h == Head(queue)
  <2>1. UNCHANGED task /\ hand' = [hand EXCEPT ![w] = h] /\ hand[w] = NoJob
    BY <1>2 DEF Pop
  <2>2. /\ h \in Jobs /\ Queued(h)
        /\ \A k \in Jobs : Queued(k)' <=> (Queued(k) /\ k # h)
        /\ \A i, k \in DOMAIN queue' : queue'[i] = queue'[k] => i = k
    BY <1>2, PopQueued
  <2>3. ~InHand(h) /\ ~InTask(h)
    BY <2>2 DEF DeliveredOnce
  <2>4. \A k \in Jobs : InHand(k)' <=> (InHand(k) \/ k = h)
    BY <2>1, <1>n, <1>t DEF InHand
  <2>5. \A k \in Jobs : InTask(k)' <=> InTask(k)
    BY <2>1 DEF InTask
  <2>6. \A u, v \in Workers : hand'[u] = hand'[v] /\ hand'[u] # NoJob => u = v
    BY <2>1, <2>3, <1>t DEF DeliveredOnce, InHand
  <2> HIDE DEF h
  <2>7. QED
    BY <2>1, <2>2, <2>3, <2>4, <2>5, <2>6 DEF DeliveredOnce
<1>3. ASSUME NEW w \in Workers, MarkRunning(w) PROVE DeliveredOnce'
  <2> DEFINE h == hand[w]
  <2>1. /\ UNCHANGED queue /\ h \in Jobs
        /\ hand' = [hand EXCEPT ![w] = NoJob]
        /\ task' = [task EXCEPT ![w][h] = "waiting"]
    BY <1>3, <1>t DEF MarkRunning
  <2>2. InHand(h) /\ ~InTask(h) /\ ~Queued(h)
    BY <2>1 DEF InHand, DeliveredOnce
  <2>3. \A k \in Jobs : InHand(k)' <=> (InHand(k) /\ k # h)
    BY <2>1, <1>n, <1>t DEF InHand, DeliveredOnce
  <2>4. \A v \in Workers, k \in Jobs :
          task'[v][k] # "none" <=> (task[v][k] # "none" \/ (v = w /\ k = h))
    BY <2>1, <1>t
  <2>5. \A u, v \in Workers : hand'[u] = hand'[v] /\ hand'[u] # NoJob => u = v
    BY <2>1, <1>t DEF DeliveredOnce
  <2>6. \A k \in Jobs : Queued(k)' <=> Queued(k)
    BY <2>1 DEF Queued
  <2>7. \A u, v \in Workers, k \in Jobs :
          task'[u][k] # "none" /\ task'[v][k] # "none" => u = v
    BY <2>4, <2>2 DEF DeliveredOnce, InTask
  <2>8. \A k \in Jobs : InTask(k)' <=> (InTask(k) \/ k = h)
    BY <2>4 DEF InTask
  <2>9. \A i, k \in DOMAIN queue' : queue'[i] = queue'[k] => i = k
    BY <2>1 DEF DeliveredOnce
  <2> HIDE DEF h
  <2>10. QED
    BY <2>2, <2>3, <2>5, <2>6, <2>7, <2>8, <2>9 DEF DeliveredOnce
<1>4. ASSUME UNCHANGED queue,
             \A v \in Workers : hand'[v] \in {hand[v], NoJob},
             \A v \in Workers, k \in Jobs : task'[v][k] # "none" => task[v][k] # "none"
      PROVE  DeliveredOnce'
  <2>1. \A k \in Jobs :
          /\ Queued(k)' <=> Queued(k)
          /\ InHand(k)' => InHand(k)
          /\ InTask(k)' => InTask(k)
    BY <1>4, <1>n DEF Queued, InHand, InTask
  <2>2. QED
    BY <2>1, <1>4, <1>n DEF DeliveredOnce
<1>5. ASSUME NEW w \in Workers, WorkerCrash(w) PROVE DeliveredOnce'
  BY <1>5, <1>4, <1>t DEF WorkerCrash, redis
<1>6. ASSUME NEW w \in Workers, NEW j \in Jobs,
             Start(w, j) \/ StoreStatus(w, j) \/ StoreFault(w, j)
             \/ \E raw \in RawStatus : StoreResult(w, j, raw)
      PROVE  DeliveredOnce'
  <2>1. UNCHANGED <<queue, hand>> /\ task[w][j] # "none"
    BY <1>6 DEF Start, StoreStatus, StoreFault, StoreResult, redis
  <2>2. \E st : task' = [task EXCEPT ![w][j] = st]
    BY <1>6 DEF Start, StoreStatus, StoreFault, StoreResult
  <2>3. \A v \in Workers, k \in Jobs : task'[v][k] # "none" => task[v][k] # "none"
    BY <2>1, <2>2, <1>t
  <2>4. QED
    BY <2>1, <2>3, <1>4, <1>t
<1>7. CASE Tick \/ UNCHANGED vars
  BY <1>7, <1>0 DEF Tick, vars, redis, workers
<1>8. ASSUME NEW j \in Jobs,
             \/ EnqueueMark(j) \/ EnqueueReply(j) \/ EnqueueFault(j)
             \/ PollResult(j) \/ PollStatus(j)
      PROVE  DeliveredOnce'
  BY <1>8, <1>0 DEF EnqueueMark, EnqueueReply, EnqueueFault, PollResult, PollStatus,
                    redis, workers
<1> QED
  BY <1>1, <1>2, <1>3, <1>5, <1>6, <1>7, <1>8 DEF Next
-----------------------------------------------------------------------------
(***************************************************************************)
(* The furthest document follows the job through every step.               *)
(***************************************************************************)
LEMMA ProgressStep ==
  ASSUME TypeOK, DeliveredOnce, \A j \in Jobs : ProgressInv(j), [Next]_vars,
         NEW k \in Jobs
  PROVE  ProgressInv(k)'
<1> USE DEF HasPermit, Terminal
<1>n. NoJob \notin Jobs
  BY NoJobAssumption
<1>t. /\ api \in [Jobs -> {"new", "marked", "pushed", "accepted", "failed"}]
      /\ hand \in [Workers -> Jobs \cup {NoJob}]
      /\ task \in [Workers -> [Jobs -> TaskStage]]
      /\ reached \in [Jobs -> Docs \cup {"absent"}]
  BY DEF TypeOK
<1>p. ProgressInv(k)
  OBVIOUS
<1>0. ASSUME UNCHANGED <<api, queue, hand, task, reached>> PROVE ProgressInv(k)'
  BY <1>0, <1>p DEF ProgressInv, Queued, InHand, InTask
<1>1. ASSUME NEW j \in Jobs, EnqueueMark(j) PROVE ProgressInv(k)'
  <2>1. UNCHANGED <<queue, hand, task>>
    BY <1>1 DEF EnqueueMark, workers
  <2>2. /\ Queued(k)' <=> Queued(k)
        /\ InHand(k)' <=> InHand(k)
        /\ InTask(k)' <=> InTask(k)
    BY <2>1 DEF Queued, InHand, InTask
  <2>3. /\ api[j] = "new" /\ api' = [api EXCEPT ![j] = "marked"]
        /\ reached' = [reached EXCEPT ![j] = "queued"]
    BY <1>1 DEF EnqueueMark
  <2>4. QED
    BY <2>1, <2>2, <2>3, <1>t, <1>p DEF ProgressInv, InTask
<1>2. ASSUME NEW j \in Jobs, EnqueuePush(j) PROVE ProgressInv(k)'
  <2>1. UNCHANGED <<hand, task, reached>> /\ api[j] = "marked"
        /\ api' = [api EXCEPT ![j] = "pushed"]
    BY <1>2 DEF EnqueuePush, workers, history
  <2>2. Queued(k)' <=> (Queued(k) \/ k = j)
    BY <1>2, PushQueued
  <2>3. (InHand(k)' <=> InHand(k)) /\ (InTask(k)' <=> InTask(k))
    BY <2>1 DEF InHand, InTask
  <2>4. QED
    BY <2>1, <2>2, <2>3, <1>t, <1>p DEF ProgressInv
<1>3. ASSUME NEW j \in Jobs, EnqueueReply(j) \/ EnqueueFault(j) PROVE ProgressInv(k)'
  <2>1. /\ UNCHANGED <<queue, hand, task, reached>>
        /\ api[j] \in {"marked", "pushed"}
        /\ \E st \in {"accepted", "failed"} : api' = [api EXCEPT ![j] = st]
    BY <1>3 DEF EnqueueReply, EnqueueFault, redis, workers, history
  <2>2. /\ Queued(k)' <=> Queued(k)
        /\ InHand(k)' <=> InHand(k)
        /\ InTask(k)' <=> InTask(k)
    BY <2>1 DEF Queued, InHand, InTask
  <2>3. QED
    BY <2>1, <2>2, <1>t, <1>p DEF ProgressInv
<1>4. ASSUME NEW w \in Workers, Pop(w) PROVE ProgressInv(k)'
  <2> DEFINE h == Head(queue)
  <2>1. /\ UNCHANGED <<api, task, reached>>
        /\ hand' = [hand EXCEPT ![w] = h] /\ hand[w] = NoJob
    BY <1>4 DEF Pop, history
  <2>2. h \in Jobs /\ Queued(h) /\ (Queued(k)' <=> (Queued(k) /\ k # h))
    BY <1>4, PopQueued
  <2>3. InHand(k)' <=> (InHand(k) \/ k = h)
    BY <2>1, <2>2, <1>n, <1>t DEF InHand
  <2>4. InTask(k)' <=> InTask(k)
    BY <2>1 DEF InTask
  <2> HIDE DEF h
  <2>5. QED
    BY <2>1, <2>2, <2>3, <2>4, <1>p DEF ProgressInv
<1>5. ASSUME NEW w \in Workers, MarkRunning(w) PROVE ProgressInv(k)'
  <2> DEFINE h == hand[w]
  <2>1. /\ UNCHANGED <<api, queue>> /\ h \in Jobs
        /\ hand' = [hand EXCEPT ![w] = NoJob]
        /\ task' = [task EXCEPT ![w][h] = "waiting"]
        /\ reached' = [reached EXCEPT ![h] = "running"]
    BY <1>5, <1>t DEF MarkRunning
  <2>2. InHand(h) /\ ~Queued(h) /\ ~InTask(h)
    BY <2>1 DEF InHand, DeliveredOnce
  <2>3. reached[h] = "queued" /\ api[h] \notin {"new", "marked"}
    BY <2>1, <2>2 DEF ProgressInv
  <2>4. InHand(k)' <=> (InHand(k) /\ k # h)
    BY <2>1, <1>n, <1>t DEF InHand, DeliveredOnce
  <2>5. Queued(k)' <=> Queued(k)
    BY <2>1 DEF Queued
  <2>6. \A v \in Workers : task'[v][k] = IF v = w /\ k = h THEN "waiting" ELSE task[v][k]
    BY <2>1, <1>t
  <2>7. InTask(k)' <=> (InTask(k) \/ k = h)
    BY <2>6 DEF InTask
  <2>8. reached'[k] = IF k = h THEN "running" ELSE reached[k]
    BY <2>1, <1>t
  <2> HIDE DEF h
  <2>9. CASE k = h
    BY <2>9, <2>1, <2>2, <2>3, <2>4, <2>5, <2>6, <2>8 DEF ProgressInv, InTask
  <2>10. CASE k # h
    BY <2>10, <2>1, <2>4, <2>5, <2>6, <2>7, <2>8, <1>p DEF ProgressInv
  <2>11. QED
    BY <2>9, <2>10
<1>6. ASSUME NEW w \in Workers, NEW j \in Jobs, NEW raw \in RawStatus,
             StoreResult(w, j, raw)
      PROVE  ProgressInv(k)'
  <2> DEFINE out == StoredStatus(raw)
  <2>1. /\ UNCHANGED <<api, queue, hand>> /\ task[w][j] = "running"
        /\ task' = [task EXCEPT ![w][j] = out]
        /\ reached' = [reached EXCEPT ![j] = out]
        /\ out \in {"completed", "failed"}
    BY <1>6 DEF StoreResult, StoredStatus
  <2>2. InTask(j) /\ reached[j] = "running" /\ ~Queued(j) /\ ~InHand(j)
    BY <2>1 DEF InTask, DeliveredOnce, ProgressInv
  <2>3. \A v \in Workers : task'[v][k] = IF v = w /\ k = j THEN out ELSE task[v][k]
    BY <2>1, <1>t
  <2>4. \A v \in Workers : v # w => task[v][j] = "none"
    BY <2>1 DEF DeliveredOnce
  <2>5. (Queued(k)' <=> Queued(k)) /\ (InHand(k)' <=> InHand(k))
    BY <2>1 DEF Queued, InHand
  <2>6. InTask(k)' => InTask(k)
    BY <2>3, <2>1 DEF InTask
  <2>7. reached'[k] = IF k = j THEN out ELSE reached[k]
    BY <2>1, <1>t
  <2> HIDE DEF out
  <2>8. CASE k = j
    BY <2>8, <2>1, <2>2, <2>3, <2>4, <2>5, <2>6, <2>7, <1>p DEF ProgressInv
  <2>9. CASE k # j
    BY <2>9, <2>1, <2>3, <2>5, <2>6, <2>7, <1>p DEF ProgressInv
  <2>10. QED
    BY <2>8, <2>9
<1>7. ASSUME UNCHANGED <<api, queue, reached>>,
             \A v \in Workers : hand'[v] \in {hand[v], NoJob},
             \A v \in Workers :
               task'[v][k] # task[v][k] =>
                 task'[v][k] = "none" \/ (task[v][k] = "waiting" /\ task'[v][k] = "running")
      PROVE  ProgressInv(k)'
  <2>1. /\ Queued(k)' <=> Queued(k)
        /\ InHand(k)' => InHand(k)
        /\ InTask(k)' => InTask(k)
    BY <1>7, <1>n DEF Queued, InHand, InTask
  <2>2. QED
    BY <2>1, <1>7, <1>p DEF ProgressInv
<1>8. ASSUME NEW w \in Workers, WorkerCrash(w) PROVE ProgressInv(k)'
  BY <1>8, <1>7, <1>t DEF WorkerCrash, redis
<1>9. ASSUME NEW w \in Workers, NEW j \in Jobs,
             Start(w, j) \/ StoreStatus(w, j) \/ StoreFault(w, j)
      PROVE  ProgressInv(k)'
  <2>1. UNCHANGED <<api, queue, hand, reached>>
    BY <1>9 DEF Start, StoreStatus, StoreFault, redis, history
  <2>2. PICK st : /\ task' = [task EXCEPT ![w][j] = st]
                  /\ st = "none" \/ (task[w][j] = "waiting" /\ st = "running")
    BY <1>9 DEF Start, StoreStatus, StoreFault
  <2>3. \A v \in Workers :
               task'[v][k] # task[v][k] =>
                 task'[v][k] = "none" \/ (task[v][k] = "waiting" /\ task'[v][k] = "running")
    BY <2>2, <1>t
  <2>4. QED
    BY <2>1, <2>3, <1>7
<1>10. CASE Tick \/ UNCHANGED vars
  BY <1>10, <1>0 DEF Tick, vars, redis, workers, history
<1>11. ASSUME NEW j \in Jobs, PollResult(j) \/ PollStatus(j) PROVE ProgressInv(k)'
  BY <1>11, <1>0 DEF PollResult, PollStatus, redis, workers, history
<1> QED
  BY <1>1, <1>2, <1>3, <1>4, <1>5, <1>6, <1>8, <1>9, <1>10, <1>11 DEF Next
-----------------------------------------------------------------------------
(***************************************************************************)
(* The keys: RESULT is always the outcome, and STATUS lags behind it only  *)
(* while RESULT lives.                                                     *)
(***************************************************************************)
LEMMA KeyStep ==
  ASSUME TypeOK, \A j \in Jobs : ProgressInv(j), \A j \in Jobs : KeyInv(j),
         [Next]_vars, NEW k \in Jobs
  PROVE  KeyInv(k)'
<1> USE DEF Terminal
<1>a. TTL \in Nat /\ TTL > 0
  BY TTLAssumption
<1>t. /\ status \in [Jobs -> Key] /\ result \in [Jobs -> Key]
      /\ reached \in [Jobs -> Docs \cup {"absent"}]
      /\ status[k] \in Key /\ result[k] \in Key
      /\ status[k].ttl \in 0 .. TTL /\ result[k].ttl \in 0 .. TTL
  BY DEF TypeOK, Key
<1>p. KeyInv(k) /\ ProgressInv(k)
  OBVIOUS
<1>0. ASSUME UNCHANGED <<status, result, reached>> PROVE KeyInv(k)'
  BY <1>0, <1>p DEF KeyInv
<1>1. ASSUME NEW j \in Jobs, EnqueueMark(j) PROVE KeyInv(k)'
  <2>1. /\ status' = [status EXCEPT ![j] = Setex("queued")]
        /\ reached' = [reached EXCEPT ![j] = "queued"]
        /\ UNCHANGED result /\ api[j] = "new"
    BY <1>1 DEF EnqueueMark
  <2>2. CASE k # j
    BY <2>1, <2>2, <1>p, <1>t DEF KeyInv
  <2>3. CASE k = j
    <3>1. reached[k] = "absent" /\ result[k].doc = "absent"
      BY <2>1, <2>3, <1>p DEF KeyInv, ProgressInv
    <3>2. status'[k].doc = "queued" /\ status'[k].ttl = TTL /\ reached'[k] = "queued"
      BY <2>1, <2>3, <1>t DEF Setex
    <3>3. QED
      BY <2>1, <3>1, <3>2, <1>p, <1>a DEF KeyInv
  <2>4. QED
    BY <2>2, <2>3
<1>2. ASSUME NEW w \in Workers, MarkRunning(w) PROVE KeyInv(k)'
  <2> DEFINE h == hand[w]
  <2>1. /\ status' = [status EXCEPT ![h] = Setex("running")]
        /\ reached' = [reached EXCEPT ![h] = "running"]
        /\ UNCHANGED result
    BY <1>2 DEF MarkRunning
  <2>2. InHand(h)
    BY DEF InHand
  <2> HIDE DEF h
  <2>3. CASE k # h
    BY <2>1, <2>3, <1>p, <1>t DEF KeyInv
  <2>4. CASE k = h
    <3>1. reached[k] = "queued" /\ result[k].doc = "absent"
      BY <2>2, <2>4, <1>p DEF KeyInv, ProgressInv
    <3>2. status'[k].doc = "running" /\ status'[k].ttl = TTL /\ reached'[k] = "running"
      BY <2>1, <2>4, <1>t DEF Setex
    <3>3. QED
      BY <2>1, <3>1, <3>2, <1>p, <1>a DEF KeyInv
  <2>5. QED
    BY <2>3, <2>4
<1>3. ASSUME NEW w \in Workers, NEW j \in Jobs, NEW raw \in RawStatus,
             StoreResult(w, j, raw)
      PROVE  KeyInv(k)'
  <2> DEFINE out == StoredStatus(raw)
  <2>1. /\ result' = [result EXCEPT ![j] = Setex(out)]
        /\ reached' = [reached EXCEPT ![j] = out]
        /\ UNCHANGED status /\ task[w][j] = "running"
        /\ out \in {"completed", "failed"}
    BY <1>3 DEF StoreResult, StoredStatus
  <2> HIDE DEF out
  <2>2. CASE k # j
    BY <2>1, <2>2, <1>p, <1>t DEF KeyInv
  <2>3. CASE k = j
    <3>1. reached[k] = "running"
      BY <2>1, <2>3, <1>p DEF ProgressInv
    <3>2. result'[k].doc = out /\ result'[k].ttl = TTL /\ reached'[k] = out
      BY <2>1, <2>3, <1>t DEF Setex
    <3>3. status[k].doc \in {"absent", "running"}
      BY <3>1, <1>p DEF KeyInv
    <3>4. QED
      BY <2>1, <3>1, <3>2, <3>3, <1>p, <1>a, <1>t DEF KeyInv
  <2>4. QED
    BY <2>2, <2>3
<1>4. ASSUME NEW w \in Workers, NEW j \in Jobs, StoreStatus(w, j) PROVE KeyInv(k)'
  <2>1. /\ task[w][j] \in {"completed", "failed"}
        /\ status' = [status EXCEPT ![j] = Setex(task[w][j])]
        /\ UNCHANGED <<result, reached>>
    BY <1>4 DEF StoreStatus, history
  <2>2. CASE k # j
    BY <2>1, <2>2, <1>p, <1>t DEF KeyInv
  <2>3. CASE k = j
    <3>1. task[w][j] = reached[k]
      BY <2>1, <2>3, <1>p DEF ProgressInv
    <3>2. status'[k].doc = reached[k] /\ status'[k].ttl = TTL
      BY <2>1, <2>3, <3>1, <1>t DEF Setex
    <3>3. QED
      BY <2>1, <3>1, <3>2, <1>p, <1>a DEF KeyInv
  <2>4. QED
    BY <2>2, <2>3
<1>5. CASE Tick
  <2>1. /\ status'[k] = Aged(status[k]) /\ result'[k] = Aged(result[k])
        /\ UNCHANGED reached
    BY <1>5 DEF Tick, history
  <2> DEFINE s == status[k]  r == result[k]
  <2>2. /\ s.ttl <= 1 => Aged(s) = Absent
        /\ s.ttl > 1  => Aged(s).doc = s.doc /\ Aged(s).ttl = s.ttl - 1
        /\ r.ttl <= 1 => Aged(r) = Absent
        /\ r.ttl > 1  => Aged(r).doc = r.doc /\ Aged(r).ttl = r.ttl - 1
    BY <1>t, KeyFacts
  <2>3. Absent.doc = "absent" /\ Absent.ttl = 0
    BY DEF Absent
  <2>4. s.ttl \in Nat /\ r.ttl \in Nat
    BY <1>t, <1>a
  <2>5. CASE r.ttl <= 1
    BY <2>1, <2>2, <2>3, <2>4, <2>5, <1>p DEF KeyInv
  <2>6. CASE r.ttl > 1
    BY <2>1, <2>2, <2>3, <2>4, <2>6, <1>p DEF KeyInv
  <2>7. QED
    BY <2>4, <2>5, <2>6
<1>6. ASSUME NEW j \in Jobs,
             \/ EnqueuePush(j) \/ EnqueueReply(j) \/ EnqueueFault(j)
             \/ PollResult(j) \/ PollStatus(j)
      PROVE  KeyInv(k)'
  BY <1>6, <1>0 DEF EnqueuePush, EnqueueReply, EnqueueFault, PollResult, PollStatus,
                    redis, history
<1>7. ASSUME NEW w \in Workers, NEW j \in Jobs,
             Pop(w) \/ WorkerCrash(w) \/ Start(w, j) \/ StoreFault(w, j)
      PROVE  KeyInv(k)'
  BY <1>7, <1>0 DEF Pop, WorkerCrash, Start, StoreFault, redis, history
<1>8. CASE UNCHANGED vars
  BY <1>8, <1>0 DEF vars, redis, history
<1> QED
  BY <1>1, <1>2, <1>3, <1>4, <1>5, <1>6, <1>7, <1>8 DEF Next
-----------------------------------------------------------------------------
(***************************************************************************)
(* The client, between and across its two reads.                           *)
(***************************************************************************)
LEMMA ClientStep ==
  ASSUME TypeOK, \A j \in Jobs : ProgressInv(j), \A j \in Jobs : KeyInv(j),
         \A j \in Jobs : ClientInv(j), [Next]_vars, NEW k \in Jobs
  PROVE  ClientInv(k)' /\ Precedes(seen[k], seen'[k])
<1> USE DEF Terminal
<1>t. /\ status \in [Jobs -> Key] /\ result \in [Jobs -> Key]
      /\ reached \in [Jobs -> Docs \cup {"absent"}]
      /\ seen \in [Jobs -> Docs \cup {"absent"}]
      /\ poll \in [Jobs -> {"idle", "status"}]
      /\ status[k].ttl \in 0 .. TTL /\ TTL \in Nat
  BY TTLAssumption DEF TypeOK, Key
<1>p. KeyInv(k) /\ ProgressInv(k) /\ ClientInv(k)
  OBVIOUS
\* No step that leaves the client alone moves its answer, and a document
\* written for k only ever moves forward.
<1>0. ASSUME UNCHANGED client, Precedes(reached[k], reached'[k]),
             seen[k] \in {"completed", "failed"} =>
               status'[k].doc \in {"absent", status[k].doc, reached[k]}
      PROVE  ClientInv(k)' /\ Precedes(seen[k], seen'[k])
  BY <1>0, <1>p DEF ClientInv, Precedes, client
<1>1. ASSUME NEW j \in Jobs, EnqueueMark(j)
      PROVE  ClientInv(k)' /\ Precedes(seen[k], seen'[k])
  <2>1. /\ status' = [status EXCEPT ![j] = Setex("queued")]
        /\ reached' = [reached EXCEPT ![j] = "queued"]
        /\ api[j] = "new" /\ UNCHANGED client
    BY <1>1 DEF EnqueueMark
  <2>2. k = j => reached[k] = "absent" /\ seen[k] = "absent"
    BY <2>1, <1>p, <1>t DEF ProgressInv, ClientInv, Precedes, Docs
  <2>3. QED
    BY <2>1, <2>2, <1>0, <1>t DEF Precedes
<1>2. ASSUME NEW w \in Workers, MarkRunning(w)
      PROVE  ClientInv(k)' /\ Precedes(seen[k], seen'[k])
  <2> DEFINE h == hand[w]
  <2>1. /\ status' = [status EXCEPT ![h] = Setex("running")]
        /\ reached' = [reached EXCEPT ![h] = "running"]
        /\ UNCHANGED client
    BY <1>2 DEF MarkRunning
  <2>2. InHand(h)
    BY DEF InHand
  <2> HIDE DEF h
  <2>3. k = h => reached[k] = "queued" /\ seen[k] \notin {"completed", "failed"}
    BY <2>2, <1>p DEF ProgressInv, ClientInv, Precedes
  <2>4. QED
    BY <2>1, <2>3, <1>0, <1>t DEF Precedes
<1>3. ASSUME NEW w \in Workers, NEW j \in Jobs, NEW raw \in RawStatus,
             StoreResult(w, j, raw)
      PROVE  ClientInv(k)' /\ Precedes(seen[k], seen'[k])
  <2>1. /\ reached' = [reached EXCEPT ![j] = StoredStatus(raw)]
        /\ UNCHANGED <<status, client>> /\ task[w][j] = "running"
        /\ StoredStatus(raw) \in {"completed", "failed"}
    BY <1>3 DEF StoreResult, StoredStatus
  <2>2. k = j => reached[k] = "running"
    BY <2>1, <1>p DEF ProgressInv
  <2>3. QED
    BY <2>1, <2>2, <1>0, <1>t DEF Precedes
<1>4. ASSUME NEW w \in Workers, NEW j \in Jobs, StoreStatus(w, j)
      PROVE  ClientInv(k)' /\ Precedes(seen[k], seen'[k])
  <2>1. /\ task[w][j] \in {"completed", "failed"}
        /\ status' = [status EXCEPT ![j] = Setex(task[w][j])]
        /\ UNCHANGED <<client, reached>>
    BY <1>4 DEF StoreStatus, history
  <2>2. k = j => task[w][j] = reached[k]
    BY <2>1, <1>p DEF ProgressInv
  <2>3. QED
    BY <2>1, <2>2, <1>0, <1>t DEF Precedes, Setex
<1>5. CASE Tick
  <2>1. status'[k] = Aged(status[k]) /\ UNCHANGED <<client, reached>>
    BY <1>5 DEF Tick, history
  <2>2. Aged(status[k]).doc \in {"absent", status[k].doc}
    BY <1>t, KeyFacts DEF Absent
  <2>3. QED
    BY <2>1, <2>2, <1>0 DEF Precedes
<1>6. ASSUME NEW j \in Jobs, PollResult(j)
      PROVE  ClientInv(k)' /\ Precedes(seen[k], seen'[k])
  <2>1. UNCHANGED <<status, result, reached>>
    BY <1>6 DEF PollResult, redis, history
  <2>2. CASE result[j].doc # "absent"
    <3>1. seen' = [seen EXCEPT ![j] = result[j].doc] /\ UNCHANGED poll /\ poll[j] = "idle"
      BY <1>6, <2>2 DEF PollResult
    <3>2. k = j => seen'[k] = reached[k] /\ poll'[k] = "idle"
      BY <3>1, <2>2, <1>p, <1>t DEF KeyInv
    <3>3. k # j => seen'[k] = seen[k]
      BY <3>1
    <3>4. QED
      BY <2>1, <3>1, <3>2, <3>3, <1>p DEF ClientInv, Precedes
  <2>3. CASE result[j].doc = "absent"
    <3>1. poll' = [poll EXCEPT ![j] = "status"] /\ UNCHANGED seen
      BY <1>6, <2>3 DEF PollResult
    <3>2. k = j => status[k].doc \in {"absent", reached[k]}
      BY <2>3, <1>p, <1>t DEF KeyInv
    <3>3. QED
      BY <2>1, <3>1, <3>2, <1>p, <1>t DEF ClientInv, Precedes
  <2>4. QED
    BY <2>2, <2>3
<1>7. ASSUME NEW j \in Jobs, PollStatus(j)
      PROVE  ClientInv(k)' /\ Precedes(seen[k], seen'[k])
  <2>1. /\ UNCHANGED <<status, result, reached>>
        /\ poll[j] = "status" /\ poll' = [poll EXCEPT ![j] = "idle"]
        /\ seen' = IF status[j].doc = "absent" THEN seen
                   ELSE [seen EXCEPT ![j] = status[j].doc]
    BY <1>7 DEF PollStatus, redis, history
  <2>2. CASE k # j
    BY <2>1, <2>2, <1>p DEF ClientInv, Precedes
  <2>3. CASE k = j
    <3>1. poll'[k] = "idle"
      BY <2>1, <2>3, <1>t
    <3>2. seen'[k] = IF status[k].doc = "absent" THEN seen[k] ELSE status[k].doc
      BY <2>1, <2>3, <1>t
    <3>3. status[k].doc \notin {"absent", reached[k]} =>
            /\ status[k].doc = "running"
            /\ reached[k] \in {"completed", "failed"}
            /\ seen[k] \notin {"completed", "failed"}
      BY <2>1, <2>3, <1>p DEF KeyInv, ClientInv
    <3>4. reached[k] \in Docs \cup {"absent"} /\ seen[k] \in Docs \cup {"absent"}
      BY <1>t
    <3>5. QED
      BY <2>1, <3>1, <3>2, <3>3, <3>4, <1>p DEF ClientInv, Precedes, Docs
  <2>4. QED
    BY <2>2, <2>3
<1>8. ASSUME NEW j \in Jobs, EnqueuePush(j) \/ EnqueueReply(j) \/ EnqueueFault(j)
      PROVE  ClientInv(k)' /\ Precedes(seen[k], seen'[k])
  BY <1>8, <1>0 DEF EnqueuePush, EnqueueReply, EnqueueFault, Precedes, redis, history
<1>9. ASSUME NEW w \in Workers, NEW j \in Jobs,
             Pop(w) \/ WorkerCrash(w) \/ Start(w, j) \/ StoreFault(w, j)
      PROVE  ClientInv(k)' /\ Precedes(seen[k], seen'[k])
  BY <1>9, <1>0 DEF Pop, WorkerCrash, Start, StoreFault, Precedes, redis, history
<1>10. CASE UNCHANGED vars
  BY <1>10, <1>0 DEF vars, redis, history, Precedes
<1> QED
  BY <1>1, <1>2, <1>3, <1>4, <1>5, <1>6, <1>7, <1>8, <1>9, <1>10 DEF Next
-----------------------------------------------------------------------------
(***************************************************************************)
(* A pushed job is somewhere, finished, or lost with the worker that held  *)
(* it.                                                                     *)
(***************************************************************************)
AccountedFor(k) ==
  api[k] \in {"pushed", "accepted"} =>
    \/ Queued(k) \/ InHand(k) \/ InTask(k)
    \/ reached[k] \in Terminal
    \/ k \in lost

LEMMA AccountedStep ==
  ASSUME TypeOK, DeliveredOnce, \A j \in Jobs : ProgressInv(j), Accounted,
         [Next]_vars, NEW k \in Jobs
  PROVE  AccountedFor(k)'
<1> USE DEF Terminal, HasPermit
<1>n. NoJob \notin Jobs
  BY NoJobAssumption
<1>t. /\ api \in [Jobs -> {"new", "marked", "pushed", "accepted", "failed"}]
      /\ hand \in [Workers -> Jobs \cup {NoJob}]
      /\ task \in [Workers -> [Jobs -> TaskStage]]
      /\ reached \in [Jobs -> Docs \cup {"absent"}]
  BY DEF TypeOK
<1>p. AccountedFor(k) /\ ProgressInv(k)
  BY DEF Accounted, AccountedFor
<1>0. ASSUME UNCHANGED <<api, queue, hand, task, reached, lost>> PROVE AccountedFor(k)'
  BY <1>0, <1>p DEF AccountedFor, Queued, InHand, InTask
<1>1. ASSUME NEW j \in Jobs,
             EnqueueMark(j) \/ EnqueueReply(j) \/ EnqueueFault(j)
      PROVE  AccountedFor(k)'
  <2>1. /\ UNCHANGED <<queue, hand, task, lost>>
        /\ \/ UNCHANGED reached
           \/ api[j] = "new" /\ reached' = [reached EXCEPT ![j] = "queued"]
        /\ \E st \in {"marked", "accepted", "failed"} : api' = [api EXCEPT ![j] = st]
        /\ api'[j] = "accepted" => api[j] = "pushed"
    BY <1>1, <1>t DEF EnqueueMark, EnqueueReply, EnqueueFault, redis, workers, history
  <2>2. /\ Queued(k)' <=> Queued(k)
        /\ InHand(k)' <=> InHand(k)
        /\ InTask(k)' <=> InTask(k)
    BY <2>1 DEF Queued, InHand, InTask
  <2>3. QED
    BY <2>1, <2>2, <1>p, <1>t DEF AccountedFor, ProgressInv
<1>2. ASSUME NEW j \in Jobs, EnqueuePush(j) PROVE AccountedFor(k)'
  <2>1. /\ UNCHANGED <<hand, task, reached, lost>>
        /\ api' = [api EXCEPT ![j] = "pushed"]
        /\ Queued(k)' <=> (Queued(k) \/ k = j)
    BY <1>2, PushQueued DEF EnqueuePush, workers, history
  <2>2. (InHand(k)' <=> InHand(k)) /\ (InTask(k)' <=> InTask(k))
    BY <2>1 DEF InHand, InTask
  <2>3. QED
    BY <2>1, <2>2, <1>p, <1>t DEF AccountedFor
<1>3. ASSUME NEW w \in Workers, Pop(w) PROVE AccountedFor(k)'
  <2>1. /\ UNCHANGED <<api, task, reached, lost>>
        /\ hand' = [hand EXCEPT ![w] = Head(queue)] /\ hand[w] = NoJob
        /\ Queued(k) => Queued(k)' \/ k = Head(queue)
    BY <1>3, PopQueued DEF Pop, history
  <2>2. Queued(k) => Queued(k)' \/ InHand(k)'
    BY <2>1, <1>t DEF InHand
  <2>3. (InHand(k) => InHand(k)') /\ (InTask(k)' <=> InTask(k))
    BY <2>1, <1>n, <1>t DEF InHand, InTask
  <2>4. QED
    BY <2>1, <2>2, <2>3, <1>p DEF AccountedFor
<1>4. ASSUME NEW w \in Workers, MarkRunning(w) PROVE AccountedFor(k)'
  <2> DEFINE h == hand[w]
  <2>1. /\ UNCHANGED <<api, queue, lost>> /\ h \in Jobs
        /\ hand' = [hand EXCEPT ![w] = NoJob]
        /\ task' = [task EXCEPT ![w][h] = "waiting"]
        /\ reached' = [reached EXCEPT ![h] = "running"]
    BY <1>4, <1>t DEF MarkRunning
  <2>2. Queued(k)' <=> Queued(k)
    BY <2>1 DEF Queued
  <2>3. k = h => InTask(k)'
    BY <2>1, <1>t DEF InTask
  <2>4. k # h => (InHand(k) => InHand(k)') /\ (InTask(k) => InTask(k)')
    BY <2>1, <1>t DEF InHand, InTask
  <2>5. k # h => reached'[k] = reached[k]
    BY <2>1
  <2> HIDE DEF h
  <2>6. QED
    BY <2>1, <2>2, <2>3, <2>4, <2>5, <1>p DEF AccountedFor
<1>5. ASSUME NEW w \in Workers, NEW j \in Jobs, NEW raw \in RawStatus,
             StoreResult(w, j, raw)
      PROVE  AccountedFor(k)'
  <2>1. /\ UNCHANGED <<api, queue, hand, lost>>
        /\ \E out \in {"completed", "failed"} :
             /\ task' = [task EXCEPT ![w][j] = out]
             /\ reached' = [reached EXCEPT ![j] = out]
    BY <1>5 DEF StoreResult, StoredStatus
  <2>2. (Queued(k)' <=> Queued(k)) /\ (InHand(k)' <=> InHand(k))
    BY <2>1 DEF Queued, InHand
  <2>3. /\ InTask(k) => InTask(k)'
        /\ reached[k] \in {"completed", "failed"} => reached'[k] \in {"completed", "failed"}
    BY <2>1, <1>t DEF InTask
  <2>4. QED
    BY <2>1, <2>2, <2>3, <1>p DEF AccountedFor
<1>6. ASSUME NEW w \in Workers, NEW j \in Jobs, Start(w, j) PROVE AccountedFor(k)'
  <2>1. /\ UNCHANGED <<api, queue, hand, reached, lost>>
        /\ task' = [task EXCEPT ![w][j] = "running"]
    BY <1>6 DEF Start, redis, history
  <2>2. (Queued(k)' <=> Queued(k)) /\ (InHand(k)' <=> InHand(k)) /\ (InTask(k) => InTask(k)')
    BY <2>1, <1>t DEF Queued, InHand, InTask
  <2>3. QED
    BY <2>1, <2>2, <1>p DEF AccountedFor
\* The task that ends held k only if it ran, and then k is finished or lost.
<1>7. ASSUME NEW w \in Workers, NEW j \in Jobs, StoreStatus(w, j) \/ StoreFault(w, j)
      PROVE  AccountedFor(k)'
  <2>1. /\ UNCHANGED <<api, queue, hand, reached>>
        /\ task' = [task EXCEPT ![w][j] = "none"]
        /\ task[w][j] \in {"running", "completed", "failed"}
        /\ lost \subseteq lost'
        /\ task[w][j] = "running" => j \in lost'
    BY <1>7 DEF StoreStatus, StoreFault, redis, history
  <2>2. (Queued(k)' <=> Queued(k)) /\ (InHand(k)' <=> InHand(k))
    BY <2>1 DEF Queued, InHand
  <2>3. k # j => (InTask(k) => InTask(k)')
    BY <2>1, <1>t DEF InTask
  <2>4. k = j => reached[k] \in {"completed", "failed"} \/ k \in lost'
    BY <2>1, <1>p DEF ProgressInv
  <2>5. QED
    BY <2>1, <2>2, <2>3, <2>4, <1>p DEF AccountedFor
<1>8. ASSUME NEW w \in Workers, WorkerCrash(w) PROVE AccountedFor(k)'
  <2>1. /\ UNCHANGED <<api, queue, reached>>
        /\ hand' = [hand EXCEPT ![w] = NoJob]
        /\ task' = [task EXCEPT ![w] = [j \in Jobs |-> "none"]]
        /\ lost' = lost \cup Unfinished(w)
    BY <1>8 DEF WorkerCrash, redis
  <2>2. Queued(k)' <=> Queued(k)
    BY <2>1 DEF Queued
  <2>3. hand[w] = k \/ task[w][k] \in {"waiting", "running"} => k \in lost'
    BY <2>1 DEF Unfinished
  <2>4. task[w][k] \in {"completed", "failed"} => reached[k] \in {"completed", "failed"}
    BY <1>p DEF ProgressInv
  <2>5. InHand(k) => InHand(k)' \/ hand[w] = k
    BY <2>1, <1>t DEF InHand
  <2>6. InTask(k) => InTask(k)' \/ task[w][k] # "none"
    BY <2>1, <1>t DEF InTask
  <2>7. task[w][k] \in {"none", "waiting", "running", "completed", "failed"}
    BY <1>t DEF TaskStage
  <2>8. QED
    BY <2>1, <2>2, <2>3, <2>4, <2>5, <2>6, <2>7, <1>p DEF AccountedFor
<1>9. CASE Tick \/ UNCHANGED vars
  BY <1>9, <1>0 DEF Tick, vars, redis, workers, history
<1>10. ASSUME NEW j \in Jobs, PollResult(j) \/ PollStatus(j) PROVE AccountedFor(k)'
  BY <1>10, <1>0 DEF PollResult, PollStatus, redis, workers, history
<1> QED
  BY <1>1, <1>2, <1>3, <1>4, <1>5, <1>6, <1>7, <1>8, <1>9, <1>10 DEF Next
-----------------------------------------------------------------------------
(***************************************************************************)
(* The invariant, and what follows from it.                                *)
(***************************************************************************)
LEMMA InitInv == Init => IInv
<1> SUFFICES ASSUME Init PROVE IInv
  OBVIOUS
<1> USE DEF Init, Terminal, Docs
<1>1. TypeOK
  BY KeyFacts DEF TypeOK, TaskStage
<1>2. \A j \in Jobs : ~Queued(j) /\ ~InHand(j) /\ ~InTask(j)
  BY NoJobAssumption DEF Queued, InHand, InTask
<1>3. DeliveredOnce
  BY <1>2 DEF DeliveredOnce
<1>4. Accounted
  BY DEF Accounted
<1>5. \A j \in Jobs : KeyInv(j) /\ ProgressInv(j) /\ ClientInv(j)
  BY <1>2 DEF KeyInv, ProgressInv, ClientInv, Precedes, Absent
<1>6. QED
  BY <1>1, <1>3, <1>4, <1>5 DEF IInv

LEMMA StepInv == IInv /\ [Next]_vars => IInv'
<1> SUFFICES ASSUME IInv, [Next]_vars PROVE IInv'
  OBVIOUS
<1>1. /\ TypeOK /\ DeliveredOnce /\ Accounted
      /\ \A j \in Jobs : KeyInv(j) /\ ProgressInv(j) /\ ClientInv(j)
  BY DEF IInv
<1>2. TypeOK' /\ DeliveredOnce'
  BY <1>1, TypeStep, DeliveryStep
<1>3. \A k \in Jobs : KeyInv(k)' /\ ProgressInv(k)' /\ ClientInv(k)'
  BY <1>1, KeyStep, ProgressStep, ClientStep
<1>4. Accounted'
  <2>1. \A k \in Jobs : AccountedFor(k)'
    BY <1>1, AccountedStep
  <2>2. QED
    BY <2>1 DEF Accounted, AccountedFor
<1>5. QED
  BY <1>2, <1>3, <1>4 DEF IInv

\* The inductive invariant of the job queue.
THEOREM Invariance == Spec => []IInv
  BY InitInv, StepInv, PTL DEF Spec

\* Type correctness for every number of jobs and workers.
THEOREM TypeCorrect == Spec => []TypeOK
<1>1. IInv => TypeOK
  BY DEF IInv
<1>2. QED
  BY <1>1, Invariance, PTL

\* No crawl job is ever delivered to two workers, or twice to one.
THEOREM AtMostOnce == Spec => []DeliveredOnce
<1>1. IInv => DeliveredOnce
  BY DEF IInv
<1>2. QED
  BY <1>1, Invariance, PTL

\* No pushed job disappears unless a fault hits the worker that holds it.
THEOREM NothingSilentlyLost == Spec => []Accounted
<1>1. IInv => Accounted
  BY DEF IInv
<1>2. QED
  BY <1>1, Invariance, PTL

\* Every document a poll could show is the furthest one written, or none.
LEMMA ShownFact ==
  ASSUME IInv, NEW j \in Jobs
  PROVE  Shown(j) \in {reached[j], "absent"}
<1>1. KeyInv(j) /\ result[j].doc \in Docs \cup {"absent"} /\ status[j].ttl \in Nat
  BY TTLAssumption DEF IInv, TypeOK, Key
<1>2. CASE result[j].doc # "absent"
  BY <1>1, <1>2 DEF Shown, KeyInv
<1>3. CASE result[j].doc = "absent"
  BY <1>1, <1>3 DEF Shown, KeyInv
<1>4. QED
  BY <1>2, <1>3

\* A live document is neither ahead of nor behind the job it describes.
THEOREM StatusEarned == Spec => []StatusIsEarned
<1>1. ASSUME IInv PROVE StatusIsEarned
  <2> SUFFICES ASSUME NEW j \in Jobs
               PROVE  /\ Shown(j) = "queued" => ~InTask(j)
                      /\ Shown(j) \in {"running"} \cup Terminal => ~Queued(j) /\ ~InHand(j)
                      /\ Shown(j) \in {reached[j], "absent"}
    BY DEF StatusIsEarned
  <2>1. Shown(j) \in {reached[j], "absent"}
    BY <1>1, ShownFact
  <2>2. ProgressInv(j) /\ task \in [Workers -> [Jobs -> TaskStage]]
    BY <1>1 DEF IInv, TypeOK
  <2>3. reached[j] = "queued" => ~InTask(j)
    BY <2>2 DEF ProgressInv, InTask, TaskStage, Terminal
  <2>4. QED
    BY <2>1, <2>2, <2>3 DEF ProgressInv, Terminal
<1>2. QED
  BY <1>1, Invariance, PTL

\* A polling client never sees its job go back, nor its outcome change.
THEOREM ClientMonotone == Spec => NeverRegresses
<1>1. IInv /\ [Next]_vars => [\A j \in Jobs : Precedes(seen[j], seen'[j])]_vars
  <2> SUFFICES ASSUME IInv, [Next]_vars, NEW j \in Jobs PROVE Precedes(seen[j], seen'[j])
    OBVIOUS
  <2>1. QED
    BY ClientStep DEF IInv
<1>2. QED
  BY <1>1, Invariance, PTL DEF Spec, NeverRegresses
-----------------------------------------------------------------------------
(***************************************************************************)
(* The queue implements the abstract job document.                         *)
(***************************************************************************)
\* One write of document doc for job j, seen from the abstract document.
LEMMA WriteAdvances ==
  ASSUME IInv, NEW j \in Jobs, NEW doc \in Docs,
         Lifecycle!Follows(reached[j], doc),
         reached' = [reached EXCEPT ![j] = doc],
         \A k \in Jobs : Shown(k)' = IF k = j THEN doc ELSE Shown(k)
  PROVE  Lifecycle!Next
<1>1. reached \in [Jobs -> Docs \cup {"absent"}]
  BY DEF IInv, TypeOK
<1>2. [k \in Jobs |-> Shown(k)'] = [[k \in Jobs |-> Shown(k)] EXCEPT ![j] = doc]
  OBVIOUS
<1>3. Lifecycle!Advance(j, doc)
  BY <1>1, <1>2 DEF Lifecycle!Advance
<1>4. QED
  BY <1>3 DEF Lifecycle!Next, Lifecycle!Docs, Lifecycle!Terminal, Docs, Terminal

LEMMA StepRefines ==
  IInv /\ IInv' /\ [Next]_vars => [Lifecycle!Next]_(Lifecycle!vars)
<1> SUFFICES ASSUME IInv, IInv', [Next]_vars PROVE [Lifecycle!Next]_(Lifecycle!vars)
  OBVIOUS
<1> USE DEF Terminal
<1>t. /\ status \in [Jobs -> Key] /\ result \in [Jobs -> Key]
      /\ reached \in [Jobs -> Docs \cup {"absent"}]
      /\ hand \in [Workers -> Jobs \cup {NoJob}]
  BY DEF IInv, TypeOK
<1>p. \A j \in Jobs : KeyInv(j) /\ ProgressInv(j)
  BY DEF IInv
<1>0. ASSUME UNCHANGED <<status, result, reached>>
      PROVE  [Lifecycle!Next]_(Lifecycle!vars)
  BY <1>0 DEF Lifecycle!vars, Shown
<1>1. ASSUME NEW j \in Jobs, EnqueueMark(j) PROVE Lifecycle!Next
  <2>1. /\ status' = [status EXCEPT ![j] = Setex("queued")]
        /\ reached' = [reached EXCEPT ![j] = "queued"]
        /\ UNCHANGED result /\ api[j] = "new"
    BY <1>1 DEF EnqueueMark
  <2>2. reached[j] = "absent" /\ result[j].doc = "absent"
    BY <2>1, <1>p DEF KeyInv, ProgressInv
  <2>3. \A k \in Jobs : Shown(k)' = IF k = j THEN "queued" ELSE Shown(k)
    BY <2>1, <2>2, <1>t DEF Shown, Setex
  <2>4. QED
    BY <2>1, <2>2, <2>3, WriteAdvances DEF Lifecycle!Follows, Docs
<1>2. ASSUME NEW w \in Workers, MarkRunning(w) PROVE Lifecycle!Next
  <2> DEFINE h == hand[w]
  <2>1. /\ status' = [status EXCEPT ![h] = Setex("running")]
        /\ reached' = [reached EXCEPT ![h] = "running"]
        /\ UNCHANGED result /\ h \in Jobs
    BY <1>2, <1>t DEF MarkRunning
  <2>2. InHand(h)
    BY DEF InHand
  <2>3. reached[h] = "queued" /\ result[h].doc = "absent"
    BY <2>1, <2>2, <1>p DEF KeyInv, ProgressInv
  <2>4. \A k \in Jobs : Shown(k)' = IF k = h THEN "running" ELSE Shown(k)
    BY <2>1, <2>3, <1>t DEF Shown, Setex
  <2> HIDE DEF h
  <2>5. QED
    BY <2>1, <2>3, <2>4, WriteAdvances DEF Lifecycle!Follows, Docs
<1>3. ASSUME NEW w \in Workers, NEW j \in Jobs, NEW raw \in RawStatus,
             StoreResult(w, j, raw)
      PROVE  Lifecycle!Next
  <2> DEFINE out == StoredStatus(raw)
  <2>1. /\ result' = [result EXCEPT ![j] = Setex(out)]
        /\ reached' = [reached EXCEPT ![j] = out]
        /\ UNCHANGED status /\ task[w][j] = "running"
        /\ out \in {"completed", "failed"}
    BY <1>3 DEF StoreResult, StoredStatus
  <2> HIDE DEF out
  <2>2. reached[j] = "running"
    BY <2>1, <1>p DEF ProgressInv
  <2>3. \A k \in Jobs : Shown(k)' = IF k = j THEN out ELSE Shown(k)
    BY <2>1, <1>t DEF Shown, Setex
  <2>4. QED
    BY <2>1, <2>2, <2>3, WriteAdvances DEF Lifecycle!Follows, Lifecycle!Terminal, Docs
<1>4. ASSUME NEW w \in Workers, NEW j \in Jobs, StoreStatus(w, j) PROVE Lifecycle!Next
  <2>1. /\ task[w][j] \in {"completed", "failed"}
        /\ status' = [status EXCEPT ![j] = Setex(task[w][j])]
        /\ UNCHANGED <<result, reached>>
    BY <1>4 DEF StoreStatus, history
  <2>2. reached[j] = task[w][j]
    BY <2>1, <1>p DEF ProgressInv
  <2>3. \A k \in Jobs : Shown(k)' = IF k = j THEN reached[j] ELSE Shown(k)
    BY <2>1, <2>2, <1>t, <1>p DEF Shown, Setex, KeyInv
  <2>4. [k \in Jobs |-> Shown(k)'] = [[k \in Jobs |-> Shown(k)] EXCEPT ![j] = reached[j]]
    BY <2>3
  <2>5. Lifecycle!Repost(j)
    BY <2>1, <2>2, <2>4 DEF Lifecycle!Repost, Lifecycle!Terminal
  <2>6. QED
    BY <2>5 DEF Lifecycle!Next
\* Expiry never uncovers an older document.
<1>5. CASE Tick
  <2>1. UNCHANGED reached /\ \A k \in Jobs : /\ status'[k] = Aged(status[k])
                                           /\ result'[k] = Aged(result[k])
    BY <1>5 DEF Tick, history
  <2>2. ASSUME NEW k \in Jobs PROVE Shown(k)' \in {"absent", Shown(k)}
    <3>1. Shown(k)' \in {reached[k], "absent"}
      <4>1. KeyInv(k)' /\ result'[k] \in Key /\ status'[k] \in Key
        BY DEF IInv, TypeOK
      <4>2. \A key \in Key : key.ttl \in Nat
        BY TTLAssumption DEF Key
      <4>3. QED
        BY <4>1, <4>2, <2>1 DEF KeyInv, Shown
    <3>2. Shown(k) \in {reached[k], "absent"}
      BY ShownFact
    <3>3. Shown(k) = "absent" => Shown(k)' = "absent"
      <4>1. SUFFICES ASSUME Shown(k) = "absent" PROVE Shown(k)' = "absent"
        OBVIOUS
      <4>2. status[k].doc = "absent" /\ result[k].doc = "absent"
        BY <4>1 DEF Shown
      <4>3. status[k].ttl = 0 /\ result[k].ttl = 0
        BY <4>2, <1>p DEF KeyInv
      <4>4. Aged(status[k]) = Absent /\ Aged(result[k]) = Absent
        BY <4>3 DEF Aged
      <4>5. QED
        BY <4>4, <2>1 DEF Shown, Absent
    <3>4. QED
      BY <3>1, <3>2, <3>3
  <2> DEFINE S == {k \in Jobs : Shown(k)' = "absent"}
  <2>3. [k \in Jobs |-> Shown(k)'] =
          [k \in Jobs |-> IF k \in S THEN "absent" ELSE [i \in Jobs |-> Shown(i)][k]]
    BY <2>2
  <2>4. S \in SUBSET Jobs
    OBVIOUS
  <2> HIDE DEF S
  <2>5. Lifecycle!Expire(S)
    BY <2>1, <2>3 DEF Lifecycle!Expire
  <2>6. QED
    BY <2>4, <2>5 DEF Lifecycle!Next
<1>6. ASSUME NEW j \in Jobs,
             \/ EnqueuePush(j) \/ EnqueueReply(j) \/ EnqueueFault(j)
             \/ PollResult(j) \/ PollStatus(j)
      PROVE  UNCHANGED <<status, result, reached>>
  BY <1>6 DEF EnqueuePush, EnqueueReply, EnqueueFault, PollResult, PollStatus,
              redis, history
<1>7. ASSUME NEW w \in Workers, Pop(w) \/ WorkerCrash(w)
      PROVE  UNCHANGED <<status, result, reached>>
  BY <1>7 DEF Pop, WorkerCrash, redis, history
<1>8. ASSUME NEW w \in Workers, NEW j \in Jobs, Start(w, j) \/ StoreFault(w, j)
      PROVE  UNCHANGED <<status, result, reached>>
  BY <1>8 DEF Start, StoreFault, redis, history
<1>9. CASE UNCHANGED vars
  BY <1>9, <1>0 DEF vars, redis, history
<1> QED
  BY <1>0, <1>1, <1>2, <1>3, <1>4, <1>5, <1>6, <1>7, <1>8, <1>9 DEF Next

\* What an atomic poll returns is, with every fault and every expiry, the
\* abstract document: it advances, is repeated, or expires, and nothing else.
THEOREM Refinement == Spec => ImplementsLifecycle
<1>1. Init => Lifecycle!Init
  BY DEF Init, Lifecycle!Init, Shown, Absent
<1>2. QED
  BY <1>1, Invariance, StepRefines, PTL DEF Spec, Lifecycle!Spec, ImplementsLifecycle
-----------------------------------------------------------------------------
(***************************************************************************)
(* The semaphore, for a worker that may hold any number of jobs.           *)
(***************************************************************************)
PermitInv ==
  \A w \in Workers :
    IsFiniteSet(Permits(w)) /\ Cardinality(Permits(w)) <= Concurrency

LEMMA PermitStep == TypeOK /\ PermitInv /\ [Next]_vars => PermitInv'
<1> SUFFICES ASSUME TypeOK, PermitInv, [Next]_vars, NEW u \in Workers
             PROVE  IsFiniteSet(Permits(u)') /\ Cardinality(Permits(u)') <= Concurrency
  BY DEF PermitInv
<1> USE DEF HasPermit, Terminal
<1>t. task \in [Workers -> [Jobs -> TaskStage]] /\ Concurrency \in Nat
  BY ConcurrencyAssumption DEF TypeOK
<1>p. /\ IsFiniteSet(Permits(u)) /\ Cardinality(Permits(u)) \in Nat
      /\ Cardinality(Permits(u)) <= Concurrency
  BY FS_CardinalityType DEF PermitInv
<1>0. ASSUME Permits(u)' \subseteq Permits(u)
      PROVE  IsFiniteSet(Permits(u)') /\ Cardinality(Permits(u)') <= Concurrency
  <2>1. /\ IsFiniteSet(Permits(u)')
        /\ Cardinality(Permits(u)') <= Cardinality(Permits(u))
    BY <1>0, <1>p, FS_Subset
  <2>2. Cardinality(Permits(u)') \in Nat
    BY <2>1, FS_CardinalityType
  <2>3. QED
    BY <2>1, <2>2, <1>p, <1>t
<1>1. ASSUME NEW w \in Workers, NEW j \in Jobs, Start(w, j)
      PROVE  IsFiniteSet(Permits(u)') /\ Cardinality(Permits(u)') <= Concurrency
  <2>1. /\ task[w][j] = "waiting" /\ Cardinality(Permits(w)) < Concurrency
        /\ task' = [task EXCEPT ![w][j] = "running"]
    BY <1>1 DEF Start
  <2>2. CASE u # w
    BY <2>1, <2>2, <1>t, <1>0 DEF Permits
  <2>3. CASE u = w
    <3>1. Permits(u)' = Permits(u) \cup {j} /\ j \notin Permits(u)
      BY <2>1, <2>3, <1>t DEF Permits
    <3>2. /\ IsFiniteSet(Permits(u)')
          /\ Cardinality(Permits(u)') = Cardinality(Permits(u)) + 1
      BY <3>1, <1>p, FS_AddElement
    <3>3. QED
      BY <3>2, <2>1, <2>3, <1>p, <1>t
  <2>4. QED
    BY <2>2, <2>3
<1>2. ASSUME NEW w \in Workers, MarkRunning(w) PROVE Permits(u)' \subseteq Permits(u)
  BY <1>2, <1>t DEF MarkRunning, Permits
<1>3. ASSUME NEW w \in Workers, WorkerCrash(w) PROVE Permits(u)' \subseteq Permits(u)
  BY <1>3, <1>t DEF WorkerCrash, Permits
<1>4. ASSUME NEW w \in Workers, NEW j \in Jobs,
             \/ StoreStatus(w, j) \/ StoreFault(w, j)
             \/ \E raw \in RawStatus : StoreResult(w, j, raw)
      PROVE  Permits(u)' \subseteq Permits(u)
  <2>1. /\ task[w][j] \in {"running", "completed", "failed"}
        /\ \E st : task' = [task EXCEPT ![w][j] = st]
    BY <1>4 DEF StoreStatus, StoreFault, StoreResult
  <2>2. QED
    BY <2>1, <1>t DEF Permits
<1>5. ASSUME NEW j \in Jobs,
             \/ EnqueueMark(j) \/ EnqueuePush(j) \/ EnqueueReply(j) \/ EnqueueFault(j)
             \/ PollResult(j) \/ PollStatus(j)
      PROVE  UNCHANGED task
  BY <1>5 DEF EnqueueMark, EnqueuePush, EnqueueReply, EnqueueFault, PollResult,
              PollStatus, workers
<1>6. ASSUME NEW w \in Workers, Pop(w) PROVE UNCHANGED task
  BY <1>6 DEF Pop
<1>7. CASE Tick \/ UNCHANGED vars
  BY <1>7, <1>0 DEF Tick, vars, workers, Permits
<1>8. UNCHANGED task => Permits(u)' \subseteq Permits(u)
  BY DEF Permits
<1> QED
  BY <1>0, <1>1, <1>2, <1>3, <1>4, <1>5, <1>6, <1>7, <1>8 DEF Next

\* However many tasks a worker has created, at most Concurrency of them crawl
\* or store a result at the same time.
THEOREM PermitsBounded == Spec => []PermitBound
<1>1. Init => PermitInv
  <2> SUFFICES ASSUME Init, NEW w \in Workers
               PROVE  IsFiniteSet(Permits(w)) /\ Cardinality(Permits(w)) <= Concurrency
    BY DEF PermitInv
  <2>1. Permits(w) = {}
    BY DEF Init, Permits, HasPermit, Terminal
  <2>2. QED
    BY <2>1, FS_EmptySet, ConcurrencyAssumption
<1>2. PermitInv => PermitBound
  BY DEF PermitInv, PermitBound
<1>3. QED
  BY <1>1, <1>2, PermitStep, TypeCorrect, PTL DEF Spec
=============================================================================
