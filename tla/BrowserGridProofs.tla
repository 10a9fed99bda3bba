-------------------------- MODULE BrowserGridProofs --------------------------
(***************************************************************************)
(* Proofs about BrowserGrid: for any set of requests, finite or not, any   *)
(* workers, any concurrency and any number of restarts.                    *)
(***************************************************************************)
EXTENDS BrowserGrid, FiniteSetTheorems, TLAPS

\* A request that was not made has no job.
FreshInv == \A j \in Jobs : client[j] = "new" => ~Queued(j) /\ ~InHand(j) /\ ~InTask(j)

\* From the capacity check to the dispatch there is room for one more.
RoomInv ==
  \A w \in Workers :
    /\ IsFiniteSet(InFlight(w)) /\ Cardinality(InFlight(w)) <= Concurrency
    /\ loop[w] \in {"brpop", "hand"} => Cardinality(InFlight(w)) < Concurrency

IInv == TypeOK /\ FreshInv /\ HeldOnce /\ RoomInv /\ WaitingIsAccounted
-----------------------------------------------------------------------------
LEMMA Constants ==
  /\ Concurrency \in Nat /\ Concurrency >= 1 /\ MaxRestarts \in Nat
  /\ NoJob \notin Jobs /\ AnyWorker \notin Workers
BY ConcurrencyAssumption, MaxRestartsAssumption, NoJobAssumption, AnyWorkerAssumption

\* The Redis list after an LPUSH and after a BRPOP.
LEMMA Pushed ==
  ASSUME NEW q \in Seq(Jobs), NEW x \in Jobs
  PROVE  /\ Append(q, x) \in Seq(Jobs)
         /\ Len(q) \in Nat /\ DOMAIN q = 1 .. Len(q)
         /\ DOMAIN Append(q, x) = 1 .. Len(q) + 1
         /\ \A i \in 1 .. Len(q) : Append(q, x)[i] = q[i]
         /\ Append(q, x)[Len(q) + 1] = x
OBVIOUS

LEMMA Popped ==
  ASSUME NEW q \in Seq(Jobs), q # <<>>
  PROVE  /\ Tail(q) \in Seq(Jobs)
         /\ Len(q) \in Nat /\ Len(q) > 0 /\ DOMAIN q = 1 .. Len(q)
         /\ Head(q) = q[1] /\ Head(q) \in Jobs
         /\ DOMAIN Tail(q) = 1 .. Len(q) - 1
         /\ \A i \in 1 .. Len(q) - 1 : Tail(q)[i] = q[i + 1]
OBVIOUS

LEMMA PushedPlaces ==
  ASSUME queue \in Seq(Jobs), NEW x \in Jobs, queue' = Append(queue, x)
  PROVE  /\ queue' \in Seq(Jobs)
         /\ \A j \in Jobs : Queued(j)' <=> (Queued(j) \/ j = x)
         /\ (\A i, k \in DOMAIN queue : queue[i] = queue[k] => i = k) /\ ~Queued(x)
              => \A i, k \in DOMAIN queue' : queue'[i] = queue'[k] => i = k
<1>1. /\ Len(queue) \in Nat /\ DOMAIN queue = 1 .. Len(queue)
      /\ DOMAIN queue' = 1 .. Len(queue) + 1
      /\ \A i \in 1 .. Len(queue) : queue'[i] = queue[i]
      /\ queue'[Len(queue) + 1] = x /\ queue' \in Seq(Jobs)
  BY Pushed
<1>2. QED
  BY <1>1 DEF Queued

LEMMA PoppedPlaces ==
  ASSUME queue \in Seq(Jobs), queue # <<>>, queue' = Tail(queue), NEW x, x = Head(queue)
  PROVE  /\ queue' \in Seq(Jobs) /\ x \in Jobs /\ Queued(x)
         /\ \A j \in Jobs : j # x => (Queued(j)' <=> Queued(j))
         /\ \A j \in Jobs : Queued(j)' => Queued(j)
         /\ (\A i, k \in DOMAIN queue : queue[i] = queue[k] => i = k)
              => /\ ~Queued(x)'
                 /\ \A i, k \in DOMAIN queue' : queue'[i] = queue'[k] => i = k
<1>1. /\ Len(queue) \in Nat /\ Len(queue) > 0 /\ DOMAIN queue = 1 .. Len(queue)
      /\ x = queue[1] /\ x \in Jobs
      /\ DOMAIN queue' = 1 .. Len(queue) - 1
      /\ \A i \in 1 .. Len(queue) - 1 : queue'[i] = queue[i + 1]
      /\ queue' \in Seq(Jobs)
  BY Popped
<1>2. Queued(x)
  BY <1>1 DEF Queued
<1>3. ASSUME NEW j \in Jobs PROVE Queued(j)' => Queued(j)
  BY <1>1 DEF Queued
<1>4. ASSUME NEW j \in Jobs, j # x, Queued(j) PROVE Queued(j)'
  <2>1. PICK i \in 1 .. Len(queue) : queue[i] = j
    BY <1>1, <1>4 DEF Queued
  <2>2. i # 1 /\ i - 1 \in 1 .. Len(queue) - 1 /\ (i - 1) + 1 = i
    BY <1>1, <1>4, <2>1
  <2>3. queue'[i - 1] = j
    BY <1>1, <2>1, <2>2
  <2>4. QED
    BY <1>1, <2>2, <2>3 DEF Queued
<1>5. ASSUME \A i, k \in DOMAIN queue : queue[i] = queue[k] => i = k
      PROVE  /\ ~Queued(x)'
             /\ \A i, k \in DOMAIN queue' : queue'[i] = queue'[k] => i = k
  <2>1. ASSUME NEW i \in DOMAIN queue', queue'[i] = x PROVE FALSE
    <3>1. i \in 1 .. Len(queue) - 1 /\ i + 1 \in 1 .. Len(queue) /\ 1 \in 1 .. Len(queue)
      BY <1>1
    <3>2. QED
      BY <1>1, <1>5, <2>1, <3>1
  <2>2. ASSUME NEW i \in DOMAIN queue', NEW k \in DOMAIN queue', queue'[i] = queue'[k] PROVE i = k
    <3>1. i + 1 \in 1 .. Len(queue) /\ k + 1 \in 1 .. Len(queue) /\ queue[i + 1] = queue[k + 1]
      BY <1>1, <2>2
    <3>2. i + 1 = k + 1
      BY <1>1, <1>5, <3>1
    <3>3. QED
      BY <1>1, <3>2
  <2>3. QED
    BY <2>1, <2>2 DEF Queued
<1>6. QED
  BY <1>1, <1>2, <1>3, <1>4, <1>5
-----------------------------------------------------------------------------
\* Steps that move no job to a new place keep every job where it is, or lose it.
LEMMA StaysHeld ==
  ASSUME HeldOnce,
         \A j \in Jobs : Queued(j)' => Queued(j),
         \A i, k \in DOMAIN queue' : queue'[i] = queue'[k] => i = k,
         \A w \in Workers : hand'[w] = hand[w] \/ hand'[w] = NoJob,
         \A w \in Workers, j \in Jobs : task'[w][j] # "none" => task[w][j] # "none"
  PROVE  HeldOnce'
<1> USE Constants
<1>1. \A j \in Jobs : (InHand(j)' => InHand(j)) /\ (InTask(j)' => InTask(j))
  BY DEF InHand, InTask
<1>2. \A v, w \in Workers : hand'[v] = hand'[w] /\ hand'[v] # NoJob => v = w
  BY DEF HeldOnce
<1>3. \A v, w \in Workers, j \in Jobs : task'[v][j] # "none" /\ task'[w][j] # "none" => v = w
  BY DEF HeldOnce
<1>4. \A j \in Jobs : /\ Queued(j)' => ~InHand(j)' /\ ~InTask(j)'
                      /\ InHand(j)' => ~InTask(j)'
  BY <1>1 DEF HeldOnce
<1>5. QED
  BY <1>2, <1>3, <1>4 DEF HeldOnce

LEMMA SameQueue ==
  ASSUME HeldOnce, UNCHANGED queue
  PROVE  /\ \A j \in Jobs : Queued(j)' <=> Queued(j)
         /\ \A i, k \in DOMAIN queue' : queue'[i] = queue'[k] => i = k
BY DEF HeldOnce, Queued

\* A job nobody has comes into the list.
LEMMA EntersHeld ==
  ASSUME TypeOK, HeldOnce, NEW j \in Jobs, ~Queued(j), ~InHand(j), ~InTask(j),
         queue' = Append(queue, j), UNCHANGED <<hand, task>>
  PROVE  HeldOnce' /\ queue' \in Seq(Jobs) /\ \A k \in Jobs : Queued(k)' <=> (Queued(k) \/ k = j)
<1>1. /\ queue' \in Seq(Jobs)
      /\ \A k \in Jobs : Queued(k)' <=> (Queued(k) \/ k = j)
      /\ \A i, k \in DOMAIN queue' : queue'[i] = queue'[k] => i = k
  BY PushedPlaces DEF TypeOK, HeldOnce
<1>2. \A k \in Jobs : (InHand(k)' <=> InHand(k)) /\ (InTask(k)' <=> InTask(k))
  BY DEF InHand, InTask
<1>3. QED
  BY <1>1, <1>2 DEF HeldOnce

LEMMA HeldStep ==
  ASSUME TypeOK, FreshInv, HeldOnce, [Next]_vars
  PROVE  HeldOnce'
<1> USE Constants
<1>t. /\ hand \in [Workers -> Jobs \cup {NoJob}] /\ task \in [Workers -> [Jobs -> TaskStage]]
      /\ queue \in Seq(Jobs) /\ \A w \in Workers : (hand[w] # NoJob) = (loop[w] = "hand")
  BY DEF TypeOK
<1>0. ASSUME UNCHANGED <<queue, hand, task>> PROVE HeldOnce'
  BY <1>0 DEF HeldOnce, Queued, InHand, InTask
<1>1. ASSUME NEW j \in Jobs, NEW p \in Workers \cup {AnyWorker}, Enqueue(j, p) \/ EnqueueFails(j, p)
      PROVE  HeldOnce'
  <2>1. UNCHANGED <<hand, task>> /\ ~Queued(j) /\ ~InHand(j) /\ ~InTask(j)
    BY <1>1 DEF Enqueue, EnqueueFails, workers, FreshInv
  <2>2. UNCHANGED queue \/ queue' = Append(queue, j)
    BY <1>1 DEF Enqueue, EnqueueFails
  <2>3. QED
    BY <1>0, <2>1, <2>2, EntersHeld
<1>2. ASSUME NEW j \in Jobs, PollDone(j) \/ GiveUp(j) \/ ResultExpires(j) PROVE HeldOnce'
  BY <1>0, <1>2 DEF PollDone, GiveUp, ResultExpires, workers
<1>3. ASSUME NEW w \in Workers, CheckCapacity(w) \/ PopNothing(w) \/ PopRaises(w) \/ Wake(w) \/ Sigterm(w) \/ Exit(w) \/ Restart(w)
      PROVE  HeldOnce'
  BY <1>0, <1>3 DEF CheckCapacity, PopNothing, PopRaises, Wake, Sigterm, Exit, Restart
<1>4. ASSUME NEW w \in Workers, Pop(w) \/ PopReplyLost(w) PROVE HeldOnce'
  <2>1. queue # <<>> /\ queue' = Tail(queue) /\ UNCHANGED task /\ hand[w] = NoJob
    BY <1>4, <1>t DEF Pop, PopReplyLost
  <2>2. PICK x : x = Head(queue)
    OBVIOUS
  <2>3. /\ x \in Jobs /\ Queued(x) /\ ~Queued(x)'
        /\ \A j \in Jobs : Queued(j)' => Queued(j)
        /\ \A i, k \in DOMAIN queue' : queue'[i] = queue'[k] => i = k
    BY <2>1, <2>2, <1>t, PoppedPlaces DEF HeldOnce
  <2>4. CASE UNCHANGED hand
    BY <2>1, <2>3, <2>4, StaysHeld
  <2>5. CASE hand' = [hand EXCEPT ![w] = x]
    <3>1. ~InHand(x) /\ ~InTask(x)
      BY <2>3 DEF HeldOnce
    <3>2. \A j \in Jobs : (InHand(j)' => InHand(j) \/ j = x) /\ (InTask(j)' <=> InTask(j))
      BY <2>1, <2>5, <1>t DEF InHand, InTask
    <3>3. \A v, u \in Workers : hand'[v] = hand'[u] /\ hand'[v] # NoJob => v = u
      BY <2>1, <2>5, <3>1, <1>t, <2>3 DEF HeldOnce, InHand
    <3>4. QED
      BY <2>1, <2>3, <3>1, <3>2, <3>3 DEF HeldOnce
  <2>6. QED
    BY <1>4, <2>2, <2>4, <2>5 DEF Pop, PopReplyLost
<1>5. ASSUME NEW w \in Workers, Dispatch(w) PROVE HeldOnce'
  <2>1. PICK x \in Jobs : x = hand[w]
    BY <1>5, <1>t DEF Dispatch
  <2>2. /\ UNCHANGED queue /\ hand' = [hand EXCEPT ![w] = NoJob]
        /\ task' = [task EXCEPT ![w][x] = "running"]
    BY <1>5, <2>1 DEF Dispatch
  <2>3. InHand(x) /\ ~InTask(x) /\ ~Queued(x)
    BY <2>1 DEF InHand, HeldOnce
  <2>4. /\ \A i, k \in DOMAIN queue' : queue'[i] = queue'[k] => i = k
        /\ \A j \in Jobs : Queued(j)' <=> Queued(j)
    BY <2>2, SameQueue
  <2>5. ~InHand(x)' /\ \A j \in Jobs : InHand(j)' => InHand(j)
    BY <2>1, <2>2, <1>t DEF InHand, HeldOnce
  <2>6. \A v \in Workers, j \in Jobs : task'[v][j] # "none" => task[v][j] # "none" \/ (v = w /\ j = x)
    BY <2>2, <1>t
  <2>7. \A j \in Jobs : InTask(j)' => InTask(j) \/ j = x
    BY <2>6 DEF InTask
  <2>8. \A v, u \in Workers : hand'[v] = hand'[u] /\ hand'[v] # NoJob => v = u
    BY <2>2, <1>t DEF HeldOnce
  <2>9. \A v, u \in Workers, j \in Jobs : task'[v][j] # "none" /\ task'[u][j] # "none" => v = u
    BY <2>3, <2>6 DEF HeldOnce, InTask
  <2>10. QED
    BY <2>3, <2>4, <2>5, <2>7, <2>8, <2>9 DEF HeldOnce
<1>6. ASSUME NEW w \in Workers, PushBack(w) \/ PushBackFails(w) PROVE HeldOnce'
  <2>1. PICK x \in Jobs : x = hand[w]
    BY <1>6, <1>t DEF PushBack, PushBackFails
  <2>2. /\ hand' = [hand EXCEPT ![w] = NoJob] /\ UNCHANGED task
        /\ queue' = Append(queue, x) \/ UNCHANGED queue
    BY <1>6, <2>1 DEF PushBack, PushBackFails
  <2>3. InHand(x) /\ ~InTask(x) /\ ~Queued(x)
    BY <2>1 DEF InHand, HeldOnce
  <2>4. CASE UNCHANGED queue
    BY <2>2, <2>4, <1>t, SameQueue, StaysHeld
  <2>5. CASE queue' = Append(queue, x)
    <3>1. /\ \A j \in Jobs : Queued(j)' <=> (Queued(j) \/ j = x)
          /\ \A i, k \in DOMAIN queue' : queue'[i] = queue'[k] => i = k
      BY <2>3, <2>5, <1>t, PushedPlaces DEF HeldOnce
    <3>2. ~InHand(x)' /\ \A j \in Jobs : (InHand(j)' => InHand(j)) /\ (InTask(j)' <=> InTask(j))
      BY <2>1, <2>2, <1>t DEF InHand, InTask, HeldOnce
    <3>3. \A v, u \in Workers : hand'[v] = hand'[u] /\ hand'[v] # NoJob => v = u
      BY <2>2, <1>t DEF HeldOnce
    <3>4. QED
      BY <2>2, <2>3, <3>1, <3>2, <3>3 DEF HeldOnce
  <2>6. QED
    BY <2>2, <2>4, <2>5
<1>7. ASSUME NEW w \in Workers, NEW j \in Jobs,
             RunStores(w, j) \/ RunRaises(w, j) \/ ErrorStores(w, j) \/ ErrorStoreFails(w, j)
      PROVE  HeldOnce'
  <2>1. UNCHANGED <<queue, hand>> /\ task[w][j] # "none"
        /\ \E stage \in TaskStage : task' = [task EXCEPT ![w][j] = stage]
    BY <1>7 DEF RunStores, RunRaises, ErrorStores, ErrorStoreFails, TaskStage
  <2>2. \A v \in Workers, k \in Jobs : task'[v][k] # "none" => task[v][k] # "none"
    BY <2>1, <1>t
  <2>3. QED
    BY <2>1, <2>2, SameQueue, StaysHeld
<1>8. ASSUME NEW w \in Workers, Crash(w) PROVE HeldOnce'
  <2>1. /\ UNCHANGED queue /\ hand' = [hand EXCEPT ![w] = NoJob]
        /\ task' = [task EXCEPT ![w] = [j \in Jobs |-> "none"]]
    BY <1>8 DEF Crash
  <2>2. \A v \in Workers, k \in Jobs : task'[v][k] # "none" => task[v][k] # "none"
    BY <2>1, <1>t
  <2>3. \A v \in Workers : hand'[v] = hand[v] \/ hand'[v] = NoJob
    BY <2>1, <1>t
  <2>4. QED
    BY <2>1, <2>2, <2>3, SameQueue, StaysHeld
<1>9. CASE UNCHANGED vars
  BY <1>0, <1>9 DEF vars, workers
<1>10. QED
  BY <1>1, <1>2, <1>3, <1>4, <1>5, <1>6, <1>7, <1>8, <1>9 DEF Next
-----------------------------------------------------------------------------
\* TypeOK, job by job.
Types ==
  /\ client \in [Jobs -> {"new", "waiting", "over"}]
  /\ pin \in [Jobs -> Workers \cup {AnyWorker}]
  /\ queue \in Seq(Jobs)
  /\ result \in [Jobs -> {"none", "stored"}]
  /\ mode \in [Workers -> {"up", "draining", "down"}]
  /\ loop \in [Workers -> {"top", "brpop", "hand", "rest"}]
  /\ hand \in [Workers -> Jobs \cup {NoJob}]
  /\ task \in [Workers -> [Jobs -> TaskStage]]
  /\ restarts \in 0 .. MaxRestarts
  /\ lost \in SUBSET Jobs
  /\ \A w \in Workers :
       /\ mode[w] = "down" => loop[w] = "top" /\ \A j \in Jobs : task[w][j] = "none"
       /\ hand[w] # NoJob <=> loop[w] = "hand"

LEMMA TypesSame == (TypeOK <=> Types) /\ (TypeOK' <=> Types')
<1>1. \A w \in Workers : InFlight(w) = {} <=> \A j \in Jobs : task[w][j] = "none"
  BY DEF InFlight
<1>2. \A w \in Workers : InFlight(w)' = {} <=> \A j \in Jobs : task'[w][j] = "none"
  BY DEF InFlight
<1>3. QED
  BY <1>1, <1>2 DEF TypeOK, Types

LEMMA TypeStep == TypeOK /\ [Next]_vars => TypeOK'
<1> SUFFICES ASSUME Types, [Next]_vars PROVE Types'
  BY TypesSame
<1>t. /\ client \in [Jobs -> {"new", "waiting", "over"}]
      /\ pin \in [Jobs -> Workers \cup {AnyWorker}]
      /\ result \in [Jobs -> {"none", "stored"}]
      /\ mode \in [Workers -> {"up", "draining", "down"}]
      /\ loop \in [Workers -> {"top", "brpop", "hand", "rest"}]
      /\ hand \in [Workers -> Jobs \cup {NoJob}]
      /\ task \in [Workers -> [Jobs -> TaskStage]]
  BY DEF Types
<1>u. restarts \in 0 .. MaxRestarts /\ lost \in SUBSET Jobs /\ queue \in Seq(Jobs)
  BY DEF Types
<1>w. \A w \in Workers :
        /\ mode[w] = "down" => loop[w] = "top" /\ \A j \in Jobs : task[w][j] = "none"
        /\ hand[w] # NoJob <=> loop[w] = "hand"
  BY DEF Types
<1>c. NoJob \notin Jobs /\ MaxRestarts \in Nat
  BY Constants
<1>p. \A x \in Jobs : Append(queue, x) \in Seq(Jobs)
  BY <1>u, Pushed
<1>q. queue # <<>> => Tail(queue) \in Seq(Jobs) /\ Head(queue) \in Jobs
  BY <1>u, Popped
<1>1. ASSUME NEW j \in Jobs, NEW p \in Workers \cup {AnyWorker}, Enqueue(j, p) \/ EnqueueFails(j, p)
      PROVE  Types'
  <2>1. /\ client' = [client EXCEPT ![j] = "waiting"] \/ client' = [client EXCEPT ![j] = "over"]
        /\ UNCHANGED pin \/ pin' = [pin EXCEPT ![j] = p]
        /\ UNCHANGED queue \/ queue' = Append(queue, j)
        /\ UNCHANGED <<result, mode, loop, hand, task, restarts, lost>>
    BY <1>1 DEF Enqueue, EnqueueFails, workers
  <2>2. /\ client' \in [Jobs -> {"new", "waiting", "over"}]
        /\ pin' \in [Jobs -> Workers \cup {AnyWorker}]
    BY <1>t, <2>1
  <2>3. queue' \in Seq(Jobs)
    BY <1>u, <1>p, <2>1
  <2>4. QED
    BY <1>t, <1>u, <1>w, <2>1, <2>2, <2>3 DEF Types
<1>2. ASSUME NEW j \in Jobs, PollDone(j) \/ GiveUp(j) \/ ResultExpires(j) PROVE Types'
  <2>1. /\ UNCHANGED client \/ client' = [client EXCEPT ![j] = "over"]
        /\ UNCHANGED result \/ result' = [result EXCEPT ![j] = "none"]
        /\ UNCHANGED <<pin, queue, mode, loop, hand, task, restarts, lost>>
    BY <1>2 DEF PollDone, GiveUp, ResultExpires, workers, requests
  <2>2. client' \in [Jobs -> {"new", "waiting", "over"}] /\ result' \in [Jobs -> {"none", "stored"}]
    BY <1>t, <2>1
  <2>3. QED
    BY <1>t, <1>u, <1>w, <2>1, <2>2 DEF Types
\* What a worker does to its loop and to its hand.
<1>l. ASSUME NEW w \in Workers, NEW where \in {"top", "brpop", "hand", "rest"}, NEW x \in Jobs \cup {NoJob},
             loop' = [loop EXCEPT ![w] = where], hand' = [hand EXCEPT ![w] = x],
             x # NoJob <=> where = "hand",
             mode[w] = "down" => where = "top",
             \A v \in Workers : mode'[v] = "down" => mode[v] = "down",
             mode' \in [Workers -> {"up", "draining", "down"}],
             task' \in [Workers -> [Jobs -> TaskStage]],
             \A v \in Workers, k \in Jobs : mode[v] = "down" => task'[v][k] = task[v][k],
             queue' \in Seq(Jobs), lost' \in SUBSET Jobs, UNCHANGED <<client, pin, result, restarts>>
      PROVE  Types'
  <2>1. /\ loop' \in [Workers -> {"top", "brpop", "hand", "rest"}]
        /\ hand' \in [Workers -> Jobs \cup {NoJob}]
        /\ \A v \in Workers : IF v = w THEN loop'[v] = where /\ hand'[v] = x
                                       ELSE loop'[v] = loop[v] /\ hand'[v] = hand[v]
    BY <1>l, <1>t
  <2>2. \A v \in Workers :
          /\ mode'[v] = "down" => loop'[v] = "top" /\ \A j \in Jobs : task'[v][j] = "none"
          /\ hand'[v] # NoJob <=> loop'[v] = "hand"
    BY <1>l, <1>w, <2>1
  <2>3. QED
    BY <1>l, <1>t, <1>u, <2>1, <2>2 DEF Types
<1>3. ASSUME NEW w \in Workers, CheckCapacity(w) \/ PopNothing(w) \/ PopRaises(w) \/ Wake(w) \/ PopReplyLost(w) PROVE Types'
  <2>1. /\ loop[w] # "hand" /\ (loop[w] = "top" => mode[w] = "up")
        /\ \E where \in {"top", "brpop", "rest"} : loop' = [loop EXCEPT ![w] = where]
        /\ UNCHANGED <<client, pin, result, mode, hand, task, restarts>>
    BY <1>3 DEF CheckCapacity, PopNothing, PopRaises, Wake, PopReplyLost, Goto, requests
  <2>2. queue' \in Seq(Jobs) /\ lost' \in SUBSET Jobs
    BY <1>3, <1>u, <1>q DEF CheckCapacity, PopNothing, PopRaises, Wake, PopReplyLost
  <2>3. hand' = [hand EXCEPT ![w] = NoJob] /\ mode[w] # "down"
    BY <1>t, <1>w, <2>1
  <2>4. QED
    BY <1>l, <1>t, <2>1, <2>2, <2>3
<1>4. ASSUME NEW w \in Workers, Pop(w) PROVE Types'
  <2>1. PICK x \in Jobs : x = Head(queue)
    BY <1>4, <1>q DEF Pop
  <2>2. /\ hand' = [hand EXCEPT ![w] = x] /\ loop' = [loop EXCEPT ![w] = "hand"]
        /\ loop[w] = "brpop" /\ UNCHANGED <<client, pin, result, mode, task, restarts, lost>>
    BY <1>4, <2>1 DEF Pop, Goto, requests
  <2>3. queue' \in Seq(Jobs) /\ mode[w] # "down"
    BY <1>4, <1>q, <1>w, <2>2 DEF Pop
  <2>4. QED
    BY <1>c, <1>l, <1>t, <1>u, <2>2, <2>3
<1>6. ASSUME NEW w \in Workers, Dispatch(w) PROVE Types'
  <2>1. PICK x \in Jobs : x = hand[w]
    BY <1>6, <1>t, <1>w DEF Dispatch
  <2>2. /\ hand' = [hand EXCEPT ![w] = NoJob] /\ loop' = [loop EXCEPT ![w] = "top"]
        /\ task' = [task EXCEPT ![w][x] = "running"] /\ loop[w] = "hand"
        /\ UNCHANGED <<client, pin, queue, result, mode, restarts, lost>>
    BY <1>6, <2>1 DEF Dispatch, Goto, requests
  <2>3. /\ task' \in [Workers -> [Jobs -> TaskStage]]
        /\ \A v \in Workers, k \in Jobs : v # w => task'[v][k] = task[v][k]
    BY <1>t, <2>2 DEF TaskStage
  <2>4. mode[w] # "down"
    BY <1>w, <2>2
  <2>5. QED
    BY <1>l, <1>t, <1>u, <2>2, <2>3, <2>4
<1>7. ASSUME NEW w \in Workers, PushBack(w) \/ PushBackFails(w) PROVE Types'
  <2>1. PICK x \in Jobs : x = hand[w]
    BY <1>7, <1>t, <1>w DEF PushBack, PushBackFails
  <2>2. /\ loop[w] = "hand" /\ hand' = [hand EXCEPT ![w] = NoJob]
        /\ \E where \in {"top", "rest"} : loop' = [loop EXCEPT ![w] = where]
        /\ UNCHANGED mode \/ mode' = [mode EXCEPT ![w] = "draining"]
        /\ UNCHANGED <<client, pin, result, task, restarts>>
    BY <1>7 DEF PushBack, PushBackFails, Goto, requests
  <2>3. /\ UNCHANGED queue \/ queue' = Append(queue, x)
        /\ UNCHANGED lost \/ lost' = lost \cup {x}
    BY <1>7, <2>1 DEF PushBack, PushBackFails
  <2>4. queue' \in Seq(Jobs) /\ lost' \in SUBSET Jobs
    BY <1>p, <1>u, <2>3
  <2>5. /\ mode[w] # "down" /\ mode' \in [Workers -> {"up", "draining", "down"}]
        /\ \A v \in Workers : mode'[v] = "down" => mode[v] = "down"
    BY <1>t, <1>w, <2>2
  <2>6. QED
    BY <1>l, <1>t, <2>2, <2>4, <2>5
<1>9. ASSUME NEW w \in Workers, NEW j \in Jobs,
             RunStores(w, j) \/ RunRaises(w, j) \/ ErrorStores(w, j) \/ ErrorStoreFails(w, j)
      PROVE  Types'
  <2>1. /\ UNCHANGED <<client, pin, queue, mode, loop, hand, restarts>>
        /\ UNCHANGED lost \/ lost' = lost \cup {j}
        /\ \E r \in {result[j], "stored"} : result' = [result EXCEPT ![j] = r]
    BY <1>9 DEF RunStores, RunRaises, ErrorStores, ErrorStoreFails, requests
  <2>2. task[w][j] # "none" /\ \E stage \in TaskStage : task' = [task EXCEPT ![w][j] = stage]
    BY <1>9 DEF RunStores, RunRaises, ErrorStores, ErrorStoreFails, TaskStage
  <2>3. task' \in [Workers -> [Jobs -> TaskStage]]
        /\ \A v \in Workers, k \in Jobs : task'[v][k] # "none" => task[v][k] # "none"
    BY <1>t, <2>2
  <2>4. result' \in [Jobs -> {"none", "stored"}] /\ lost' \in SUBSET Jobs
    BY <1>t, <1>u, <2>1
  <2>5. \A v \in Workers :
          /\ mode'[v] = "down" => loop'[v] = "top" /\ \A k \in Jobs : task'[v][k] = "none"
          /\ hand'[v] # NoJob <=> loop'[v] = "hand"
    BY <1>w, <2>1, <2>3
  <2>6. QED
    BY <1>t, <1>u, <2>1, <2>3, <2>4, <2>5 DEF Types
<1>10. ASSUME NEW w \in Workers, Sigterm(w) \/ Exit(w) \/ Restart(w) PROVE Types'
  <2>1. /\ UNCHANGED <<client, pin, queue, result, loop, hand, task, lost>>
        /\ \/ mode' = [mode EXCEPT ![w] = "up"] \/ mode' = [mode EXCEPT ![w] = "draining"]
           \/ mode' = [mode EXCEPT ![w] = "down"] /\ loop[w] = "top" /\ InFlight(w) = {}
        /\ UNCHANGED restarts \/ (restarts < MaxRestarts /\ restarts' = restarts + 1)
    <3>1. CASE Sigterm(w)
      BY <3>1 DEF Sigterm, requests
    <3>2. CASE Exit(w)
      BY <3>2 DEF Exit, requests
    <3>3. CASE Restart(w)
      BY <3>3 DEF Restart, requests
    <3>4. QED
      BY <1>10, <3>1, <3>2, <3>3
  <2>2. mode' \in [Workers -> {"up", "draining", "down"}] /\ restarts' \in 0 .. MaxRestarts
    <3>1. mode' \in [Workers -> {"up", "draining", "down"}]
      BY <1>t, <2>1
    <3>2. restarts \in Nat /\ restarts <= MaxRestarts
      BY <1>c, <1>u
    <3>3. restarts' \in 0 .. MaxRestarts
      BY <1>c, <2>1, <3>2
    <3>4. QED
      BY <3>1, <3>3
  <2>3. InFlight(w) = {} => \A j \in Jobs : task[w][j] = "none"
    BY DEF InFlight
  <2>4. \A v \in Workers :
          /\ mode'[v] = "down" => loop'[v] = "top" /\ \A j \in Jobs : task'[v][j] = "none"
          /\ hand'[v] # NoJob <=> loop'[v] = "hand"
    BY <1>t, <1>w, <2>1, <2>3
  <2>5. QED
    BY <1>t, <1>u, <2>1, <2>2, <2>4 DEF Types
<1>11. ASSUME NEW w \in Workers, Crash(w) PROVE Types'
  <2>1. /\ mode' = [mode EXCEPT ![w] = "down"] /\ loop' = [loop EXCEPT ![w] = "top"]
        /\ hand' = [hand EXCEPT ![w] = NoJob]
        /\ task' = [task EXCEPT ![w] = [j \in Jobs |-> "none"]]
        /\ UNCHANGED <<client, pin, queue, result, restarts>>
    BY <1>11 DEF Crash, requests
  <2>2. InFlight(w) \subseteq Jobs /\ {hand[w]} \ {NoJob} \subseteq Jobs
    BY <1>t DEF InFlight
  <2>3. lost' \in SUBSET Jobs
    BY <1>11, <1>u, <2>2 DEF Crash
  <2>4. /\ mode' \in [Workers -> {"up", "draining", "down"}]
        /\ loop' \in [Workers -> {"top", "brpop", "hand", "rest"}]
        /\ hand' \in [Workers -> Jobs \cup {NoJob}] /\ task' \in [Workers -> [Jobs -> TaskStage]]
    BY <1>t, <2>1 DEF TaskStage
  <2>5. \A v \in Workers :
          /\ mode'[v] = "down" => loop'[v] = "top" /\ \A j \in Jobs : task'[v][j] = "none"
          /\ hand'[v] # NoJob <=> loop'[v] = "hand"
    BY <1>t, <1>w, <2>1
  <2>6. QED
    BY <1>t, <1>u, <2>1, <2>3, <2>4, <2>5 DEF Types
<1>12. CASE UNCHANGED vars
  BY <1>12 DEF vars, requests, workers, Types
<1>13. QED
  BY <1>1, <1>2, <1>3, <1>4, <1>6, <1>7, <1>9, <1>10, <1>11, <1>12 DEF Next

\* Only making the request brings its job into the system.
LEMMA FreshStep ==
  ASSUME TypeOK, FreshInv, [Next]_vars, NEW k \in Jobs, client'[k] = "new"
  PROVE  ~Queued(k)' /\ ~InHand(k)' /\ ~InTask(k)'
<1> USE Constants
<1>t. /\ hand \in [Workers -> Jobs \cup {NoJob}] /\ task \in [Workers -> [Jobs -> TaskStage]]
      /\ queue \in Seq(Jobs) /\ client \in [Jobs -> {"new", "waiting", "over"}]
      /\ \A w \in Workers : (hand[w] # NoJob) = (loop[w] = "hand")
  BY DEF TypeOK
<1>0. ASSUME client[k] = "new", Queued(k)' => Queued(k),
             \A v \in Workers : hand'[v] = k => InHand(k) \/ Queued(k),
             \A v \in Workers : task'[v][k] # "none" => InTask(k) \/ InHand(k)
      PROVE  ~Queued(k)' /\ ~InHand(k)' /\ ~InTask(k)'
  BY <1>0 DEF FreshInv, InHand, InTask
<1>s. ASSUME client[k] = "new", UNCHANGED <<queue, hand, task>>
      PROVE  ~Queued(k)' /\ ~InHand(k)' /\ ~InTask(k)'
  BY <1>s DEF FreshInv, Queued, InHand, InTask
<1>1. ASSUME NEW j \in Jobs, NEW p \in Workers \cup {AnyWorker}, Enqueue(j, p) \/ EnqueueFails(j, p)
      PROVE  ~Queued(k)' /\ ~InHand(k)' /\ ~InTask(k)'
  <2>1. k # j /\ client[k] = "new" /\ UNCHANGED <<hand, task>>
    BY <1>1, <1>t DEF Enqueue, EnqueueFails, workers
  <2>2. UNCHANGED queue \/ queue' = Append(queue, j)
    BY <1>1 DEF Enqueue, EnqueueFails
  <2>3. Queued(k)' => Queued(k)
    BY <2>1, <2>2, <1>t, PushedPlaces DEF Queued
  <2>4. QED
    BY <1>0, <2>1, <2>3 DEF InHand, InTask
<1>2. ASSUME NEW j \in Jobs, PollDone(j) \/ GiveUp(j) \/ ResultExpires(j)
      PROVE  ~Queued(k)' /\ ~InHand(k)' /\ ~InTask(k)'
  BY <1>s, <1>t, <1>2 DEF PollDone, GiveUp, ResultExpires, workers, requests
<1>3. ASSUME NEW w \in Workers, CheckCapacity(w) \/ PopNothing(w) \/ PopRaises(w) \/ Wake(w) \/ Sigterm(w) \/ Exit(w) \/ Restart(w)
      PROVE  ~Queued(k)' /\ ~InHand(k)' /\ ~InTask(k)'
  BY <1>s, <1>3 DEF CheckCapacity, PopNothing, PopRaises, Wake, Sigterm, Exit, Restart, requests
<1>4. ASSUME NEW w \in Workers, Pop(w) \/ PopReplyLost(w)
      PROVE  ~Queued(k)' /\ ~InHand(k)' /\ ~InTask(k)'
  <2>1. queue # <<>> /\ queue' = Tail(queue) /\ UNCHANGED <<client, task>>
    BY <1>4 DEF Pop, PopReplyLost, requests
  <2>2. PICK x : x = Head(queue)
    OBVIOUS
  <2>3. x \in Jobs /\ Queued(x) /\ (Queued(k)' => Queued(k))
    BY <2>1, <2>2, <1>t, PoppedPlaces
  <2>4. \A v \in Workers : hand'[v] = k => InHand(k) \/ k = x
    BY <1>4, <1>t, <2>2 DEF Pop, PopReplyLost, InHand
  <2>5. QED
    BY <1>0, <2>1, <2>3, <2>4 DEF InTask
<1>5. ASSUME NEW w \in Workers, Dispatch(w) PROVE ~Queued(k)' /\ ~InHand(k)' /\ ~InTask(k)'
  <2>1. PICK x \in Jobs : x = hand[w]
    BY <1>5, <1>t DEF Dispatch
  <2>2. /\ UNCHANGED <<queue, client>> /\ hand' = [hand EXCEPT ![w] = NoJob]
        /\ task' = [task EXCEPT ![w][x] = "running"]
    BY <1>5, <2>1 DEF Dispatch, requests
  <2>3. \A v \in Workers : hand'[v] = k => hand[v] = k
    BY <2>2, <1>t
  <2>4. \A v \in Workers : task'[v][k] # "none" => task[v][k] # "none" \/ k = x
    BY <2>2, <1>t
  <2>5. QED
    BY <1>0, <2>1, <2>2, <2>3, <2>4 DEF Queued, InHand, InTask
<1>6. ASSUME NEW w \in Workers, PushBack(w) \/ PushBackFails(w)
      PROVE  ~Queued(k)' /\ ~InHand(k)' /\ ~InTask(k)'
  <2>1. PICK x \in Jobs : x = hand[w]
    BY <1>6, <1>t DEF PushBack, PushBackFails
  <2>2. /\ UNCHANGED <<client, task>> /\ hand' = [hand EXCEPT ![w] = NoJob]
        /\ queue' = Append(queue, x) \/ UNCHANGED queue
    BY <1>6, <2>1 DEF PushBack, PushBackFails, requests
  <2>3. InHand(x)
    BY <2>1 DEF InHand
  <2>4. k # x
    BY <2>2, <2>3 DEF FreshInv
  <2>5. Queued(k)' => Queued(k)
    BY <2>2, <2>4, <1>t, PushedPlaces DEF Queued
  <2>6. \A v \in Workers : hand'[v] = k => hand[v] = k
    BY <2>2, <1>t
  <2>7. QED
    BY <1>0, <2>2, <2>5, <2>6 DEF InHand, InTask
<1>7. ASSUME NEW w \in Workers, NEW j \in Jobs,
             RunStores(w, j) \/ RunRaises(w, j) \/ ErrorStores(w, j) \/ ErrorStoreFails(w, j)
      PROVE  ~Queued(k)' /\ ~InHand(k)' /\ ~InTask(k)'
  <2>1. UNCHANGED <<client, queue, hand>> /\ task[w][j] # "none"
        /\ \E stage \in TaskStage : task' = [task EXCEPT ![w][j] = stage]
    BY <1>7 DEF RunStores, RunRaises, ErrorStores, ErrorStoreFails, TaskStage, requests
  <2>2. \A v \in Workers : task'[v][k] # "none" => task[v][k] # "none"
    BY <2>1, <1>t
  <2>3. QED
    BY <1>0, <2>1, <2>2 DEF Queued, InHand, InTask
<1>8. ASSUME NEW w \in Workers, Crash(w) PROVE ~Queued(k)' /\ ~InHand(k)' /\ ~InTask(k)'
  <2>1. /\ UNCHANGED <<queue, client>> /\ hand' = [hand EXCEPT ![w] = NoJob]
        /\ task' = [task EXCEPT ![w] = [j \in Jobs |-> "none"]]
    BY <1>8 DEF Crash, requests
  <2>2. \A v \in Workers : task'[v][k] # "none" => task[v][k] # "none"
    BY <2>1, <1>t
  <2>3. \A v \in Workers : hand'[v] = k => hand[v] = k
    BY <2>1, <1>t
  <2>4. QED
    BY <1>0, <2>1, <2>2, <2>3 DEF Queued, InHand, InTask
<1>9. CASE UNCHANGED vars
  BY <1>s, <1>9 DEF vars, workers, requests
<1>10. QED
  BY <1>1, <1>2, <1>3, <1>4, <1>5, <1>6, <1>7, <1>8, <1>9 DEF Next

\* A set of tasks that loses members stays within its bound.
LEMMA Fewer ==
  ASSUME NEW S, NEW T, IsFiniteSet(S), T \subseteq S
  PROVE  /\ IsFiniteSet(T) /\ Cardinality(T) \in Nat /\ Cardinality(S) \in Nat
         /\ Cardinality(T) <= Cardinality(S)
BY FS_Subset, FS_CardinalityType

LEMMA OneMore ==
  ASSUME NEW S, NEW x, IsFiniteSet(S), x \notin S
  PROVE  /\ IsFiniteSet(S \cup {x})
         /\ Cardinality(S) \in Nat /\ Cardinality(S \cup {x}) = Cardinality(S) + 1
BY FS_AddElement, FS_CardinalityType

Room(w) ==
  /\ IsFiniteSet(InFlight(w)) /\ Cardinality(InFlight(w)) <= Concurrency
  /\ loop[w] \in {"brpop", "hand"} => Cardinality(InFlight(w)) < Concurrency

\* Between the capacity check and the dispatch tasks only end, and the dispatch
\* uses the room that was left.
LEMMA RoomStep ==
  ASSUME TypeOK, HeldOnce, RoomInv, [Next]_vars, NEW v \in Workers
  PROVE  Room(v)'
<1>t. /\ hand \in [Workers -> Jobs \cup {NoJob}] /\ task \in [Workers -> [Jobs -> TaskStage]]
      /\ loop \in [Workers -> {"top", "brpop", "hand", "rest"}]
      /\ \A w \in Workers : (hand[w] # NoJob) = (loop[w] = "hand")
  BY DEF TypeOK
<1>r. /\ IsFiniteSet(InFlight(v)) /\ Cardinality(InFlight(v)) \in Nat
      /\ Cardinality(InFlight(v)) <= Concurrency
      /\ loop[v] \in {"brpop", "hand"} => Cardinality(InFlight(v)) < Concurrency
      /\ Concurrency \in Nat
  BY Fewer, Constants DEF RoomInv
<1>0. ASSUME InFlight(v)' \subseteq InFlight(v),
             loop'[v] \in {"brpop", "hand"} => Cardinality(InFlight(v)) < Concurrency
      PROVE  Room(v)'
  <2>1. /\ IsFiniteSet(InFlight(v)') /\ Cardinality(InFlight(v)') \in Nat
        /\ Cardinality(InFlight(v)') <= Cardinality(InFlight(v))
    BY <1>0, <1>r, Fewer
  <2>2. QED
    BY <1>0, <1>r, <2>1 DEF Room
<1>s. ASSUME UNCHANGED task PROVE InFlight(v)' \subseteq InFlight(v)
  BY <1>s DEF InFlight
<1>1. ASSUME NEW j \in Jobs, NEW p \in Workers \cup {AnyWorker}, Enqueue(j, p) \/ EnqueueFails(j, p)
      PROVE  Room(v)'
  BY <1>0, <1>1, <1>r, <1>s DEF Enqueue, EnqueueFails, workers
<1>2. ASSUME NEW j \in Jobs, PollDone(j) \/ GiveUp(j) \/ ResultExpires(j) PROVE Room(v)'
  BY <1>0, <1>2, <1>r, <1>s DEF PollDone, GiveUp, ResultExpires, workers
<1>3. ASSUME NEW w \in Workers, PopNothing(w) \/ PopRaises(w) \/ Wake(w) \/ PopReplyLost(w) \/ PushBack(w) \/ PushBackFails(w)
      PROVE  Room(v)'
  <2>1. UNCHANGED task /\ \E where \in {"top", "rest"} : loop' = [loop EXCEPT ![w] = where]
    BY <1>3 DEF PopNothing, PopRaises, Wake, PopReplyLost, PushBack, PushBackFails, Goto
  <2>2. loop'[v] \in {"brpop", "hand"} => loop[v] \in {"brpop", "hand"}
    BY <1>t, <2>1
  <2>3. QED
    BY <1>0, <1>r, <1>s, <2>1, <2>2
<1>4. ASSUME NEW w \in Workers, CheckCapacity(w) PROVE Room(v)'
  <2>1. UNCHANGED task /\ loop' = [loop EXCEPT ![w] = "brpop"] /\ Cardinality(InFlight(w)) < Concurrency
    BY <1>4 DEF CheckCapacity, Goto
  <2>2. loop'[v] \in {"brpop", "hand"} => v = w \/ loop[v] \in {"brpop", "hand"}
    BY <1>t, <2>1
  <2>3. QED
    BY <1>0, <1>r, <1>s, <2>1, <2>2
<1>5. ASSUME NEW w \in Workers, Pop(w) PROVE Room(v)'
  <2>1. UNCHANGED task /\ loop' = [loop EXCEPT ![w] = "hand"] /\ loop[w] = "brpop"
    BY <1>5 DEF Pop, Goto
  <2>2. loop'[v] \in {"brpop", "hand"} => loop[v] \in {"brpop", "hand"}
    BY <1>t, <2>1
  <2>3. QED
    BY <1>0, <1>r, <1>s, <2>1, <2>2
<1>6. ASSUME NEW w \in Workers, Dispatch(w) PROVE Room(v)'
  <2>1. PICK x \in Jobs : x = hand[w]
    BY <1>6, <1>t, Constants DEF Dispatch
  <2>2. /\ loop[w] = "hand" /\ loop' = [loop EXCEPT ![w] = "top"]
        /\ task' = [task EXCEPT ![w][x] = "running"]
    BY <1>6, <2>1 DEF Dispatch, Goto
  <2>3. CASE v # w
    <3>1. InFlight(v)' \subseteq InFlight(v) /\ loop'[v] = loop[v]
      BY <1>t, <2>2, <2>3 DEF InFlight
    <3>2. QED
      BY <1>0, <1>r, <3>1
  <2>4. CASE v = w
    <3>1. x \notin InFlight(v)
      BY <2>1, <2>4, Constants DEF InFlight, HeldOnce, InHand, InTask
    <3>2. InFlight(v)' = InFlight(v) \cup {x} /\ loop'[v] = "top"
      BY <1>t, <2>2, <2>4 DEF InFlight
    <3>3. /\ IsFiniteSet(InFlight(v)')
          /\ Cardinality(InFlight(v)') = Cardinality(InFlight(v)) + 1
      BY <1>r, <3>1, <3>2, OneMore
    <3>4. QED
      BY <1>r, <2>2, <2>4, <3>2, <3>3 DEF Room
  <2>5. QED
    BY <2>3, <2>4
<1>7. ASSUME NEW w \in Workers, NEW j \in Jobs,
             RunStores(w, j) \/ RunRaises(w, j) \/ ErrorStores(w, j) \/ ErrorStoreFails(w, j)
      PROVE  Room(v)'
  <2>1. UNCHANGED loop /\ task[w][j] # "none"
        /\ \E stage \in TaskStage : task' = [task EXCEPT ![w][j] = stage]
    BY <1>7 DEF RunStores, RunRaises, ErrorStores, ErrorStoreFails, TaskStage
  <2>2. InFlight(v)' \subseteq InFlight(v)
    BY <1>t, <2>1 DEF InFlight
  <2>3. QED
    BY <1>0, <1>r, <2>1, <2>2
<1>8. ASSUME NEW w \in Workers, Sigterm(w) \/ Exit(w) \/ Restart(w) PROVE Room(v)'
  BY <1>0, <1>8, <1>r, <1>s DEF Sigterm, Exit, Restart
<1>9. ASSUME NEW w \in Workers, Crash(w) PROVE Room(v)'
  <2>1. task' = [task EXCEPT ![w] = [j \in Jobs |-> "none"]] /\ loop' = [loop EXCEPT ![w] = "top"]
    BY <1>9 DEF Crash
  <2>2. InFlight(v)' \subseteq InFlight(v) /\ (loop'[v] \in {"brpop", "hand"} => loop[v] \in {"brpop", "hand"})
    BY <1>t, <2>1 DEF InFlight
  <2>3. QED
    BY <1>0, <1>r, <2>2
<1>10. CASE UNCHANGED vars
  BY <1>0, <1>10, <1>r, <1>s DEF vars, workers
<1>11. QED
  BY <1>1, <1>2, <1>3, <1>4, <1>5, <1>6, <1>7, <1>8, <1>9, <1>10 DEF Next

Accounted(j) ==
  client[j] = "waiting" =>
    Queued(j) \/ InHand(j) \/ InTask(j) \/ result[j] # "none" \/ j \in lost

\* A job leaves its place for the next one, for its result, or by a fault.
LEMMA AccountStep ==
  ASSUME TypeOK, HeldOnce, [Next]_vars, NEW k \in Jobs, Accounted(k)
  PROVE  Accounted(k)'
<1>t. /\ hand \in [Workers -> Jobs \cup {NoJob}] /\ task \in [Workers -> [Jobs -> TaskStage]]
      /\ queue \in Seq(Jobs) /\ client \in [Jobs -> {"new", "waiting", "over"}]
      /\ result \in [Jobs -> {"none", "stored"}]
      /\ \A w \in Workers : (hand[w] # NoJob) = (loop[w] = "hand")
  BY DEF TypeOK
<1>c. NoJob \notin Jobs
  BY Constants
<1>0. ASSUME client'[k] = "waiting" => client[k] = "waiting",
             Queued(k) => Queued(k)' \/ InHand(k)' \/ k \in lost',
             InHand(k) => InHand(k)' \/ InTask(k)' \/ Queued(k)' \/ k \in lost',
             InTask(k) => InTask(k)' \/ result'[k] # "none" \/ k \in lost',
             client'[k] = "waiting" /\ result[k] # "none" => result'[k] # "none",
             lost \subseteq lost'
      PROVE  Accounted(k)'
  BY <1>0 DEF Accounted
<1>1. ASSUME NEW j \in Jobs, NEW p \in Workers \cup {AnyWorker}, Enqueue(j, p) \/ EnqueueFails(j, p)
      PROVE  Accounted(k)'
  <2>1. /\ UNCHANGED <<hand, task, result, lost>>
        /\ \/ client' = [client EXCEPT ![j] = "over"] /\ UNCHANGED queue
           \/ client' = [client EXCEPT ![j] = "over"] /\ queue' = Append(queue, j)
           \/ client' = [client EXCEPT ![j] = "waiting"] /\ queue' = Append(queue, j)
    BY <1>1 DEF Enqueue, EnqueueFails, workers
  <2>2. (InHand(k)' <=> InHand(k)) /\ (InTask(k)' <=> InTask(k))
    BY <2>1 DEF InHand, InTask
  <2>3. queue' = Append(queue, j) => (Queued(k)' <=> Queued(k) \/ k = j)
    BY <1>t, PushedPlaces
  <2>4. UNCHANGED queue => (Queued(k)' <=> Queued(k))
    BY DEF Queued
  <2>5. client'[k] = "waiting" => client[k] = "waiting" \/ (k = j /\ queue' = Append(queue, j))
    BY <1>t, <2>1
  <2>6. QED
    BY <2>1, <2>2, <2>3, <2>4, <2>5 DEF Accounted
<1>2. ASSUME NEW j \in Jobs, PollDone(j) \/ GiveUp(j) \/ ResultExpires(j) PROVE Accounted(k)'
  <2>1. UNCHANGED <<queue, hand, task, lost>>
    BY <1>2 DEF PollDone, GiveUp, ResultExpires, workers
  <2>2. /\ client'[k] = "waiting" => client[k] = "waiting"
        /\ client'[k] = "waiting" /\ result[k] # "none" => result'[k] # "none"
    BY <1>2, <1>t DEF PollDone, GiveUp, ResultExpires, requests
  <2>3. QED
    BY <1>0, <2>1, <2>2 DEF Queued, InHand, InTask
<1>3. ASSUME NEW w \in Workers, CheckCapacity(w) \/ PopNothing(w) \/ PopRaises(w) \/ Wake(w) \/ Sigterm(w) \/ Exit(w) \/ Restart(w)
      PROVE  Accounted(k)'
  <2>1. UNCHANGED <<client, result, queue, hand, task, lost>>
    BY <1>3 DEF CheckCapacity, PopNothing, PopRaises, Wake, Sigterm, Exit, Restart, requests
  <2>2. QED
    BY <1>0, <2>1 DEF Queued, InHand, InTask
<1>4. ASSUME NEW w \in Workers, Pop(w) \/ PopReplyLost(w) PROVE Accounted(k)'
  <2>1. /\ queue # <<>> /\ queue' = Tail(queue) /\ UNCHANGED <<client, result, task>>
        /\ hand[w] = NoJob
    BY <1>4, <1>t DEF Pop, PopReplyLost, requests
  <2>2. PICK x : x = Head(queue)
    OBVIOUS
  <2>3. k # x => (Queued(k)' <=> Queued(k))
    BY <2>1, <2>2, <1>t, PoppedPlaces
  <2>4. \/ hand' = [hand EXCEPT ![w] = x] /\ UNCHANGED lost
        \/ UNCHANGED hand /\ lost' = lost \cup {x}
    BY <1>4, <2>2 DEF Pop, PopReplyLost
  <2>5. (InHand(k) => InHand(k)') /\ (k = x => InHand(k)' \/ k \in lost')
    BY <1>c, <1>t, <2>1, <2>4 DEF InHand
  <2>6. QED
    BY <1>0, <2>1, <2>3, <2>4, <2>5 DEF InTask
<1>5. ASSUME NEW w \in Workers, Dispatch(w) PROVE Accounted(k)'
  <2>1. PICK x \in Jobs : x = hand[w]
    BY <1>5, <1>t DEF Dispatch
  <2>2. /\ UNCHANGED <<queue, client, result, lost>> /\ hand' = [hand EXCEPT ![w] = NoJob]
        /\ task' = [task EXCEPT ![w][x] = "running"]
    BY <1>5, <2>1 DEF Dispatch, requests
  <2>3. (InTask(k) => InTask(k)') /\ (k = x => InTask(k)')
    BY <1>t, <2>2 DEF InTask
  <2>4. InHand(k) => InHand(k)' \/ k = x
    BY <1>t, <2>1, <2>2 DEF InHand
  <2>5. QED
    BY <1>0, <2>2, <2>3, <2>4 DEF Queued
<1>6. ASSUME NEW w \in Workers, PushBack(w) \/ PushBackFails(w) PROVE Accounted(k)'
  <2>1. PICK x \in Jobs : x = hand[w]
    BY <1>6, <1>t DEF PushBack, PushBackFails
  <2>2. /\ UNCHANGED <<client, result, task>> /\ hand' = [hand EXCEPT ![w] = NoJob]
        /\ \/ queue' = Append(queue, x) /\ UNCHANGED lost
           \/ UNCHANGED queue /\ lost' = lost \cup {x}
    BY <1>6, <2>1 DEF PushBack, PushBackFails, requests
  <2>3. queue' = Append(queue, x) => (Queued(k)' <=> Queued(k) \/ k = x)
    BY <1>t, PushedPlaces
  <2>4. UNCHANGED queue => (Queued(k)' <=> Queued(k))
    BY DEF Queued
  <2>5. InHand(k) => InHand(k)' \/ k = x
    BY <1>t, <2>1, <2>2 DEF InHand
  <2>6. QED
    BY <1>0, <2>2, <2>3, <2>4, <2>5 DEF InTask
<1>7. ASSUME NEW w \in Workers, NEW j \in Jobs,
             RunStores(w, j) \/ RunRaises(w, j) \/ ErrorStores(w, j) \/ ErrorStoreFails(w, j)
      PROVE  Accounted(k)'
  <2>1. /\ UNCHANGED <<client, queue, hand>>
        /\ \E r \in {result[j], "stored"} : result' = [result EXCEPT ![j] = r]
        /\ lost \subseteq lost'
    BY <1>7 DEF RunStores, RunRaises, ErrorStores, ErrorStoreFails, requests
  <2>2. result[k] # "none" => result'[k] # "none"
    BY <1>t, <2>1
  <2>3. \/ task' = [task EXCEPT ![w][j] = "none"] /\ (result' = [result EXCEPT ![j] = "stored"] \/ j \in lost')
        \/ task' = [task EXCEPT ![w][j] = "excepting"]
    BY <1>7 DEF RunStores, RunRaises, ErrorStores, ErrorStoreFails
  <2>4. InTask(k) => InTask(k)' \/ result'[k] # "none" \/ k \in lost'
    <3>1. CASE k # j
      <4>1. \A v \in Workers : task'[v][k] = task[v][k]
        BY <1>t, <2>3, <3>1
      <4>2. QED
        BY <4>1 DEF InTask
    <3>2. CASE k = j /\ task' = [task EXCEPT ![w][j] = "excepting"]
      <4>1. task'[w][k] = "excepting"
        BY <1>t, <3>2
      <4>2. QED
        BY <4>1 DEF InTask
    <3>3. CASE k = j /\ (result' = [result EXCEPT ![j] = "stored"] \/ j \in lost')
      BY <1>t, <3>3
    <3>4. QED
      BY <2>3, <3>1, <3>2, <3>3
  <2>5. QED
    BY <1>0, <2>1, <2>2, <2>4 DEF Queued, InHand
<1>8. ASSUME NEW w \in Workers, Crash(w) PROVE Accounted(k)'
  <2>1. /\ UNCHANGED <<queue, client, result>> /\ hand' = [hand EXCEPT ![w] = NoJob]
        /\ task' = [task EXCEPT ![w] = [j \in Jobs |-> "none"]]
        /\ lost' = lost \cup InFlight(w) \cup ({hand[w]} \ {NoJob})
    BY <1>8 DEF Crash, requests
  <2>2. ASSUME NEW v \in Workers, hand[v] = k PROVE InHand(k)' \/ k \in lost'
    BY <1>c, <1>t, <2>1, <2>2 DEF InHand
  <2>3. ASSUME NEW v \in Workers, task[v][k] # "none" PROVE InTask(k)' \/ k \in lost'
    <3>1. CASE v = w
      BY <2>1, <2>3, <3>1 DEF InFlight
    <3>2. CASE v # w
      BY <1>t, <2>1, <2>3, <3>2 DEF InTask
    <3>3. QED
      BY <3>1, <3>2
  <2>4. QED
    BY <1>0, <2>1, <2>2, <2>3 DEF Queued, InHand, InTask
<1>9. CASE UNCHANGED vars
  BY <1>0, <1>9 DEF vars, workers, requests, Queued, InHand, InTask
<1>10. QED
  BY <1>1, <1>2, <1>3, <1>4, <1>5, <1>6, <1>7, <1>8, <1>9 DEF Next
-----------------------------------------------------------------------------
LEMMA InitHolds == Init => IInv
<1> SUFFICES ASSUME Init PROVE IInv
  OBVIOUS
<1>1. TypeOK
  <2>1. \A w \in Workers : InFlight(w) = {}
    BY DEF Init, InFlight
  <2>2. <<>> \in Seq(Jobs) /\ 0 \in 0 .. MaxRestarts
    BY Constants
  <2>3. QED
    BY <2>1, <2>2 DEF Init, TypeOK, TaskStage
<1>2. \A j \in Jobs : ~Queued(j) /\ ~InHand(j) /\ ~InTask(j)
  BY Constants DEF Init, Queued, InHand, InTask
<1>3. FreshInv
  BY <1>2 DEF FreshInv
<1>4. HeldOnce
  BY <1>2 DEF Init, HeldOnce
<1>5. RoomInv
  <2>1. \A w \in Workers : InFlight(w) = {} /\ loop[w] = "top"
    BY DEF Init, InFlight
  <2>2. QED
    BY <2>1, FS_EmptySet, Constants DEF RoomInv
<1>6. WaitingIsAccounted
  BY DEF Init, WaitingIsAccounted
<1>7. QED
  BY <1>1, <1>3, <1>4, <1>5, <1>6 DEF IInv

LEMMA StepKeeps == IInv /\ [Next]_vars => IInv'
<1> SUFFICES ASSUME IInv, [Next]_vars PROVE IInv'
  OBVIOUS
<1>1. TypeOK' /\ HeldOnce'
  BY TypeStep, HeldStep DEF IInv
<1>2. FreshInv'
  BY FreshStep DEF IInv, FreshInv
<1>3. RoomInv'
  BY RoomStep DEF IInv, RoomInv, Room
<1>4. WaitingIsAccounted'
  BY AccountStep DEF IInv, WaitingIsAccounted, Accounted
<1>5. QED
  BY <1>1, <1>2, <1>3, <1>4 DEF IInv

LEMMA Invariant == Spec => []IInv
BY InitHolds, StepKeeps, PTL DEF Spec
-----------------------------------------------------------------------------
\* Every variable has its type, and a worker that is down holds nothing.
THEOREM TypeCorrect == Spec => []TypeOK
BY Invariant, PTL DEF IInv

\* A job is in one place only, whatever is pushed back, crashes or drains
\* (run_worker and fetch_via_browser_grid).
THEOREM OnePlace == Spec => []HeldOnce
BY Invariant, PTL DEF IInv

\* The capacity that was checked before the BRPOP is still there after it: no worker
\* runs more browsers than its limit, the job in its hand included.
THEOREM CapacityKept == Spec => []CapacityHeld
<1>1. IInv => CapacityHeld
  <2> SUFFICES ASSUME IInv, NEW w \in Workers
               PROVE  Cardinality(InFlight(w) \cup ({hand[w]} \ {NoJob})) <= Concurrency
    BY DEF CapacityHeld
  <2>1. /\ IsFiniteSet(InFlight(w)) /\ Cardinality(InFlight(w)) <= Concurrency
        /\ loop[w] = "hand" => Cardinality(InFlight(w)) < Concurrency
        /\ (hand[w] # NoJob) = (loop[w] = "hand")
    BY DEF IInv, RoomInv, TypeOK
  <2>2. CASE hand[w] = NoJob
    <3>1. InFlight(w) \cup ({hand[w]} \ {NoJob}) = InFlight(w)
      BY <2>2
    <3>2. QED
      BY <2>1, <3>1
  <2>3. CASE hand[w] # NoJob
    <3>1. InFlight(w) \cup ({hand[w]} \ {NoJob}) = InFlight(w) \cup {hand[w]} /\ loop[w] = "hand"
      BY <2>1, <2>3
    <3>2. Cardinality(InFlight(w)) \in Nat /\ Concurrency \in Nat
      BY <2>1, FS_CardinalityType, Constants
    <3>3. Cardinality(InFlight(w) \cup {hand[w]}) =
            IF hand[w] \in InFlight(w) THEN Cardinality(InFlight(w)) ELSE Cardinality(InFlight(w)) + 1
      BY <2>1, FS_AddElement
    <3>4. QED
      BY <2>1, <3>1, <3>2, <3>3
  <2>4. QED
    BY <2>2, <2>3
<1>2. QED
  BY <1>1, Invariant, PTL

\* A request that waits has its job somewhere, its result, or lost it to a fault: a
\* worker that drains and a push-back lose nothing.
THEOREM NothingForgotten == Spec => []WaitingIsAccounted
BY Invariant, PTL DEF IInv
-----------------------------------------------------------------------------
(***************************************************************************)
(* GridRequest: every step is one of its steps, or changes nothing of it.  *)
(***************************************************************************)
\* The jobs as GridRequest sees them.
Phases  == [j \in Jobs |-> Phase(j)]
Running == [j \in Jobs |-> Runners(j)]

LEMMA Viewed ==
  ASSUME NEW j \in Jobs, NEW to, Phase(j)' = to, \A k \in Jobs \ {j} : Phase(k)' = Phase(k)
  PROVE  Phases' = [Phases EXCEPT ![j] = to]
BY DEF Phases

LEMMA SameRunners ==
  ASSUME UNCHANGED task
  PROVE  UNCHANGED Running /\ \A j \in Jobs : InTask(j)' <=> InTask(j)
BY DEF Running, Runners, InTask

\* Who made no request before and who has made none has none of its job anywhere.
LEMMA SamePhase ==
  ASSUME NEW j \in Jobs, client[j] = "new" <=> client'[j] = "new",
         InTask(j)' <=> InTask(j), (Queued(j) \/ InHand(j))' <=> (Queued(j) \/ InHand(j))
  PROVE  Phase(j)' = Phase(j)
BY DEF Phase

LEMMA PhaseFacts ==
  ASSUME IInv, NEW j \in Jobs
  PROVE  /\ Queued(j) \/ InHand(j) => Phase(j) = "offered"
         /\ InTask(j) => Phase(j) = "running"
         /\ client[j] = "new" => Phase(j) = "unmade"
         /\ (\A w \in Workers : task[w][j] # "none" => Runners(j) = {w}) /\ (~InTask(j) => Runners(j) = {})
<1>1. /\ client[j] = "new" => ~Queued(j) /\ ~InHand(j) /\ ~InTask(j)
      /\ Queued(j) \/ InHand(j) => ~InTask(j)
      /\ \A v, w \in Workers : task[v][j] # "none" /\ task[w][j] # "none" => v = w
  BY DEF IInv, FreshInv, HeldOnce
<1>2. (\A w \in Workers : task[w][j] # "none" => Runners(j) = {w}) /\ (~InTask(j) => Runners(j) = {})
  BY <1>1 DEF Runners, InTask
<1>3. QED
  BY <1>1, <1>2 DEF Phase

\* Nothing of a request is seen to change.
LEMMA Unseen ==
  ASSUME UNCHANGED <<requests, result, task>>,
         \A j \in Jobs : (Queued(j) \/ InHand(j))' <=> (Queued(j) \/ InHand(j))
  PROVE  UNCHANGED Request!vars
<1>1. UNCHANGED Running /\ \A j \in Jobs : InTask(j)' <=> InTask(j)
  BY SameRunners
<1>2. \A j \in Jobs : Phase(j)' = Phase(j)
  BY <1>1, SamePhase DEF requests
<1>3. UNCHANGED Phases
  BY <1>2 DEF Phases
<1>4. QED
  BY <1>1, <1>3 DEF Request!vars, requests, Phases, Running

\* A fault that takes the jobs of S out of the grid is a Lose.
LEMMA Loses ==
  ASSUME IInv, NEW S \in SUBSET Jobs, UNCHANGED <<requests, result>>,
         \A j \in S : /\ Queued(j) \/ InHand(j) \/ InTask(j)
                      /\ ~Queued(j)' /\ ~InHand(j)' /\ ~InTask(j)',
         \A j \in Jobs \ S : /\ (Queued(j) \/ InHand(j))' <=> (Queued(j) \/ InHand(j))
                             /\ Runners(j)' = Runners(j)
  PROVE  Request!Next
<1>1. \A j \in S : Phase(j) \in {"offered", "running"}
  BY PhaseFacts
<1>2. \A j \in S : Phase(j)' = "over" /\ Runners(j)' = {}
  <2>1. SUFFICES ASSUME NEW j \in S PROVE Phase(j)' = "over" /\ Runners(j)' = {}
    OBVIOUS
  <2>2. client[j] # "new" /\ client'[j] = client[j]
    BY <2>1 DEF IInv, FreshInv, requests
  <2>3. QED
    BY <2>2 DEF Phase, Runners, InTask
<1>3. \A j \in Jobs \ S : Phase(j)' = Phase(j)
  <2>1. SUFFICES ASSUME NEW j \in Jobs \ S PROVE Phase(j)' = Phase(j)
    OBVIOUS
  <2>2. InTask(j) = (Runners(j) # {}) /\ InTask(j)' = (Runners(j)' # {})
    BY DEF InTask, Runners
  <2>3. QED
    BY <2>2, SamePhase DEF requests
<1>4. /\ Phases'  = [j \in Jobs |-> IF j \in S THEN "over" ELSE Phases[j]]
      /\ Running' = [j \in Jobs |-> IF j \in S THEN {} ELSE Running[j]]
      /\ \A j \in S : Phases[j] \in {"offered", "running"}
  BY <1>1, <1>2, <1>3 DEF Phases, Running
<1>5. Request!Lose(S)
  BY <1>4 DEF Request!Lose, requests, Phases, Running
<1>6. QED
  BY <1>5 DEF Request!Next

LEMMA AskRefines ==
  ASSUME IInv, NEW j \in Jobs, NEW p \in Workers \cup {AnyWorker}, Enqueue(j, p) \/ EnqueueFails(j, p)
  PROVE  Request!Next
<1>1. /\ client[j] = "new" /\ UNCHANGED <<result, hand, task>>
      /\ client \in [Jobs -> {"new", "waiting", "over"}] /\ queue \in Seq(Jobs)
  BY DEF Enqueue, EnqueueFails, workers, IInv, TypeOK
<1>2. Phase(j) = "unmade" /\ ~Queued(j) /\ ~InHand(j) /\ ~InTask(j)
  BY <1>1, PhaseFacts DEF IInv, FreshInv
<1>3. UNCHANGED Running /\ \A k \in Jobs : (InTask(k)' <=> InTask(k)) /\ (InHand(k)' <=> InHand(k))
  BY <1>1, SameRunners DEF InHand
<1>4. ASSUME NEW to \in {"waiting", "over"}, client' = [client EXCEPT ![j] = to],
             queue' = Append(queue, j)
      PROVE  Phases' = [Phases EXCEPT ![j] = "offered"]
  <2>1. \A k \in Jobs : Queued(k)' <=> (Queued(k) \/ k = j)
    BY <1>1, <1>4, PushedPlaces
  <2>2. Phase(j)' = "offered"
    BY <1>1, <1>2, <1>3, <1>4, <2>1 DEF Phase
  <2>3. \A k \in Jobs \ {j} : Phase(k)' = Phase(k)
    BY <1>1, <1>3, <1>4, <2>1, SamePhase
  <2>4. QED
    BY <2>2, <2>3, Viewed
<1>5. ASSUME client' = [client EXCEPT ![j] = "over"], UNCHANGED queue
      PROVE  Phases' = [Phases EXCEPT ![j] = "over"]
  <2>1. \A k \in Jobs : Queued(k)' <=> Queued(k)
    BY <1>5 DEF Queued
  <2>2. Phase(j)' = "over"
    BY <1>1, <1>2, <1>3, <1>5, <2>1 DEF Phase
  <2>3. \A k \in Jobs \ {j} : Phase(k)' = Phase(k)
    BY <1>1, <1>3, <1>5, <2>1, SamePhase
  <2>4. QED
    BY <2>2, <2>3, Viewed
<1>6. Phases[j] = "unmade"
  BY <1>2 DEF Phases
<1>7. CASE Enqueue(j, p)
  <2>1. client' = [client EXCEPT ![j] = "waiting"] /\ pin' = [pin EXCEPT ![j] = p] /\ queue' = Append(queue, j)
    BY <1>7 DEF Enqueue
  <2>2. Request!Ask(j, p)
    BY <1>1, <1>3, <1>4, <1>6, <2>1 DEF Request!Ask, Request!Enter, Phases, Running
  <2>3. QED
    BY <2>2 DEF Request!Next
<1>8. CASE EnqueueFails(j, p)
  <2>1. /\ client' = [client EXCEPT ![j] = "over"]
        /\ UNCHANGED <<pin, queue>> \/ (pin' = [pin EXCEPT ![j] = p] /\ queue' = Append(queue, j))
    BY <1>8 DEF EnqueueFails
  <2>2. Request!AskFails(j, p)
    BY <1>1, <1>3, <1>4, <1>5, <1>6, <2>1 DEF Request!AskFails, Request!Enter, Phases, Running
  <2>3. QED
    BY <2>2 DEF Request!Next
<1>9. QED
  BY <1>7, <1>8

LEMMA ClientRefines ==
  ASSUME IInv, NEW j \in Jobs, PollDone(j) \/ GiveUp(j) \/ ResultExpires(j)
  PROVE  Request!Next
<1>1. UNCHANGED <<pin, queue, hand, task>> /\ client \in [Jobs -> {"new", "waiting", "over"}]
  BY DEF PollDone, GiveUp, ResultExpires, requests, workers, IInv, TypeOK
<1>2. /\ UNCHANGED Running
      /\ \A k \in Jobs : (InTask(k)' <=> InTask(k)) /\ ((Queued(k) \/ InHand(k))' <=> (Queued(k) \/ InHand(k)))
  BY <1>1, SameRunners DEF Queued, InHand
<1>3. \A k \in Jobs : client[k] = "new" <=> client'[k] = "new"
  BY <1>1 DEF PollDone, GiveUp, ResultExpires, requests
<1>4. UNCHANGED Phases
  BY <1>2, <1>3, SamePhase DEF Phases
<1>5. Request!Leave(j) \/ Request!Expire(j)
  BY <1>1, <1>2, <1>4
     DEF PollDone, GiveUp, ResultExpires, requests, Request!Leave, Request!Expire, Phases, Running
<1>6. QED
  BY <1>5 DEF Request!Next

LEMMA PopRefines ==
  ASSUME IInv, NEW w \in Workers, Pop(w) \/ PopReplyLost(w)
  PROVE  Request!Next \/ UNCHANGED Request!vars
<1>1. /\ queue # <<>> /\ queue' = Tail(queue) /\ UNCHANGED <<requests, result, task>> /\ hand[w] = NoJob
      /\ queue \in Seq(Jobs) /\ hand \in [Workers -> Jobs \cup {NoJob}] /\ NoJob \notin Jobs
  BY Constants DEF Pop, PopReplyLost, IInv, TypeOK
<1>2. PICK x : x = Head(queue)
  OBVIOUS
<1>3. /\ x \in Jobs /\ Queued(x) /\ ~Queued(x)'
      /\ \A j \in Jobs : j # x => (Queued(j)' <=> Queued(j))
  BY <1>1, <1>2, PoppedPlaces DEF IInv, HeldOnce
<1>4. ~InHand(x) /\ ~InTask(x)
  BY <1>3 DEF IInv, HeldOnce
<1>5. CASE hand' = [hand EXCEPT ![w] = x]
  <2>1. \A j \in Jobs : InHand(j)' <=> (InHand(j) \/ j = x)
    BY <1>1, <1>3, <1>5 DEF InHand
  <2>2. \A j \in Jobs : (Queued(j) \/ InHand(j))' <=> (Queued(j) \/ InHand(j))
    BY <1>3, <2>1
  <2>3. QED
    BY <1>1, <2>2, Unseen
<1>6. CASE UNCHANGED hand
  <2>1. UNCHANGED Running /\ \A j \in Jobs : (InTask(j)' <=> InTask(j)) /\ (InHand(j)' <=> InHand(j))
    BY <1>1, <1>6, SameRunners DEF InHand
  <2>2. \A j \in Jobs : Runners(j)' = Runners(j)
    BY <1>1 DEF Runners
  <2>3. {x} \in SUBSET Jobs
    BY <1>3
  <2>4. QED
    BY <1>1, <1>3, <1>4, <2>1, <2>2, <2>3, Loses
<1>7. QED
  BY <1>2, <1>5, <1>6 DEF Pop, PopReplyLost

LEMMA DispatchRefines ==
  ASSUME IInv, NEW w \in Workers, Dispatch(w)
  PROVE  Request!Next
<1>1. PICK x \in Jobs : x = hand[w]
  BY DEF Dispatch, IInv, TypeOK
<1>2. /\ UNCHANGED <<requests, queue, result>> /\ hand' = [hand EXCEPT ![w] = NoJob]
      /\ task' = [task EXCEPT ![w][x] = "running"] /\ pin[x] \in {AnyWorker, w}
      /\ hand \in [Workers -> Jobs \cup {NoJob}] /\ task \in [Workers -> [Jobs -> TaskStage]]
      /\ NoJob \notin Jobs
  BY <1>1, Constants DEF Dispatch, MayRun, IInv, TypeOK
<1>3. InHand(x) /\ ~InTask(x) /\ ~Queued(x) /\ client[x] # "new"
  BY <1>1 DEF InHand, IInv, HeldOnce, FreshInv
<1>4. \A k \in Jobs \ {x} : (InHand(k)' <=> InHand(k)) /\ (Queued(k)' <=> Queued(k))
  BY <1>1, <1>2 DEF InHand, Queued
<1>5. \A v \in Workers, k \in Jobs :
        task'[v][k] # "none" <=> task[v][k] # "none" \/ (v = w /\ k = x)
  BY <1>2
<1>6. Runners(x)' = {w} /\ InTask(x)'
  BY <1>3, <1>5 DEF Runners, InTask
<1>7. \A k \in Jobs \ {x} : Runners(k)' = Runners(k) /\ (InTask(k)' <=> InTask(k))
  BY <1>5 DEF Runners, InTask
<1>8. Phase(x) = "offered" /\ Phase(x)' = "running"
  BY <1>2, <1>3, <1>6 DEF Phase, requests
<1>9. \A k \in Jobs \ {x} : Phase(k)' = Phase(k)
  BY <1>2, <1>4, <1>7, SamePhase DEF requests
<1>10. Phases' = [Phases EXCEPT ![x] = "running"] /\ Phases[x] = "offered"
  BY <1>8, <1>9, Viewed DEF Phases
<1>11. Running' = [Running EXCEPT ![x] = {w}]
  BY <1>6, <1>7 DEF Running
<1>12. Request!Run(x, w)
  BY <1>2, <1>10, <1>11 DEF Request!Run, Request!Enter, requests, Phases, Running
<1>13. QED
  BY <1>12 DEF Request!Next

LEMMA PushBackRefines ==
  ASSUME IInv, NEW w \in Workers, PushBack(w) \/ PushBackFails(w)
  PROVE  Request!Next \/ UNCHANGED Request!vars
<1>1. PICK x \in Jobs : x = hand[w]
  BY DEF PushBack, PushBackFails, IInv, TypeOK
<1>2. /\ UNCHANGED <<requests, result, task>> /\ hand' = [hand EXCEPT ![w] = NoJob]
      /\ queue' = Append(queue, x) \/ UNCHANGED queue
      /\ hand \in [Workers -> Jobs \cup {NoJob}] /\ queue \in Seq(Jobs) /\ NoJob \notin Jobs
  BY <1>1, Constants DEF PushBack, PushBackFails, IInv, TypeOK
<1>3. /\ InHand(x) /\ ~InTask(x) /\ ~Queued(x)
      /\ \A v \in Workers : hand[v] = x => v = w
  BY <1>1, <1>2 DEF InHand, IInv, HeldOnce
<1>4. ~InHand(x)' /\ \A k \in Jobs \ {x} : InHand(k)' <=> InHand(k)
  BY <1>1, <1>2, <1>3 DEF InHand
<1>5. CASE queue' = Append(queue, x)
  <2>1. \A j \in Jobs : Queued(j)' <=> (Queued(j) \/ j = x)
    BY <1>2, <1>5, PushedPlaces
  <2>2. \A j \in Jobs : (Queued(j) \/ InHand(j))' <=> (Queued(j) \/ InHand(j))
    BY <1>3, <1>4, <2>1
  <2>3. QED
    BY <1>2, <2>2, Unseen
<1>6. CASE UNCHANGED queue
  <2>1. \A j \in Jobs : (Queued(j)' <=> Queued(j)) /\ Runners(j)' = Runners(j) /\ (InTask(j)' <=> InTask(j))
    BY <1>2, <1>6 DEF Queued, Runners, InTask
  <2>2. {x} \in SUBSET Jobs
    OBVIOUS
  <2>3. QED
    BY <1>2, <1>3, <1>4, <2>1, <2>2, Loses
<1>7. QED
  BY <1>2, <1>5, <1>6

LEMMA TaskRefines ==
  ASSUME IInv, NEW w \in Workers, NEW j \in Jobs,
         RunStores(w, j) \/ RunRaises(w, j) \/ ErrorStores(w, j) \/ ErrorStoreFails(w, j)
  PROVE  Request!Next \/ UNCHANGED Request!vars
<1>1. /\ UNCHANGED <<requests, queue, hand>> /\ task[w][j] # "none"
      /\ \E r \in {result[j], "stored"} : result' = [result EXCEPT ![j] = r]
      /\ result \in [Jobs -> {"none", "stored"}] /\ task \in [Workers -> [Jobs -> TaskStage]]
  BY DEF RunStores, RunRaises, ErrorStores, ErrorStoreFails, IInv, TypeOK
<1>2. /\ Runners(j) = {w} /\ Phase(j) = "running" /\ client[j] # "new"
      /\ ~Queued(j) /\ ~InHand(j)
  BY <1>1, PhaseFacts DEF InTask, IInv, HeldOnce, FreshInv
<1>3. \A k \in Jobs : (Queued(k) \/ InHand(k))' <=> (Queued(k) \/ InHand(k))
  BY <1>1 DEF Queued, InHand
<1>4. Phases[j] = "running"
  BY <1>2 DEF Phases
<1>5. ASSUME task' = [task EXCEPT ![w][j] = "none"] PROVE Request!Next
  <2>1. \A v \in Workers, k \in Jobs :
          task'[v][k] # "none" <=> task[v][k] # "none" /\ ~(v = w /\ k = j)
    BY <1>1, <1>5
  <2>2. Runners(j)' = {} /\ ~InTask(j)'
    BY <1>2, <2>1 DEF Runners, InTask
  <2>3. \A k \in Jobs \ {j} : Runners(k)' = Runners(k) /\ (InTask(k)' <=> InTask(k))
    BY <2>1 DEF Runners, InTask
  <2>4. Phase(j)' = "over"
    BY <1>1, <1>2, <1>3, <2>2 DEF Phase, requests
  <2>5. \A k \in Jobs \ {j} : Phase(k)' = Phase(k)
    BY <1>1, <1>3, <2>3, SamePhase DEF requests
  <2>6. Phases' = [Phases EXCEPT ![j] = "over"]
    BY <2>4, <2>5, Viewed
  <2>7. Running' = [Running EXCEPT ![j] = {}]
    BY <2>2, <2>3 DEF Running
  <2>8. Request!End(j)
    BY <1>1, <1>4, <2>6, <2>7 DEF Request!End, Request!Enter, requests, Phases, Running
  <2>9. QED
    BY <2>8 DEF Request!Next
<1>6. ASSUME RunRaises(w, j) PROVE Request!Next \/ UNCHANGED Request!vars
  <2>1. task' = [task EXCEPT ![w][j] = "excepting"]
    BY <1>6 DEF RunRaises
  <2>2. \A v \in Workers, k \in Jobs : task'[v][k] # "none" <=> task[v][k] # "none"
    BY <1>1, <2>1
  <2>3. \A k \in Jobs : Runners(k)' = Runners(k) /\ (InTask(k)' <=> InTask(k))
    BY <2>2 DEF Runners, InTask
  <2>4. UNCHANGED <<Phases, Running>>
    BY <1>1, <1>3, <2>3, SamePhase DEF Phases, Running, requests
  <2>5. CASE result' = [result EXCEPT ![j] = "stored"]
    <3>1. Request!Store(j)
      BY <1>1, <1>4, <2>4, <2>5 DEF Request!Store, requests, Phases, Running
    <3>2. QED
      BY <3>1 DEF Request!Next
  <2>6. CASE result' = [result EXCEPT ![j] = result[j]]
    <3>1. result' = result
      BY <1>1, <2>6
    <3>2. QED
      BY <1>1, <2>4, <3>1 DEF Request!vars, requests, Phases, Running
  <2>7. QED
    BY <1>1, <2>5, <2>6
<1>7. QED
  BY <1>5, <1>6 DEF RunStores, ErrorStores, ErrorStoreFails

LEMMA CrashRefines ==
  ASSUME IInv, NEW w \in Workers, Crash(w)
  PROVE  Request!Next
<1> DEFINE S == InFlight(w) \cup ({hand[w]} \ {NoJob})
<1>1. /\ UNCHANGED <<requests, result, queue>> /\ hand' = [hand EXCEPT ![w] = NoJob]
      /\ task' = [task EXCEPT ![w] = [j \in Jobs |-> "none"]]
      /\ hand \in [Workers -> Jobs \cup {NoJob}] /\ task \in [Workers -> [Jobs -> TaskStage]]
      /\ NoJob \notin Jobs
  BY Constants DEF Crash, IInv, TypeOK
<1>2. S \in SUBSET Jobs
  BY <1>1 DEF InFlight
<1>3. \A j \in S : task[w][j] # "none" \/ hand[w] = j
  BY DEF InFlight
<1>4. \A j \in Jobs \ S : task[w][j] = "none" /\ hand[w] # j
  BY <1>1 DEF InFlight
<1> HIDE DEF S
<1>5. \A j \in Jobs : /\ Queued(j)' <=> Queued(j)
                      /\ InHand(j)' <=> \E v \in Workers \ {w} : hand[v] = j
                      /\ \A v \in Workers : task'[v][j] # "none" <=> v # w /\ task[v][j] # "none"
  BY <1>1 DEF Queued, InHand
<1>6. \A j \in S : /\ Queued(j) \/ InHand(j) \/ InTask(j)
                   /\ ~Queued(j)' /\ ~InHand(j)' /\ ~InTask(j)'
  <2>1. SUFFICES ASSUME NEW j \in S
                 PROVE  /\ Queued(j) \/ InHand(j) \/ InTask(j)
                        /\ ~Queued(j)' /\ ~InHand(j)' /\ ~InTask(j)'
    OBVIOUS
  <2>2. j \in Jobs /\ HeldOnce
    BY <1>2 DEF IInv
  <2>3. CASE task[w][j] # "none"
    <3>1. InTask(j) /\ ~Queued(j) /\ ~InHand(j) /\ \A v \in Workers : task[v][j] # "none" => v = w
      BY <2>2, <2>3 DEF InTask, HeldOnce
    <3>2. QED
      BY <1>5, <2>2, <3>1 DEF InTask, InHand
  <2>4. CASE hand[w] = j
    <3>1. InHand(j) /\ ~Queued(j) /\ ~InTask(j) /\ \A v \in Workers : hand[v] = j => v = w
      BY <1>1, <2>2, <2>4 DEF InHand, HeldOnce
    <3>2. QED
      BY <1>5, <2>2, <3>1 DEF InTask, InHand
  <2>5. QED
    BY <1>3, <2>3, <2>4
<1>7. \A j \in Jobs \ S : /\ (Queued(j) \/ InHand(j))' <=> (Queued(j) \/ InHand(j))
                          /\ Runners(j)' = Runners(j)
  BY <1>4, <1>5 DEF InHand, Runners
<1>8. QED
  BY <1>1, <1>2, <1>6, <1>7, Loses

LEMMA StepRefines == IInv /\ [Next]_vars => [Request!Next]_(Request!vars)
<1> SUFFICES ASSUME IInv, [Next]_vars PROVE Request!Next \/ UNCHANGED Request!vars
  OBVIOUS
<1>1. ASSUME NEW w \in Workers,
             CheckCapacity(w) \/ PopNothing(w) \/ PopRaises(w) \/ Wake(w) \/ Sigterm(w) \/ Exit(w) \/ Restart(w)
      PROVE  UNCHANGED Request!vars
  <2>1. UNCHANGED <<requests, result, task, queue, hand>>
    BY <1>1 DEF CheckCapacity, PopNothing, PopRaises, Wake, Sigterm, Exit, Restart
  <2>2. QED
    BY <2>1, Unseen DEF Queued, InHand
<1>2. CASE UNCHANGED vars
  <2>1. UNCHANGED <<requests, result, task, queue, hand>>
    BY <1>2 DEF vars, workers
  <2>2. QED
    BY <2>1, Unseen DEF Queued, InHand
<1>3. QED
  BY <1>1, <1>2, AskRefines, ClientRefines, PopRefines, DispatchRefines, PushBackRefines,
     TaskRefines, CrashRefines DEF Next

\* fetch_via_browser_grid and run_worker keep what GridRequest promises, for any requests,
\* workers, pins, faults and restarts: a request's page is scraped once at most, by a
\* worker its pin allows, and only that run makes a result of it.
THEOREM Refinement == Spec => ImplementsRequest
<1>1. Init => Request!Init
  BY DEF Init, Request!Init, Phase, Runners
<1>2. QED
  BY <1>1, Invariant, StepRefines, PTL DEF Spec, Request!Spec, ImplementsRequest
=============================================================================
