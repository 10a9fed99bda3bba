----------------------------- MODULE CrawlJobs ------------------------------
(***************************************************************************)
(* The Redis-backed crawl-job queue: the API processes that enqueue jobs   *)
(* and answer polls (app/api/crawl_jobs.py), the queue and the two         *)
(* expiring keys of each job (app/services/crawl_jobs/queue.py), and the   *)
(* crawl workers (app/workers/crawl_worker.py).                            *)
(*                                                                         *)
(* Every handler is cut at its Redis calls: a process may die, or Redis    *)
(* may refuse the call, between any two of them.  A worker that meets a    *)
(* Redis error in its loop dies of it (nothing catches the error), so the  *)
(* same action stands for both; its container then restarts it empty.      *)
(***************************************************************************)
EXTENDS Naturals, Sequences, FiniteSets

CONSTANTS Jobs,         \* job ids (a fresh uuid4 per call)
          Workers,      \* crawl-worker processes
          Concurrency,  \* CRAWL_WORKER_CONCURRENCY
          TTL,          \* DEFAULT_TTL_SECONDS, in ticks of the expiry clock
          NoJob         \* "no job in hand"

ASSUME ConcurrencyAssumption == Concurrency \in Nat \ {0}
ASSUME TTLAssumption == TTL \in Nat \ {0}
ASSUME NoJobAssumption == NoJob \notin Jobs

VARIABLES
  api,      \* where the enqueue request of a job stands
  queue,    \* the Redis list, in the order BRPOP takes jobs
  status,   \* STATUS_PREFIX key of each job
  result,   \* RESULT_PREFIX key of each job
  hand,     \* the job a worker's loop has popped and not yet marked running
  task,     \* the tasks a worker has created, by job
  poll,     \* where the poll of a job's client stands inside get_job
  seen,     \* the last document that client was given (a 404 leaves it)
  reached,  \* history: the furthest document ever written for the job
  lost      \* history: accepted or queued jobs a fault has taken away

redis   == <<queue, status, result>>
workers == <<hand, task>>
client  == <<poll, seen>>
history == <<reached, lost>>
vars    == <<api, redis, workers, client, history>>

Terminal  == {"completed", "failed"}
Docs      == {"queued", "running"} \cup Terminal
\* What crawl_single, run_scoped_pdp_crawl or the except branch of _one return.
RawStatus == {"ok", "blocked", "rejected", "error"}

\* The life of a task: created, holding a permit, and holding a permit with
\* its RESULT key written (the value is then the outcome it wrote).
TaskStage  == {"none", "waiting", "running"} \cup Terminal
HasPermit  == {"running"} \cup Terminal
-----------------------------------------------------------------------------
(***************************************************************************)
(* Redis keys with a time to live.                                         *)
(***************************************************************************)
Absent == [doc |-> "absent", ttl |-> 0]

Setex(doc) == [doc |-> doc, ttl |-> TTL]

Aged(key) == IF key.ttl <= 1 THEN Absent ELSE [key EXCEPT !.ttl = @ - 1]

StoredStatus(raw) ==
  IF raw = "ok" THEN "completed" ELSE "failed"

\* What a get_job that read both keys at once would answer.
Shown(j) == IF result[j].doc # "absent" THEN result[j].doc ELSE status[j].doc
-----------------------------------------------------------------------------
Init ==
  /\ api     = [j \in Jobs |-> "new"]
  /\ queue   = <<>>
  /\ status  = [j \in Jobs |-> Absent]
  /\ result  = [j \in Jobs |-> Absent]
  /\ hand    = [w \in Workers |-> NoJob]
  /\ task    = [w \in Workers |-> [j \in Jobs |-> "none"]]
  /\ poll    = [j \in Jobs |-> "idle"]
  /\ seen    = [j \in Jobs |-> "absent"]
  /\ reached = [j \in Jobs |-> "absent"]
  /\ lost    = {}
-----------------------------------------------------------------------------
(***************************************************************************)
(* The API process: POST /crawl-jobs/enqueue and /crawl-jobs/pdp-crawl.    *)
(***************************************************************************)
\* enqueue_job writes the status first ...
EnqueueMark(j) ==
  /\ api[j] = "new"
  /\ api'     = [api EXCEPT ![j] = "marked"]
  /\ status'  = [status EXCEPT ![j] = Setex("queued")]
  /\ reached' = [reached EXCEPT ![j] = "queued"]
  /\ UNCHANGED <<queue, result, workers, client, lost>>

\* ... and then pushes the job.
EnqueuePush(j) ==
  /\ api[j] = "marked"
  /\ api'   = [api EXCEPT ![j] = "pushed"]
  /\ queue' = Append(queue, j)
  /\ UNCHANGED <<status, result, workers, client, history>>

\* The handler reads the queue depth, then hands the job id to the client.
EnqueueReply(j) ==
  /\ api[j] = "pushed"
  /\ api' = [api EXCEPT ![j] = "accepted"]
  /\ UNCHANGED <<redis, workers, client, history>>

\* The process dies or Redis refuses the next call: the request ends with an
\* error, and whatever it wrote stays.
EnqueueFault(j) ==
  /\ api[j] \in {"marked", "pushed"}
  /\ api' = [api EXCEPT ![j] = "failed"]
  /\ UNCHANGED <<redis, workers, client, history>>
-----------------------------------------------------------------------------
(***************************************************************************)
(* The worker: worker_loop, dequeue_job, _one, store_result.               *)
(***************************************************************************)
PopKeepsJob(w) ==
  /\ hand[w] = NoJob
  /\ queue # <<>>
  /\ hand' = [hand EXCEPT ![w] = Head(queue)]
  /\ UNCHANGED <<api, redis, task, client, history>>

\* BRPOP takes the oldest job off the list.
Pop(w) ==
  /\ hand[w] = NoJob
  /\ queue # <<>>
  /\ hand'  = [hand EXCEPT ![w] = Head(queue)]
  /\ queue' = Tail(queue)
  /\ UNCHANGED <<api, status, result, task, client, history>>

MarkRunningIfFree(w) ==
  LET j == hand[w] IN
  /\ j # NoJob
  /\ hand'    = [hand EXCEPT ![w] = NoJob]
  /\ status'  = [status EXCEPT ![j] = Setex("running")]
  /\ reached' = [reached EXCEPT ![j] = "running"]
  /\ task'    = IF \A i \in Jobs : task[w][i] = "none"
                THEN [task EXCEPT ![w][j] = "waiting"] ELSE task
  /\ UNCHANGED <<api, queue, result, client, lost>>

\* dequeue_job marks the job running, and the loop creates its task: the
\* semaphore is taken inside the task, so a job is "running" while it waits.
MarkRunning(w) ==
  LET j == hand[w] IN
  /\ j # NoJob
  /\ hand'    = [hand EXCEPT ![w] = NoJob]
  /\ status'  = [status EXCEPT ![j] = Setex("running")]
  /\ reached' = [reached EXCEPT ![j] = "running"]
  /\ task'    = [task EXCEPT ![w][j] = "waiting"]
  /\ UNCHANGED <<api, queue, result, client, lost>>

PermitsNotReturned(w) == {j \in Jobs : task[w][j] \in HasPermit \/ j \in lost}

Permits(w) == {j \in Jobs : task[w][j] \in HasPermit}

\* Any waiting task may get the permit; asyncio.Semaphore wakes them in order,
\* so the code's behaviours are among these.
Start(w, j) ==
  /\ task[w][j] = "waiting"
  /\ Cardinality(Permits(w)) < Concurrency
  /\ task' = [task EXCEPT ![w][j] = "running"]
  /\ UNCHANGED <<api, redis, hand, client, history>>

StoreResultBriefly(w, j, raw) ==
  LET out == StoredStatus(raw) IN
  /\ task[w][j] = "running"
  /\ result'  = [result EXCEPT ![j] = Aged(Setex(out))]
  /\ reached' = [reached EXCEPT ![j] = out]
  /\ task'    = [task EXCEPT ![w][j] = out]
  /\ UNCHANGED <<api, queue, status, hand, client, lost>>

\* _process_job returned, or raised and was turned into an "error" result;
\* store_result writes the RESULT key.
StoreResult(w, j, raw) ==
  LET out == StoredStatus(raw) IN
  /\ task[w][j] = "running"
  /\ result'  = [result EXCEPT ![j] = Setex(out)]
  /\ reached' = [reached EXCEPT ![j] = out]
  /\ task'    = [task EXCEPT ![w][j] = out]
  /\ UNCHANGED <<api, queue, status, hand, client, lost>>

StoreStatusAsRunning(w, j) ==
  /\ task[w][j] \in Terminal
  /\ status' = [status EXCEPT ![j] = Setex("running")]
  /\ task'   = [task EXCEPT ![w][j] = "none"]
  /\ UNCHANGED <<api, queue, result, hand, client, history>>

\* store_result repeats the envelope in the STATUS key; the task ends and
\* gives its permit back.
StoreStatus(w, j) ==
  /\ task[w][j] \in Terminal
  /\ status' = [status EXCEPT ![j] = Setex(task[w][j])]
  /\ task'   = [task EXCEPT ![w][j] = "none"]
  /\ UNCHANGED <<api, queue, result, hand, client, history>>

\* Redis refuses a write of store_result: the exception ends the task (it is
\* never looked at) and `async with sem` gives the permit back.
StoreFault(w, j) ==
  /\ task[w][j] \in HasPermit
  /\ task' = [task EXCEPT ![w][j] = "none"]
  /\ lost' = IF task[w][j] = "running" THEN lost \cup {j} ELSE lost
  /\ UNCHANGED <<api, redis, hand, client, reached>>

\* Jobs the process of w holds and has not yet written an outcome for.
Unfinished(w) == {j \in Jobs : hand[w] = j \/ task[w][j] \in {"waiting", "running"}}

WorkerCrash(w) ==
  /\ hand[w] # NoJob \/ \E j \in Jobs : task[w][j] # "none"
  /\ lost' = lost \cup Unfinished(w)
  /\ hand' = [hand EXCEPT ![w] = NoJob]
  /\ task' = [task EXCEPT ![w] = [j \in Jobs |-> "none"]]
  /\ UNCHANGED <<api, redis, client, reached>>
-----------------------------------------------------------------------------
(***************************************************************************)
(* The client's polls of GET /crawl-jobs/jobs/{id}: get_job reads RESULT   *)
(* and, when there is none, STATUS; the two reads are two Redis calls.     *)
(***************************************************************************)
PollResult(j) ==
  /\ api[j] = "accepted"
  /\ poll[j] = "idle"
  /\ IF result[j].doc # "absent"
       THEN seen' = [seen EXCEPT ![j] = result[j].doc] /\ UNCHANGED poll
       ELSE poll' = [poll EXCEPT ![j] = "status"] /\ UNCHANGED seen
  /\ UNCHANGED <<api, redis, workers, history>>

PollStatus(j) ==
  /\ poll[j] = "status"
  /\ poll' = [poll EXCEPT ![j] = "idle"]
  /\ seen' = IF status[j].doc = "absent" THEN seen
             ELSE [seen EXCEPT ![j] = status[j].doc]
  /\ UNCHANGED <<api, redis, workers, history>>

\* The expiry clock of Redis.
Tick ==
  /\ \E j \in Jobs : status[j].ttl > 0 \/ result[j].ttl > 0
  /\ status' = [j \in Jobs |-> Aged(status[j])]
  /\ result' = [j \in Jobs |-> Aged(result[j])]
  /\ UNCHANGED <<api, queue, workers, client, history>>
-----------------------------------------------------------------------------
Next ==
  \/ \E j \in Jobs : \/ EnqueueMark(j) \/ EnqueuePush(j) \/ EnqueueReply(j)
                     \/ EnqueueFault(j)
                     \/ PollResult(j) \/ PollStatus(j)
  \/ \E w \in Workers : Pop(w) \/ MarkRunning(w) \/ WorkerCrash(w)
  \/ \E w \in Workers, j \in Jobs :
       \/ Start(w, j)
       \/ \E raw \in RawStatus : StoreResult(w, j, raw)
       \/ StoreStatus(w, j)
       \/ StoreFault(w, j)
  \/ Tick

\* A live worker keeps running its loop and its tasks; a crawl ends, because
\* each of its fetches has a timeout.  Faults and polls are never owed.
Fairness ==
  /\ \A w \in Workers : WF_vars(Pop(w)) /\ WF_vars(MarkRunning(w))
  /\ \A w \in Workers, j \in Jobs :
       /\ WF_vars(Start(w, j))
       /\ WF_vars(\E raw \in RawStatus : StoreResult(w, j, raw))
       /\ WF_vars(StoreStatus(w, j))

Spec == Init /\ [][Next]_vars
FairSpec == Spec /\ Fairness
-----------------------------------------------------------------------------
(***************************************************************************)
(* Properties.                                                             *)
(***************************************************************************)
Key == [doc : Docs \cup {"absent"}, ttl : 0 .. TTL]

\* Type of the state: no key outlives its TTL.
TypeOK ==
  /\ api \in [Jobs -> {"new", "marked", "pushed", "accepted", "failed"}]
  /\ queue \in Seq(Jobs)
  /\ status \in [Jobs -> Key]
  /\ result \in [Jobs -> Key]
  /\ hand \in [Workers -> Jobs \cup {NoJob}]
  /\ task \in [Workers -> [Jobs -> TaskStage]]
  /\ poll \in [Jobs -> {"idle", "status"}]
  /\ seen \in [Jobs -> Docs \cup {"absent"}]
  /\ reached \in [Jobs -> Docs \cup {"absent"}]
  /\ lost \in SUBSET Jobs

\* However many tasks the loop creates and however they end (a failed write of a
\* result included), no worker runs more crawls than its semaphore has permits.
PermitBound == \A w \in Workers : Cardinality(Permits(w)) <= Concurrency

Queued(j)  == \E i \in DOMAIN queue : queue[i] = j
InHand(j)  == \E w \in Workers : hand[w] = j
InTask(j)  == \E w \in Workers : task[w][j] # "none"

\* BRPOP delivers at most once: a job is in the list once, in one worker's hand
\* or in one worker's task, and never in two of these, whatever crashes.
DeliveredOnce ==
  /\ \A i, k \in DOMAIN queue : queue[i] = queue[k] => i = k
  /\ \A j \in Jobs : Queued(j) => ~InHand(j) /\ ~InTask(j)
  /\ \A j \in Jobs : InHand(j) => ~InTask(j)
  /\ \A v, w \in Workers : hand[v] = hand[w] /\ hand[v] # NoJob => v = w
  /\ \A v, w \in Workers, j \in Jobs :
       task[v][j] # "none" /\ task[w][j] # "none" => v = w

\* No job disappears silently: one that was pushed is still somewhere, has an
\* outcome written, or was held by a worker when a fault hit it.  The queue
\* itself loses nothing when a worker dies.
Accounted ==
  \A j \in Jobs :
    (api[j] \in {"pushed", "accepted"}) =>
      \/ Queued(j) \/ InHand(j) \/ InTask(j)
      \/ reached[j] \in Terminal
      \/ j \in lost

\* A document is never ahead of or behind the job: while "queued" shows no
\* worker has a task for it, "running" and the outcomes show only after the
\* pop, and what shows is the furthest document ever written or, once it has
\* expired, nothing.  (The last part rests on RESULT outliving "running".)
StatusIsEarned ==
  \A j \in Jobs :
    /\ Shown(j) = "queued" => ~InTask(j)
    /\ Shown(j) \in {"running"} \cup Terminal => ~Queued(j) /\ ~InHand(j)
    /\ Shown(j) \in {reached[j], "absent"}

Precedes(old, new) ==
  \/ old = new
  \/ old = "absent"
  \/ old = "queued"  /\ new \in {"running"} \cup Terminal
  \/ old = "running" /\ new \in Terminal

\* A client that polls one job never sees it go backwards, nor its outcome
\* change, although get_job reads two keys one after the other while a worker
\* writes them and both expire.
NeverRegresses == [][\A j \in Jobs : Precedes(seen[j], seen'[j])]_vars

Lifecycle == INSTANCE JobLifecycle
               WITH shown <- [j \in Jobs |-> Shown(j)]

\* The queue, with every fault, implements the abstract job document.
ImplementsLifecycle == Lifecycle!Spec

\* An accepted job gets an outcome unless a fault hits the worker that holds
\* it: faults of other jobs and other workers do not stop it, and a failed
\* write of a result does not keep the permit.
AcceptedJobsSettle ==
  \A j \in Jobs : api[j] = "accepted" ~> (reached[j] \in Terminal \/ j \in lost)
=============================================================================
