---------------------------- MODULE BrowserGrid -----------------------------
(***************************************************************************)
(* The distributed browser queue: scrape requests that enqueue a job and   *)
(* poll for its result until a deadline (app/services/browser_grid), and   *)
(* the grid workers that take jobs, push back those pinned to another      *)
(* worker, run a bounded number of them and drain on SIGTERM               *)
(* (app/workers/browser_grid_worker.py).                                   *)
(*                                                                         *)
(* The worker's loop is cut at its awaits: the capacity check, the BRPOP,  *)
(* and what it does with the job are three steps.                          *)
(***************************************************************************)
EXTENDS Naturals, Sequences, FiniteSets

CONSTANTS Jobs,         \* scrape requests, one job each (a fresh uuid4)
          Workers,      \* grid worker ids
          Concurrency,  \* browser_grid_worker_concurrency
          MaxRestarts,  \* bound: times a worker process comes back
          NoJob, AnyWorker

ASSUME ConcurrencyAssumption == Concurrency \in Nat \ {0}
ASSUME MaxRestartsAssumption == MaxRestarts \in Nat
ASSUME NoJobAssumption == NoJob \notin Jobs
ASSUME AnyWorkerAssumption == AnyWorker \notin Workers

VARIABLES
  client,    \* the scrape request of each job: not made, waiting, or over
  pin,       \* preferred_worker_id of each job
  queue,     \* the Redis list, in the order BRPOP takes jobs
  result,    \* RESULT_PREFIX key of each job; page or error is the same here
  mode,      \* a worker process: up, draining after SIGTERM, or down
  loop,      \* where run_worker stands; "rest" is its sleep after a push-back
             \* or a Redis error
  hand,      \* the job popped and not yet dispatched
  task,      \* the in-flight tasks of a worker, by job
  restarts,  \* how many processes have come back
  lost       \* history: jobs a fault has taken away

requests == <<client, pin>>
workers  == <<mode, loop, hand, task>>
vars     == <<requests, queue, result, workers, restarts, lost>>

\* "excepting": the except branch is about to store the error result.
TaskStage == {"none", "running", "excepting"}

InFlight(w) == {j \in Jobs : task[w][j] # "none"}

Init ==
  /\ client   = [j \in Jobs |-> "new"]
  /\ pin      = [j \in Jobs |-> AnyWorker]
  /\ queue    = <<>>
  /\ result   = [j \in Jobs |-> "none"]
  /\ mode     = [w \in Workers |-> "up"]
  /\ loop     = [w \in Workers |-> "top"]
  /\ hand     = [w \in Workers |-> NoJob]
  /\ task     = [w \in Workers |-> [j \in Jobs |-> "none"]]
  /\ restarts = 0
  /\ lost     = {}
-----------------------------------------------------------------------------
(***************************************************************************)
(* fetch_via_browser_grid.                                                 *)
(***************************************************************************)
\* The job is pinned when the proxy pool hands out a direct:// egress; the
\* egress registry may name a worker that has died since.
Enqueue(j, p) ==
  /\ client[j] = "new"
  /\ client' = [client EXCEPT ![j] = "waiting"]
  /\ pin'    = [pin EXCEPT ![j] = p]
  /\ queue'  = Append(queue, j)
  /\ UNCHANGED <<result, workers, restarts, lost>>

\* Picking the proxy or the LPUSH raised (the job may be in the list all the
\* same): browser_grid_enqueue_failed.
EnqueueFails(j, p) ==
  /\ client[j] = "new"
  /\ client' = [client EXCEPT ![j] = "over"]
  /\ \/ UNCHANGED <<pin, queue>>
     \/ pin' = [pin EXCEPT ![j] = p] /\ queue' = Append(queue, j)
  /\ UNCHANGED <<result, workers, restarts, lost>>

PollDone(j) ==
  /\ client[j] = "waiting"
  /\ result[j] # "none"
  /\ client' = [client EXCEPT ![j] = "over"]
  /\ UNCHANGED <<pin, queue, result, workers, restarts, lost>>

\* The deadline passed during the last sleep (the result may be there by now),
\* or a GET raised: the request ends, the job is not withdrawn.
GiveUp(j) ==
  /\ client[j] = "waiting"
  /\ client' = [client EXCEPT ![j] = "over"]
  /\ UNCHANGED <<pin, queue, result, workers, restarts, lost>>

\* RESULT_TTL_SECONDS is far above the client's deadline, so a result expires
\* only when nobody waits for it any more.
ResultExpires(j) ==
  /\ client[j] # "waiting"
  /\ result[j] # "none"
  /\ result' = [result EXCEPT ![j] = "none"]
  /\ UNCHANGED <<requests, queue, workers, restarts, lost>>
-----------------------------------------------------------------------------
(***************************************************************************)
(* run_worker.                                                             *)
(***************************************************************************)
Goto(w, place) == loop' = [loop EXCEPT ![w] = place]

CheckCapacityLate(w) ==
  /\ mode[w] = "up" /\ loop[w] = "top"
  /\ Cardinality(InFlight(w)) <= Concurrency
  /\ Goto(w, "brpop")
  /\ UNCHANGED <<requests, queue, result, mode, hand, task, restarts, lost>>

\* Top of the loop: finished tasks are reaped, and BRPOP is issued only below
\* the limit.
CheckCapacity(w) ==
  /\ mode[w] = "up" /\ loop[w] = "top"
  /\ Cardinality(InFlight(w)) < Concurrency
  /\ Goto(w, "brpop")
  /\ UNCHANGED <<requests, queue, result, mode, hand, task, restarts, lost>>

\* BRPOP returns a job, also to a worker told to stop in the meantime.
Pop(w) ==
  /\ loop[w] = "brpop" /\ queue # <<>>
  /\ hand'  = [hand EXCEPT ![w] = Head(queue)]
  /\ queue' = Tail(queue)
  /\ Goto(w, "hand")
  /\ UNCHANGED <<requests, result, mode, task, restarts, lost>>

PopNothingAgain(w) ==
  /\ loop[w] = "brpop" /\ queue = <<>>
  /\ UNCHANGED vars

\* BRPOP times out after one second; the loop looks at _running again.
PopNothing(w) ==
  /\ loop[w] = "brpop" /\ queue = <<>>
  /\ Goto(w, "top")
  /\ UNCHANGED <<requests, queue, result, mode, hand, task, restarts, lost>>

\* Redis popped the job but its reply never came: the loop logs the error,
\* sleeps and goes on.
PopReplyLost(w) ==
  /\ loop[w] = "brpop" /\ queue # <<>>
  /\ lost'  = lost \cup {Head(queue)}
  /\ queue' = Tail(queue)
  /\ Goto(w, "rest")
  /\ UNCHANGED <<requests, result, mode, hand, task, restarts>>

\* BRPOP raised and popped nothing, whatever the list holds: a timeout of the
\* client goes round at once, any other error is logged and slept over.
PopRaises(w) ==
  /\ loop[w] = "brpop"
  /\ \E next \in {"top", "rest"} : Goto(w, next)
  /\ UNCHANGED <<requests, queue, result, mode, hand, task, restarts, lost>>

Wake(w) ==
  /\ loop[w] = "rest"
  /\ Goto(w, "top")
  /\ UNCHANGED <<requests, queue, result, mode, hand, task, restarts, lost>>

MayRun(w, j) == pin[j] \in {AnyWorker, w}

DispatchUnasked(w) ==
  /\ loop[w] = "hand"
  /\ task' = [task EXCEPT ![w][hand[w]] = "running"]
  /\ hand' = [hand EXCEPT ![w] = NoJob]
  /\ Goto(w, "top")
  /\ UNCHANGED <<requests, queue, result, mode, restarts, lost>>

Dispatch(w) ==
  /\ loop[w] = "hand" /\ MayRun(w, hand[w])
  /\ task' = [task EXCEPT ![w][hand[w]] = "running"]
  /\ hand' = [hand EXCEPT ![w] = NoJob]
  /\ Goto(w, "top")
  /\ UNCHANGED <<requests, queue, result, mode, restarts, lost>>

PushBackTwice(w) ==
  /\ loop[w] = "hand" /\ ~MayRun(w, hand[w])
  /\ queue' = queue \o <<hand[w], hand[w]>>
  /\ hand'  = [hand EXCEPT ![w] = NoJob]
  /\ Goto(w, "rest")
  /\ UNCHANGED <<requests, result, mode, task, restarts, lost>>

PushBackInFront(w) ==
  /\ loop[w] = "hand" /\ ~MayRun(w, hand[w])
  /\ queue' = <<hand[w]>> \o queue
  /\ hand'  = [hand EXCEPT ![w] = NoJob]
  /\ Goto(w, "rest")
  /\ UNCHANGED <<requests, result, mode, task, restarts, lost>>

\* A job pinned to another worker goes back to the end of the line.
PushBack(w) ==
  /\ loop[w] = "hand" /\ ~MayRun(w, hand[w])
  /\ queue' = Append(queue, hand[w])
  /\ hand'  = [hand EXCEPT ![w] = NoJob]
  /\ Goto(w, "rest")
  /\ UNCHANGED <<requests, result, mode, task, restarts, lost>>

\* Nothing catches an error of that LPUSH: run_worker leaves its loop, waits
\* for its tasks and ends.  The job may have reached the list.
PushBackFails(w) ==
  /\ loop[w] = "hand" /\ ~MayRun(w, hand[w])
  /\ \/ queue' = Append(queue, hand[w]) /\ UNCHANGED lost
     \/ lost' = lost \cup {hand[w]} /\ UNCHANGED queue
  /\ mode' = [mode EXCEPT ![w] = "draining"]
  /\ hand' = [hand EXCEPT ![w] = NoJob]
  /\ Goto(w, "top")
  /\ UNCHANGED <<requests, result, task, restarts>>
-----------------------------------------------------------------------------
(***************************************************************************)
(* _run_job_with_semaphore.  The loop's capacity check leaves a permit for *)
(* every task it creates, so the semaphore never makes one wait.           *)
(***************************************************************************)
RunStores(w, j) ==
  /\ task[w][j] = "running"
  /\ result' = [result EXCEPT ![j] = "stored"]
  /\ task'   = [task EXCEPT ![w][j] = "none"]
  /\ UNCHANGED <<requests, queue, mode, loop, hand, restarts, lost>>

\* The scrape raised, or its SETEX did (with or without having been done).
RunRaises(w, j) ==
  /\ task[w][j] = "running"
  /\ \E r \in {result[j], "stored"} : result' = [result EXCEPT ![j] = r]
  /\ task' = [task EXCEPT ![w][j] = "excepting"]
  /\ UNCHANGED <<requests, queue, mode, loop, hand, restarts, lost>>

ErrorStores(w, j) ==
  /\ task[w][j] = "excepting"
  /\ result' = [result EXCEPT ![j] = "stored"]
  /\ task'   = [task EXCEPT ![w][j] = "none"]
  /\ UNCHANGED <<requests, queue, mode, loop, hand, restarts, lost>>

\* That SETEX raises too (done or not); the loop logs it when it reaps the task.
ErrorStoreFails(w, j) ==
  /\ task[w][j] = "excepting"
  /\ \E r \in {result[j], "stored"} : result' = [result EXCEPT ![j] = r]
  /\ lost' = lost \cup {j}
  /\ task' = [task EXCEPT ![w][j] = "none"]
  /\ UNCHANGED <<requests, queue, mode, loop, hand, restarts>>
-----------------------------------------------------------------------------
(***************************************************************************)
(* The worker process.                                                     *)
(***************************************************************************)
Sigterm(w) ==
  /\ mode[w] = "up"
  /\ mode' = [mode EXCEPT ![w] = "draining"]
  /\ UNCHANGED <<requests, queue, result, loop, hand, task, restarts, lost>>

ExitAtOnce(w) ==
  /\ mode[w] = "draining" /\ loop[w] = "top"
  /\ mode' = [mode EXCEPT ![w] = "down"]
  /\ task' = [task EXCEPT ![w] = [j \in Jobs |-> "none"]]
  /\ UNCHANGED <<requests, queue, result, loop, hand, restarts, lost>>

\* The loop sees _running is False; the finally block awaits the tasks.
Exit(w) ==
  /\ mode[w] = "draining" /\ loop[w] = "top" /\ InFlight(w) = {}
  /\ mode' = [mode EXCEPT ![w] = "down"]
  /\ UNCHANGED <<requests, queue, result, loop, hand, task, restarts, lost>>

\* The process dies.
Crash(w) ==
  /\ mode[w] # "down"
  /\ mode' = [mode EXCEPT ![w] = "down"]
  /\ loop' = [loop EXCEPT ![w] = "top"]
  /\ hand' = [hand EXCEPT ![w] = NoJob]
  /\ task' = [task EXCEPT ![w] = [j \in Jobs |-> "none"]]
  /\ lost' = lost \cup InFlight(w) \cup ({hand[w]} \ {NoJob})
  /\ UNCHANGED <<requests, queue, result, restarts>>

Restart(w) ==
  /\ mode[w] = "down" /\ restarts < MaxRestarts
  /\ mode' = [mode EXCEPT ![w] = "up"]
  /\ restarts' = restarts + 1
  /\ UNCHANGED <<requests, queue, result, loop, hand, task, lost>>
-----------------------------------------------------------------------------
Next ==
  \/ \E j \in Jobs : \/ \E p \in Workers \cup {AnyWorker} : Enqueue(j, p) \/ EnqueueFails(j, p)
                     \/ PollDone(j) \/ GiveUp(j) \/ ResultExpires(j)
  \/ \E w \in Workers : \/ CheckCapacity(w) \/ Pop(w) \/ PopNothing(w)
                        \/ PopRaises(w) \/ PopReplyLost(w) \/ Wake(w) \/ Dispatch(w)
                        \/ PushBack(w) \/ PushBackFails(w)
                        \/ Sigterm(w) \/ Exit(w) \/ Crash(w) \/ Restart(w)
  \/ \E w \in Workers, j \in Jobs :
       RunStores(w, j) \/ RunRaises(w, j) \/ ErrorStores(w, j) \/ ErrorStoreFails(w, j)

\* A live worker runs its loop and its tasks (a browser fetch has timeouts).
\* BRPOP serves blocked clients in turn, so a worker that keeps asking while
\* jobs keep coming is served: strong fairness for Pop.
Fairness ==
  \A w \in Workers :
    /\ WF_vars(CheckCapacity(w)) /\ SF_vars(Pop(w)) /\ WF_vars(PopNothing(w))
    /\ WF_vars(Dispatch(w)) /\ WF_vars(PushBack(w)) /\ WF_vars(Wake(w)) /\ WF_vars(Exit(w))
    /\ \A j \in Jobs :
         /\ WF_vars(RunStores(w, j) \/ RunRaises(w, j))
         /\ WF_vars(ErrorStores(w, j) \/ ErrorStoreFails(w, j))

Spec == Init /\ [][Next]_vars
FairSpec == Spec /\ Fairness
-----------------------------------------------------------------------------
(***************************************************************************)
(* Properties.                                                             *)
(***************************************************************************)
\* Type of the state; a process that is down holds nothing.
TypeOK ==
  /\ client \in [Jobs -> {"new", "waiting", "over"}]
  /\ pin \in [Jobs -> Workers \cup {AnyWorker}]
  /\ queue \in Seq(Jobs)
  /\ result \in [Jobs -> {"none", "stored"}]
  /\ mode \in [Workers -> {"up", "draining", "down"}]
  /\ loop \in [Workers -> {"top", "brpop", "hand", "rest"}]
  /\ hand \in [Workers -> Jobs \cup {NoJob}]
  /\ task \in [Workers -> [Jobs -> TaskStage]]
  /\ restarts \in 0 .. MaxRestarts
  /\ lost \in SUBSET Jobs
  /\ \A w \in Workers : mode[w] = "down" => loop[w] = "top" /\ InFlight(w) = {}
  /\ \A w \in Workers : (hand[w] # NoJob) = (loop[w] = "hand")

\* The capacity is checked before an await and used after it, yet no worker
\* ever runs more browsers than its limit, even counting the job in hand.
CapacityHeld ==
  \A w \in Workers :
    Cardinality(InFlight(w) \cup ({hand[w]} \ {NoJob})) <= Concurrency

Queued(j) == \E i \in DOMAIN queue : queue[i] = j
InHand(j) == \E w \in Workers : hand[w] = j
InTask(j) == \E w \in Workers : task[w][j] # "none"
Runners(j) == {w \in Workers : task[w][j] # "none"}

\* A job is in one place only, through any number of push-backs, crashes and
\* drains: no page is scraped twice for one request, nor by the wrong worker.
HeldOnce ==
  /\ \A i, k \in DOMAIN queue : queue[i] = queue[k] => i = k
  /\ \A j \in Jobs : Queued(j) => ~InHand(j) /\ ~InTask(j)
  /\ \A j \in Jobs : InHand(j) => ~InTask(j)
  /\ \A v, w \in Workers : hand[v] = hand[w] /\ hand[v] # NoJob => v = w
  /\ \A v, w \in Workers, j \in Jobs :
       task[v][j] # "none" /\ task[w][j] # "none" => v = w

\* A request that still waits has its job somewhere, its result stored, or lost
\* its job to a fault; in particular a drained worker leaves nothing behind.
WaitingIsAccounted ==
  \A j \in Jobs :
    client[j] = "waiting" =>
      Queued(j) \/ InHand(j) \/ InTask(j) \/ result[j] # "none" \/ j \in lost

\* The phase of a job: offered while it is in the list or in a hand.
Phase(j) ==
  IF client[j] = "new" THEN "unmade"
  ELSE IF InTask(j) THEN "running"
  ELSE IF Queued(j) \/ InHand(j) THEN "offered"
  ELSE "over"

Request == INSTANCE GridRequest WITH
             phase  <- [j \in Jobs |-> Phase(j)],
             runner <- [j \in Jobs |-> Runners(j)]

\* fetch_via_browser_grid and run_worker keep what GridRequest promises: through any
\* push-backs, lost replies, failed writes, drains, crashes and restarts a request's
\* page is scraped once at most, by a worker its pin allows, and nothing else makes a
\* result of it.
ImplementsRequest == Request!Spec

Idle == \A w \in Workers : mode[w] # "up"
Taken(j) == InTask(j) \/ result[j] # "none" \/ j \in lost

\* An unpinned job is taken while some worker is up, however many pinned jobs
\* bounce around it.
UnpinnedJobsTaken ==
  \A j \in Jobs : Queued(j) /\ pin[j] = AnyWorker ~> Taken(j) \/ Idle

\* A worker told to stop stops: it finishes what it holds and takes no more.
DrainEnds == \A w \in Workers : mode[w] = "draining" ~> mode[w] = "down"
=============================================================================
