----------------------------- MODULE BrowserPool -----------------------------
(***************************************************************************)
(* The Playwright pool of a process (app/services/crawler/browser_pool.py): *)
(* a global that is made on demand under a lock, a browser with so many    *)
(* pages at a time, a context per page, and a shutdown that takes no lock. *)
(*                                                                         *)
(* Pools are numbered in the order they are made: a task keeps the one it  *)
(* was given, whatever becomes of the global.                              *)
(***************************************************************************)
EXTENDS Integers, FiniteSets

CONSTANTS Tasks,
          PoolSize,   \* browser_pool_size
          MaxPools    \* bound: one, and one more after the shutdown

NoTask == "noTask"

ASSUME PoolAssumption ==
  PoolSize \in Nat \ {0} /\ MaxPools \in Nat \ {0, 1} /\ NoTask \notin Tasks

Pools == 1 .. MaxPools
NoPool == 0

VARIABLES
  pools,     \* absent, unstarted, up, closing or down
  current,   \* the global _pool
  lock,      \* who holds _pool_lock
  contexts,  \* how many the browser of a pool has open
  lost,      \* history: contexts that were opened and never will be closed
  shutdown,  \* not begun, closing, done
  at,        \* where a task stands
  mine       \* the pool a task was given

poolVars == <<pools, current, lock, contexts, lost, shutdown>>

Before  == {"get", "starting", "permit"}
InPage  == {"warm", "goto", "challenge", "solve", "paid", "judge", "shoot"}
WithContext == {"dressing"} \cup InPage

\* The tasks that hold a permit of pool g, and those that have a context there.
Inside(g)  == {t \in Tasks : mine[t] = g /\ at[t] \in {"opening"} \cup WithContext}
Visiting(g) == {t \in Tasks : mine[t] = g /\ at[t] \in WithContext}

PoolInit ==
  /\ pools = [g \in Pools |-> "absent"] /\ current = NoPool /\ lock = NoTask
  /\ contexts = [g \in Pools |-> 0] /\ lost = [g \in Pools |-> 0]
  /\ shutdown = "no"
-----------------------------------------------------------------------------
Goes(t, where) == at' = [at EXCEPT ![t] = where]

\* get_browser_pool finds one that is started, and page() is entered.
Get(t) ==
  /\ at[t] = "get" /\ lock = NoTask
  /\ current # NoPool /\ pools[current] \in {"up", "closing"}
  /\ mine' = [mine EXCEPT ![t] = current]
  /\ Goes(t, "permit")
  /\ UNCHANGED poolVars

\* Or it makes one, or starts the one a failed start has left, under the lock.
Make(t) ==
  /\ at[t] = "get" /\ lock = NoTask
  /\ \E g \in Pools :
       /\ \/ current = NoPool /\ pools[g] = "absent" /\ \A h \in 1 .. g - 1 : pools[h] # "absent"
          \/ current = g /\ pools[g] = "unstarted"
       /\ pools' = [pools EXCEPT ![g] = "unstarted"]
       /\ current' = g /\ mine' = [mine EXCEPT ![t] = g]
  /\ lock' = t
  /\ Goes(t, "starting")
  /\ UNCHANGED <<contexts, lost, shutdown>>

\* The browser runs.  The global is returned, and a shutdown meanwhile has unset it:
\* then nothing refers to the browser any more.
Started(t) ==
  /\ at[t] = "starting" /\ current = mine[t]
  /\ pools' = [pools EXCEPT ![mine[t]] = "up"]
  /\ lock' = NoTask
  /\ Goes(t, "permit")
  /\ UNCHANGED <<mine, current, contexts, lost, shutdown>>

PermitAlways(t) ==
  /\ at[t] = "permit"
  /\ Goes(t, "opening")
  /\ UNCHANGED <<mine, poolVars>>

\* The semaphore of the pool: whoever waited for a pool that has been stopped gets
\* in as well, and fails there.
Permit(t) ==
  /\ at[t] = "permit" /\ Cardinality(Inside(mine[t])) < PoolSize
  /\ Goes(t, "opening")
  /\ UNCHANGED <<mine, poolVars>>

\* new_context.
Open(t) ==
  /\ at[t] = "opening" /\ pools[mine[t]] = "up"
  /\ contexts' = [contexts EXCEPT ![mine[t]] = @ + 1]
  /\ Goes(t, "dressing")
  /\ UNCHANGED <<mine, pools, current, lock, lost, shutdown>>

LeaveUnclosed(t) ==
  /\ UNCHANGED <<contexts, lost>>
  /\ lock' = IF lock = t THEN NoTask ELSE lock

(* What leaving page() does, however it is left, to the pool of a task at a stage:
   the context is closed by the finally, which starts after apply_stealth only. A
   new_context that is cancelled may have made one that nobody was given. *)
Leave(t) ==
  /\ lock' = IF lock = t THEN NoTask ELSE lock
  /\ IF mine[t] = NoPool \/ pools[mine[t]] # "up" THEN UNCHANGED <<contexts, lost>>
     ELSE CASE at[t] \in InPage -> contexts' = [contexts EXCEPT ![mine[t]] = @ - 1] /\ UNCHANGED lost
            [] at[t] = "dressing" -> lost' = [lost EXCEPT ![mine[t]] = @ + 1] /\ UNCHANGED contexts
            [] at[t] = "opening" -> \E made \in 0 .. 1 :
                 /\ contexts' = [contexts EXCEPT ![mine[t]] = @ + made]
                 /\ lost' = [lost EXCEPT ![mine[t]] = @ + made]
            [] OTHER -> UNCHANGED <<contexts, lost>>

\* shutdown_browser_pool at the end of the application: it closes the browser with
\* every context, stops the driver and unsets the global.
ShutdownBegins ==
  /\ shutdown = "no"
  /\ IF current # NoPool /\ pools[current] = "up"
       THEN /\ pools' = [pools EXCEPT ![current] = "closing"]
            /\ contexts' = [contexts EXCEPT ![current] = 0]
            /\ lost' = [lost EXCEPT ![current] = 0]
            /\ shutdown' = "closing" /\ UNCHANGED current
       ELSE current' = NoPool /\ shutdown' = "done" /\ UNCHANGED <<pools, contexts, lost>>
  /\ UNCHANGED <<lock, at, mine>>

ShutdownEnds ==
  /\ shutdown = "closing"
  /\ pools' = [pools EXCEPT ![current] = "down"]
  /\ current' = NoPool /\ shutdown' = "done"
  /\ UNCHANGED <<lock, contexts, lost, at, mine>>

PoolTypeOK ==
  /\ pools \in [Pools -> {"absent", "unstarted", "up", "closing", "down"}]
  /\ current \in {NoPool} \cup Pools /\ lock \in Tasks \cup {NoTask}
  /\ contexts \in [Pools -> Nat] /\ lost \in [Pools -> Nat]
  /\ shutdown \in {"no", "closing", "done"}
  /\ mine \in [Tasks -> {NoPool} \cup Pools]
  /\ \A g \in Pools : Cardinality(Inside(g)) <= PoolSize
  /\ lock # NoTask => at[lock] = "starting"

\* A browser that runs has the contexts of the tasks that visit a page, and those
\* whose opening failed half-way or was cancelled there; every other exit, a timeout
\* among them, has closed its own.
ContextsAccounted ==
  \A g \in Pools : pools[g] = "up" => contexts[g] = Cardinality(Visiting(g)) + lost[g]
=============================================================================
