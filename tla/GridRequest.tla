---------------------------- MODULE GridRequest -----------------------------
(***************************************************************************)
(* What the browser grid promises about one scrape request, whatever the   *)
(* number of workers, the jobs they pass on and the faults that hit them:  *)
(* its job runs once at most, on a worker it may run on; a result is there *)
(* only because that run stored it, and as long as somebody waits for it;  *)
(* a job that is over comes back in no way.  BrowserGrid implements this   *)
(* specification.                                                          *)
(***************************************************************************)
CONSTANTS Jobs, Workers, AnyWorker

VARIABLES client,  \* the request: not made, waiting, or over
          pin,     \* the worker its job is meant for
          phase,   \* its job: unmade, offered, running, or over
          runner,  \* the worker that runs the job, as a set
          result   \* whether its result can be read

vars == <<client, pin, phase, runner, result>>

Init ==
  /\ client = [j \in Jobs |-> "new"]    /\ pin = [j \in Jobs |-> AnyWorker]
  /\ phase  = [j \in Jobs |-> "unmade"] /\ runner = [j \in Jobs |-> {}]
  /\ result = [j \in Jobs |-> "none"]

Enter(j, to) == phase' = [phase EXCEPT ![j] = to]

Ask(j, p) ==
  /\ phase[j] = "unmade" /\ Enter(j, "offered")
  /\ client' = [client EXCEPT ![j] = "waiting"] /\ pin' = [pin EXCEPT ![j] = p]
  /\ UNCHANGED <<runner, result>>

\* The request fails; whether its job was offered all the same is not known.
AskFails(j, p) ==
  /\ phase[j] = "unmade"
  /\ client' = [client EXCEPT ![j] = "over"]
  /\ \/ Enter(j, "over") /\ UNCHANGED pin
     \/ Enter(j, "offered") /\ pin' = [pin EXCEPT ![j] = p]
  /\ UNCHANGED <<runner, result>>

\* The client stops waiting, with a result or without; the job is not withdrawn.
Leave(j) ==
  /\ client[j] = "waiting" /\ client' = [client EXCEPT ![j] = "over"]
  /\ UNCHANGED <<pin, phase, runner, result>>

Run(j, w) ==
  /\ phase[j] = "offered" /\ pin[j] \in {AnyWorker, w}
  /\ Enter(j, "running") /\ runner' = [runner EXCEPT ![j] = {w}]
  /\ UNCHANGED <<client, pin, result>>

\* A result is stored although the run goes on, to report an error.
Store(j) ==
  /\ phase[j] = "running" /\ result' = [result EXCEPT ![j] = "stored"]
  /\ UNCHANGED <<client, pin, phase, runner>>

End(j) ==
  /\ phase[j] = "running" /\ Enter(j, "over")
  /\ runner' = [runner EXCEPT ![j] = {}]
  /\ \E r \in {result[j], "stored"} : result' = [result EXCEPT ![j] = r]
  /\ UNCHANGED <<client, pin>>

\* A fault takes jobs away, running or not.
Lose(S) ==
  /\ \A j \in S : phase[j] \in {"offered", "running"}
  /\ phase'  = [j \in Jobs |-> IF j \in S THEN "over" ELSE phase[j]]
  /\ runner' = [j \in Jobs |-> IF j \in S THEN {} ELSE runner[j]]
  /\ UNCHANGED <<client, pin, result>>

Expire(j) ==
  /\ client[j] # "waiting" /\ result' = [result EXCEPT ![j] = "none"]
  /\ UNCHANGED <<client, pin, phase, runner>>

Next ==
  \/ \E j \in Jobs, p \in Workers \cup {AnyWorker} : Ask(j, p) \/ AskFails(j, p)
  \/ \E j \in Jobs, w \in Workers : Run(j, w)
  \/ \E j \in Jobs : Leave(j) \/ Store(j) \/ End(j) \/ Expire(j)
  \/ \E S \in SUBSET Jobs : Lose(S)

Spec == Init /\ [][Next]_vars
=============================================================================
