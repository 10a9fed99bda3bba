---------------------------- MODULE JobLifecycle ----------------------------
(***************************************************************************)
(* What the crawl-job API promises about one job document, whatever the    *)
(* number of API processes and workers and whatever fails: the document    *)
(* only moves forward (queued, running, then one outcome), the outcome     *)
(* never changes, and the only thing that can take a document away is its  *)
(* expiry.  CrawlJobs implements this specification.                       *)
(***************************************************************************)
CONSTANT Jobs

VARIABLES shown,    \* the document an atomic read of the job would return
          reached   \* the furthest document ever written for the job

vars == <<shown, reached>>

Terminal == {"completed", "failed"}
Docs == {"queued", "running"} \cup Terminal

Follows(old, new) ==
  \/ old = "absent"  /\ new = "queued"
  \/ old = "queued"  /\ new = "running"
  \/ old = "running" /\ new \in Terminal

Init == /\ shown   = [j \in Jobs |-> "absent"]
        /\ reached = [j \in Jobs |-> "absent"]

Advance(j, doc) ==
  /\ Follows(reached[j], doc)
  /\ reached' = [reached EXCEPT ![j] = doc]
  /\ shown'   = [shown EXCEPT ![j] = doc]

\* A finished job's document may be written a second time.
Repost(j) ==
  /\ reached[j] \in Terminal
  /\ shown' = [shown EXCEPT ![j] = reached[j]]
  /\ UNCHANGED reached

Expire(S) ==
  /\ shown' = [j \in Jobs |-> IF j \in S THEN "absent" ELSE shown[j]]
  /\ UNCHANGED reached

Next == \/ \E j \in Jobs, doc \in Docs : Advance(j, doc)
        \/ \E j \in Jobs : Repost(j)
        \/ \E S \in SUBSET Jobs : Expire(S)

Spec == Init /\ [][Next]_vars
=============================================================================
