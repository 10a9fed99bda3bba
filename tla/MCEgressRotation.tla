-------------------------- MODULE MCEgressRotation --------------------------
(***************************************************************************)
(* The pool, processes and fetches for the run of EgressRotation: two URLs *)
(* of one gateway and a worker slot; a provider's fetch, which names no    *)
(* retailer, and a capture, which does, in two processes.                  *)
(***************************************************************************)
EXTENDS EgressRotation, TLC

CONSTANTS p1, p2, slot, gate, api, worker, f1, f2, r1

GateAndSlot == <<p1, p2, slot>>
OneGateway  == p1 :> gate @@ p2 :> gate @@ slot :> slot
OnlySlot    == {slot}

TwoProcesses == {api, worker}
TwoFetches   == {f1, f2}
OneRetailer  == {r1}
HttpAndShots == f1 :> "http" @@ f2 :> "shots"
Apart        == f1 :> api @@ f2 :> worker
SameRetailer == f1 :> r1 @@ f2 :> r1

\* No read of Redis fails, all do, or those of the hosts' counters.
AllOrTheHost == {{}, Counters, {k \in Counters : k.of = NoRetailer}}
=============================================================================
