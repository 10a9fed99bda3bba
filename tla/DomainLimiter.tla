--------------------------- MODULE DomainLimiter ----------------------------
(***************************************************************************)
(* What the rate limiter promises the domains it protects: a source is let *)
(* through only when its delay has passed since every earlier grant of the *)
(* domain, and when the last minute holds fewer grants than it allows.     *)
(* There is no lock here, no sleep and no table, only the grants and the   *)
(* clock they are read on.  RateLimiter implements this specification.     *)
(***************************************************************************)
EXTENDS Integers, FiniteSets

CONSTANTS Callers, Domains, DomainOf,
          DelayOf, RpmOf,  \* what the source of a caller allows
          Minute, Epoch

VARIABLES now, granted

vars == <<now, granted>>

Init == now = Epoch /\ granted = [d \in Domains |-> {}]

LastMinute(d) == {g \in granted[d] : g.at >= now - Minute}

Grant(c) ==
  /\ \A g \in granted[DomainOf[c]] : now - g.at >= DelayOf[c]
  /\ Cardinality(LastMinute(DomainOf[c])) < RpmOf[c]
  /\ granted' = [granted EXCEPT ![DomainOf[c]] = @ \cup {[at |-> now, by |-> c]}]
  /\ UNCHANGED now

Tick == now' = now + 1 /\ UNCHANGED granted

Next == (\E c \in Callers : Grant(c)) \/ Tick

Spec == Init /\ [][Next]_vars
=============================================================================
