---------------------------- MODULE VisionProofs ----------------------------
(***************************************************************************)
(* Proofs about VisionExtraction, and so about BrowserPool and LlmCascade   *)
(* under the tasks that use them: for any set of tasks, any number of      *)
(* permits, pools, providers, batches and tries.                           *)
(***************************************************************************)
EXTENDS VisionExtraction, FiniteSetTheorems, SequenceTheorems, TLAPS

Fates  == {"read", "garbled", "malformed", "raised", "limited"}
Active == {"queued", "asking", "sleeping"}

\* The cascade: beyond LlmTypeOK, that an extraction under way has a batch left,
\* and that the permits are finitely many.
LlmInv ==
  /\ call \in [Callers -> {"idle", "answered"} \cup Active]
  /\ mode \in [Callers -> {"vision", "text"}]
  /\ batches \in [Callers -> 0 .. MaxBatches]
  /\ partials \in [Callers -> Seq(Fates)]
  /\ attempt \in [Callers -> 1 .. 3]
  /\ next \in [Callers -> 1 .. Providers]
  /\ silent \in [Callers -> SUBSET (1 .. Providers)]
  /\ \A c \in Callers :
       /\ mode[c] = "vision" => attempt[c] <= 2
       /\ silent[c] = 1 .. next[c] - 1
       /\ call[c] \in Active => Len(partials[c]) < batches[c]
       /\ call[c] \notin Active => Len(partials[c]) = batches[c]

LlmPermitInv == IsFiniteSet(Asking) /\ Cardinality(Asking) <= LlmPermits

\* All that a step of the system does to the cascade.
LlmEffect(c) ==
  \/ Idles(c)
  \/ \E how \in {"vision", "text"}, n \in 1 .. MaxBatches : Extract(c, how, n)
  \/ CascadeStep(c)

LlmNext == UNCHANGED llmVars \/ \E c \in Callers : LlmEffect(c)
-----------------------------------------------------------------------------
LEMMA LlmConstants ==
  /\ Providers \in Nat /\ Providers >= 1
  /\ LlmPermits \in Nat /\ LlmPermits >= 1
  /\ MaxBatches \in Nat /\ MaxBatches >= 1
  /\ Callers = Tasks
BY LlmAssumption, VisionAssumption

\* Attempts, Settles and EndsAttempt keep the invariant of the cascade when the
\* caller was asking.
LEMMA SettlesKeeps ==
  ASSUME LlmInv, NEW c \in Callers, NEW fate \in Fates, call[c] = "asking",
         Settles(c, fate), UNCHANGED <<mode, batches>>
  PROVE  LlmInv'
<1> USE LlmConstants
<1>1. partials[c] \in Seq(Fates) /\ Len(partials[c]) < batches[c] /\ batches[c] \in Nat
  BY DEF LlmInv, Active
<1>2. /\ Append(partials[c], fate) \in Seq(Fates)
      /\ Len(Append(partials[c], fate)) = Len(partials[c]) + 1
      /\ Len(partials[c]) \in Nat
  BY <1>1
<1>3. partials' \in [Callers -> Seq(Fates)]
  BY <1>2 DEF LlmInv, Settles
<1>4. /\ call' \in [Callers -> {"idle", "answered"} \cup Active]
      /\ attempt' \in [Callers -> 1 .. 3] /\ next' \in [Callers -> 1 .. Providers]
      /\ silent' \in [Callers -> SUBSET (1 .. Providers)]
  BY DEF LlmInv, Settles, Attempts, Active
<1>5. ASSUME NEW d \in Callers
      PROVE  /\ mode'[d] = "vision" => attempt'[d] <= 2
             /\ silent'[d] = 1 .. next'[d] - 1
             /\ call'[d] \in Active => Len(partials'[d]) < batches'[d]
             /\ call'[d] \notin Active => Len(partials'[d]) = batches'[d]
  <2>1. CASE d # c
    BY <2>1 DEF LlmInv, Settles, Attempts
  <2>2. CASE d = c
    <3>1. attempt'[c] = 1 /\ next'[c] = 1 /\ silent'[c] = {} /\ batches'[c] = batches[c]
      BY DEF LlmInv, Settles, Attempts
    <3>2. 1 .. 1 - 1 = {}
      OBVIOUS
    <3>3. /\ partials'[c] = Append(partials[c], fate)
          /\ call'[c] = IF Len(partials[c]) + 1 = batches[c] THEN "answered" ELSE "queued"
      BY DEF LlmInv, Settles
    <3>4. Len(partials'[c]) = Len(partials[c]) + 1
      BY <3>3, <1>2
    <3>5. QED
      BY <2>2, <3>1, <3>2, <3>3, <3>4, <1>1, <1>2 DEF Active
  <2>3. QED
    BY <2>1, <2>2
<1>6. QED
  BY <1>3, <1>4, <1>5 DEF LlmInv

LEMMA EndsAttemptKeeps ==
  ASSUME LlmInv, NEW c \in Callers, NEW fate \in Fates, call[c] = "asking",
         EndsAttempt(c, fate), UNCHANGED <<mode, batches>>
  PROVE  LlmInv'
<1> USE LlmConstants
<1>1. CASE ~MayRetry(c, fate)
  BY <1>1, SettlesKeeps DEF EndsAttempt
<1>2. CASE MayRetry(c, fate)
  <2>1. /\ attempt' = [attempt EXCEPT ![c] = attempt[c] + 1]
        /\ next' = [next EXCEPT ![c] = 1] /\ silent' = [silent EXCEPT ![c] = {}]
        /\ UNCHANGED partials
        /\ call' = [call EXCEPT ![c] = IF mode[c] = "text" THEN "sleeping" ELSE "queued"]
    BY <1>2 DEF EndsAttempt, Attempts
  <2>2. attempt[c] \in 1 .. 3 /\ attempt[c] < 3 /\ (mode[c] = "vision" => attempt[c] = 1)
    BY <1>2 DEF MayRetry, LlmInv
  <2>3. 1 .. 1 - 1 = {}
    OBVIOUS
  <2>4. /\ call' \in [Callers -> {"idle", "answered"} \cup Active]
        /\ attempt' \in [Callers -> 1 .. 3] /\ next' \in [Callers -> 1 .. Providers]
        /\ silent' \in [Callers -> SUBSET (1 .. Providers)]
    BY <2>1, <2>2 DEF LlmInv, Active
  <2>5. QED
    BY <2>1, <2>2, <2>3, <2>4 DEF LlmInv, Active
<1>3. QED
  BY <1>1, <1>2

\* Every effect on the cascade keeps its invariant.
LEMMA LlmStepKeeps == LlmInv /\ LlmNext => LlmInv'
<1> USE LlmConstants
<1> SUFFICES ASSUME LlmInv, LlmNext PROVE LlmInv'
  OBVIOUS
<1>1. CASE UNCHANGED llmVars
  BY <1>1 DEF LlmInv, llmVars
<1>2. ASSUME NEW c \in Callers, NEW how \in {"vision", "text"}, NEW n \in 0 .. MaxBatches,
             NEW where \in {"queued", "idle"}, where = "queued" => n >= 1, where = "idle" => n = 0,
             Resets(c, where, how, n)
      PROVE  LlmInv'
  <2>1. <<>> \in Seq(Fates) /\ Len(<<>>) = 0 /\ 1 .. 1 - 1 = {}
    OBVIOUS
  <2>2. /\ call' \in [Callers -> {"idle", "answered"} \cup Active]
        /\ mode' \in [Callers -> {"vision", "text"}]
        /\ batches' \in [Callers -> 0 .. MaxBatches]
        /\ partials' \in [Callers -> Seq(Fates)]
        /\ attempt' \in [Callers -> 1 .. 3] /\ next' \in [Callers -> 1 .. Providers]
        /\ silent' \in [Callers -> SUBSET (1 .. Providers)]
    BY <1>2, <2>1 DEF Resets, LlmInv, Active
  <2>3. QED
    BY <1>2, <2>1, <2>2 DEF Resets, LlmInv, Active
<1>3. ASSUME NEW c \in Callers, Ask(c) PROVE LlmInv'
  BY <1>3 DEF Ask, LlmInv, Active
<1>4. ASSUME NEW c \in Callers, Wakes(c) PROVE LlmInv'
  BY <1>4 DEF Wakes, LlmInv, Active
<1>5. ASSUME NEW c \in Callers, Reads(c) PROVE LlmInv'
  BY <1>5, SettlesKeeps DEF Reads, Fates
<1>6. ASSUME NEW c \in Callers, Disappoints(c) PROVE LlmInv'
  <2>1. PICK fate \in {"garbled", "malformed"} : EndsAttempt(c, fate)
    BY <1>6 DEF Disappoints
  <2>2. QED
    BY <1>6, <2>1, EndsAttemptKeeps DEF Disappoints, Fates
<1>7. ASSUME NEW c \in Callers, Raises(c) PROVE LlmInv'
  <2>1. CASE next[c] < Providers
    <3>1. /\ next' = [next EXCEPT ![c] = next[c] + 1]
          /\ silent' = [silent EXCEPT ![c] = silent[c] \cup {next[c]}]
          /\ call' = [call EXCEPT ![c] = "queued"] /\ call[c] = "asking"
          /\ UNCHANGED <<partials, attempt, mode, batches>>
      BY <1>7, <2>1 DEF Raises
    <3>2. next[c] \in 1 .. Providers /\ silent[c] = 1 .. next[c] - 1
      BY DEF LlmInv
    <3>3. (1 .. next[c] - 1) \cup {next[c]} = 1 .. (next[c] + 1) - 1
      BY <3>2
    <3>4. /\ call' \in [Callers -> {"idle", "answered"} \cup Active]
          /\ next' \in [Callers -> 1 .. Providers]
      BY <3>1, <3>2, <2>1 DEF LlmInv, Active
    <3>5. silent' \in [Callers -> SUBSET (1 .. Providers)]
      BY <3>1, <3>2 DEF LlmInv
    <3>6. QED
      BY <3>1, <3>2, <3>3, <3>4, <3>5 DEF LlmInv, Active
  <2>2. CASE ~(next[c] < Providers)
    <3>1. PICK fate \in {"raised", "limited"} : EndsAttempt(c, fate)
      BY <1>7, <2>2 DEF Raises
    <3>2. QED
      BY <1>7, <3>1, EndsAttemptKeeps DEF Raises, Fates
  <2>3. QED
    BY <2>1, <2>2
<1>8. ASSUME NEW c \in Callers, Idles(c) PROVE LlmInv'
  BY <1>8, <1>2 DEF Idles
<1>9. ASSUME NEW c \in Callers, NEW how \in {"vision", "text"}, NEW n \in 1 .. MaxBatches,
             Extract(c, how, n)
      PROVE  LlmInv'
  BY <1>9, <1>2 DEF Extract
<1>10. QED
  BY <1>1, <1>3, <1>4, <1>5, <1>6, <1>7, <1>8, <1>9 DEF LlmNext, LlmEffect, CascadeStep

\* Only Ask takes a permit of the models, and it looks first.
LEMMA LlmPermitStep == LlmInv /\ LlmPermitInv /\ LlmNext => LlmPermitInv'
<1> USE LlmConstants
<1> SUFFICES ASSUME LlmInv, LlmPermitInv, LlmNext PROVE LlmPermitInv'
  OBVIOUS
<1>1. CASE Asking' \subseteq Asking
  <2>1. IsFiniteSet(Asking') /\ Cardinality(Asking') <= Cardinality(Asking)
    BY <1>1, FS_Subset DEF LlmPermitInv
  <2>2. Cardinality(Asking) \in Nat /\ Cardinality(Asking') \in Nat
    BY <2>1, FS_CardinalityType DEF LlmPermitInv
  <2>3. QED
    BY <2>1, <2>2 DEF LlmPermitInv
<1>2. ASSUME NEW c \in Callers, Ask(c) PROVE LlmPermitInv'
  <2>1. Asking' = Asking \cup {c} /\ c \notin Asking
    BY <1>2 DEF Ask, Asking, LlmInv
  <2>2. IsFiniteSet(Asking') /\ Cardinality(Asking') = Cardinality(Asking) + 1
    BY <2>1, FS_AddElement DEF LlmPermitInv
  <2>3. Cardinality(Asking) \in Nat /\ Cardinality(Asking) < LlmPermits
    BY <1>2, FS_CardinalityType DEF LlmPermitInv, Ask
  <2>4. QED
    BY <2>2, <2>3 DEF LlmPermitInv
<1>3. ASSUME NEW c \in Callers, LlmEffect(c), ~Ask(c) PROVE Asking' \subseteq Asking
  <2>1. \E x \in {"idle", "queued", "answered", "sleeping"} : call' = [call EXCEPT ![c] = x]
    <3>1. ASSUME NEW fate \in Fates, EndsAttempt(c, fate)
          PROVE  \E x \in {"idle", "queued", "answered", "sleeping"} : call' = [call EXCEPT ![c] = x]
      BY <3>1 DEF EndsAttempt, Settles
    <3>2. QED
      BY <1>3, <3>1 DEF LlmEffect, Idles, Extract, Resets, CascadeStep, Reads, Settles,
        Disappoints, Raises, Wakes, Fates
  <2>2. QED
    BY <2>1 DEF Asking, LlmInv
<1>4. CASE UNCHANGED llmVars
  BY <1>1, <1>4 DEF Asking, llmVars
<1>5. QED
  BY <1>1, <1>2, <1>3, <1>4 DEF LlmNext

\* A batch that is given up because a model raises is given up by the last
\* provider, in the last attempt that there is.
LEMMA GivesUpStep ==
  LlmInv /\ LlmNext =>
    \A c \in Callers :
       LET given == Len(partials'[c]) = Len(partials[c]) + 1
           fate  == Last(partials'[c])
       IN given /\ fate \in {"raised", "limited"} =>
            /\ silent[c] \cup {next[c]} = 1 .. Providers
            /\ mode[c] = "vision" /\ HasFallback => attempt[c] = 2
            /\ mode[c] = "text" /\ fate = "limited" => attempt[c] = 3
<1> USE LlmConstants
<1> SUFFICES ASSUME LlmInv, LlmNext, NEW c \in Callers,
                    Len(partials'[c]) = Len(partials[c]) + 1,
                    Last(partials'[c]) \in {"raised", "limited"}
             PROVE  /\ silent[c] \cup {next[c]} = 1 .. Providers
                    /\ mode[c] = "vision" /\ HasFallback => attempt[c] = 2
                    /\ mode[c] = "text" /\ Last(partials'[c]) = "limited" => attempt[c] = 3
  OBVIOUS
<1>1. partials[c] \in Seq(Fates) /\ Len(partials[c]) \in Nat
  BY DEF LlmInv
<1>2. partials'[c] # partials[c]
  BY <1>1
<1>3. partials'[c] # <<>>
  BY <1>1
<1>4. CASE UNCHANGED llmVars
  BY <1>2, <1>4 DEF llmVars
<1>5. ASSUME NEW d \in Callers, Idles(d) \/ \E how \in {"vision", "text"}, n \in 1 .. MaxBatches : Extract(d, how, n)
      PROVE  FALSE
  BY <1>2, <1>3, <1>5 DEF Idles, Extract, Resets, LlmInv
<1>6. ASSUME NEW d \in Callers, CascadeStep(d), d # c PROVE FALSE
  <2>1. partials'[c] = partials[c]
    BY <1>6 DEF CascadeStep, Ask, Reads, Disappoints, Raises, Wakes, EndsAttempt, Settles, LlmInv
  <2>2. QED
    BY <2>1, <1>2
<1>7. ASSUME NEW fate \in Fates, partials' = [partials EXCEPT ![c] = Append(@, fate)]
      PROVE  Last(partials'[c]) = fate
  <2>1. partials'[c] = Append(partials[c], fate)
    BY <1>7 DEF LlmInv
  <2>2. QED
    BY <2>1, <1>1, AppendProperties DEF Last
<1>8. CASE CascadeStep(c)
  <2>1. ~Ask(c) /\ ~Wakes(c)
    BY <1>2 DEF Ask, Wakes
  <2>2. ~Reads(c)
    BY <1>7 DEF Reads, Settles, Fates
  <2>3. ASSUME NEW fate \in Fates, EndsAttempt(c, fate)
        PROVE  ~MayRetry(c, fate) /\ Last(partials'[c]) = fate
    BY <1>2, <1>7, <2>3 DEF EndsAttempt, Settles
  <2>4. ~Disappoints(c)
    BY <2>3 DEF Disappoints, Fates
  <2>5. Raises(c) /\ ~(next[c] < Providers)
    BY <1>2, <1>8, <2>1, <2>2, <2>4 DEF CascadeStep, Raises
  <2>6. PICK fate \in {"raised", "limited"} : EndsAttempt(c, fate)
    BY <2>5 DEF Raises
  <2>7. ~MayRetry(c, fate) /\ Last(partials'[c]) = fate
    BY <2>3, <2>6 DEF Fates
  <2>8. next[c] = Providers /\ silent[c] = 1 .. next[c] - 1
    BY <2>5 DEF LlmInv
  <2>9. silent[c] \cup {next[c]} = 1 .. Providers
    BY <2>8
  <2>10. attempt[c] \in 1 .. 3 /\ (mode[c] = "vision" => attempt[c] <= 2)
    BY DEF LlmInv
  <2>11. QED
    BY <2>7, <2>9, <2>10 DEF MayRetry
<1>9. QED
  BY <1>4, <1>5, <1>6, <1>8 DEF LlmNext, LlmEffect
-----------------------------------------------------------------------------
(* The browser pool. *)
Held   == {"starting", "permit", "opening"} \cup WithContext
Places == {"start", "opening", "llm", "over"} \cup Before \cup WithContext

LEMMA PoolConstants ==
  /\ PoolSize \in Nat /\ PoolSize >= 1 /\ MaxPools \in Nat /\ NoTask \notin Tasks
  /\ Pools \subseteq Nat /\ NoPool \notin Pools /\ NoPool = 0
BY PoolAssumption DEF Pools, NoPool

PlaceInv ==
  /\ pools \in [Pools -> {"absent", "unstarted", "up", "closing", "down"}]
  /\ current \in {NoPool} \cup Pools /\ lock \in Tasks \cup {NoTask}
  /\ contexts \in [Pools -> Int] /\ lost \in [Pools -> Int]
  /\ shutdown \in {"no", "closing", "done"}
  /\ mine \in [Tasks -> {NoPool} \cup Pools] /\ at \in [Tasks -> Places]
  /\ shutdown = "closing" => current # NoPool /\ pools[current] = "closing"
  /\ \A t \in Tasks :
       /\ at[t] \in Held <=> mine[t] # NoPool
       /\ at[t] = "starting" <=> lock = t
       /\ at[t] = "starting" => pools[mine[t]] = "unstarted"

\* A pool that never ran has no context, and nobody but who starts it was given it.
FreshInv ==
  \A g \in Pools : pools[g] \in {"absent", "unstarted"} =>
    /\ contexts[g] = 0 /\ lost[g] = 0
    /\ \A t \in Tasks : mine[t] = g => at[t] = "starting"

PermitInv == \A g \in Pools : IsFiniteSet(Inside(g)) /\ Cardinality(Inside(g)) <= PoolSize

CountedIn(g) ==
  /\ contexts[g] \in Nat /\ lost[g] \in Nat
  /\ pools[g] = "up" => contexts[g] = Cardinality(Visiting(g)) + lost[g]

CountInv == \A g \in Pools : CountedIn(g)

PoolInv == PlaceInv /\ FreshInv /\ PermitInv /\ CountInv

\* A step within a page, one of a task that has no page, and one that leaves the
\* page or stops waiting for it.
MovesOn(t) ==
  /\ at[t] \in WithContext /\ (\E where \in InPage : Goes(t, where))
  /\ UNCHANGED <<mine, poolVars>>

OutsideOf(t) ==
  /\ at[t] \in {"start", "llm"}
  /\ \E where \in {"start", "get", "llm", "over"} : Goes(t, where)
  /\ UNCHANGED <<mine, poolVars>>

Leaves(t) ==
  /\ at[t] # "over" /\ Leave(t)
  /\ mine' = [mine EXCEPT ![t] = NoPool]
  /\ \E where \in {"start", "get", "llm", "over"} : Goes(t, where)
  /\ UNCHANGED <<current, shutdown>>

LeavesAsItIs(t) == Leaves(t) /\ UNCHANGED pools

LeavesAnOrphan(t) ==
  /\ Leaves(t) /\ at[t] = "starting" /\ current # mine[t]
  /\ pools' = [pools EXCEPT ![mine[t]] = "up"]

\* All that a step of the system does to the pool.
PoolEffect(t) ==
  \/ Get(t) \/ Make(t) \/ Started(t) \/ Permit(t) \/ Open(t)
  \/ MovesOn(t) \/ OutsideOf(t) \/ LeavesAsItIs(t) \/ LeavesAnOrphan(t)

PoolNext ==
  \/ UNCHANGED <<poolVars, at, mine>>
  \/ \E t \in Tasks : PoolEffect(t)
  \/ ShutdownBegins \/ ShutdownEnds
-----------------------------------------------------------------------------
LEMMA PlaceStep == PlaceInv /\ PoolNext => PlaceInv'
<1> USE PoolConstants DEF Places, Held, Before, WithContext, InPage
<1> SUFFICES ASSUME PlaceInv, PoolNext PROVE PlaceInv'
  OBVIOUS
<1>1. CASE UNCHANGED <<poolVars, at, mine>>
  BY <1>1 DEF PlaceInv, poolVars
<1>2. ASSUME NEW t \in Tasks, Get(t) PROVE PlaceInv'
  BY <1>2 DEF PlaceInv, Get, Goes, poolVars
<1>3. ASSUME NEW t \in Tasks, Make(t) PROVE PlaceInv'
  BY <1>3 DEF PlaceInv, Make, Goes
<1>4. ASSUME NEW t \in Tasks, Started(t) PROVE PlaceInv'
  BY <1>4 DEF PlaceInv, Started, Goes
<1>5. ASSUME NEW t \in Tasks, Permit(t) PROVE PlaceInv'
  BY <1>5 DEF PlaceInv, Permit, Goes, poolVars
<1>6. ASSUME NEW t \in Tasks, Open(t) PROVE PlaceInv'
  <2>1. contexts' \in [Pools -> Int]
    <3>1. mine[t] \in Pools /\ contexts[mine[t]] \in Int
      BY <1>6 DEF PlaceInv, Open
    <3>2. contexts' = [contexts EXCEPT ![mine[t]] = contexts[mine[t]] + 1]
      BY <1>6 DEF Open
    <3>3. QED
      BY <3>1, <3>2 DEF PlaceInv
  <2>2. QED
    BY <1>6, <2>1 DEF PlaceInv, Open, Goes
<1>7. ASSUME NEW t \in Tasks, MovesOn(t) PROVE PlaceInv'
  BY <1>7 DEF PlaceInv, MovesOn, Goes, poolVars
<1>8. ASSUME NEW t \in Tasks, OutsideOf(t) PROVE PlaceInv'
  BY <1>8 DEF PlaceInv, OutsideOf, Goes, poolVars
<1>9. ASSUME NEW t \in Tasks, LeavesAsItIs(t) PROVE PlaceInv'
  BY <1>9 DEF PlaceInv, LeavesAsItIs, Leaves, Leave, Goes
<1>10. ASSUME NEW t \in Tasks, LeavesAnOrphan(t) PROVE PlaceInv'
  BY <1>10 DEF PlaceInv, LeavesAnOrphan, Leaves, Leave, Goes
<1>11. CASE ShutdownBegins
  <2>1. CASE current # NoPool /\ pools[current] = "up"
    <3>1. /\ pools' = [pools EXCEPT ![current] = "closing"]
          /\ contexts' = [contexts EXCEPT ![current] = 0] /\ lost' = [lost EXCEPT ![current] = 0]
          /\ shutdown' = "closing" /\ UNCHANGED <<current, lock, at, mine>>
      BY <1>11, <2>1 DEF ShutdownBegins
    <3>2. current \in Pools
      BY <2>1 DEF PlaceInv
    <3>3. \A t \in Tasks : at[t] = "starting" => pools'[mine[t]] = "unstarted"
      BY <2>1, <3>1, <3>2 DEF PlaceInv
    <3>4. contexts' \in [Pools -> Int] /\ lost' \in [Pools -> Int]
      BY <3>1, <3>2 DEF PlaceInv
    <3>5. QED
      BY <3>1, <3>2, <3>3, <3>4 DEF PlaceInv
  <2>2. CASE ~(current # NoPool /\ pools[current] = "up")
    BY <1>11, <2>2 DEF PlaceInv, ShutdownBegins
  <2>3. QED
    BY <2>1, <2>2
<1>12. CASE ShutdownEnds
  BY <1>12 DEF PlaceInv, ShutdownEnds
<1>13. QED
  BY <1>1, <1>2, <1>3, <1>4, <1>5, <1>6, <1>7, <1>8, <1>9, <1>10, <1>11, <1>12
    DEF PoolNext, PoolEffect

LEMMA FreshStep == PlaceInv /\ FreshInv /\ PoolNext => FreshInv'
<1> USE PoolConstants DEF Places, Held, Before, WithContext, InPage
<1> SUFFICES ASSUME PlaceInv, FreshInv, PoolNext PROVE FreshInv'
  OBVIOUS
<1>1. CASE UNCHANGED <<poolVars, at, mine>>
  BY <1>1 DEF FreshInv, poolVars
<1>2. ASSUME NEW t \in Tasks, Get(t) PROVE FreshInv'
  BY <1>2 DEF PlaceInv, FreshInv, Get, Goes, poolVars
<1>3. ASSUME NEW t \in Tasks, Make(t) PROVE FreshInv'
  <2>1. PICK g \in Pools :
          /\ pools[g] \in {"absent", "unstarted"}
          /\ pools' = [pools EXCEPT ![g] = "unstarted"]
          /\ mine' = [mine EXCEPT ![t] = g]
    BY <1>3 DEF Make
  <2>2. at' = [at EXCEPT ![t] = "starting"] /\ UNCHANGED <<contexts, lost>>
    BY <1>3 DEF Make, Goes
  <2>3. QED
    BY <2>1, <2>2 DEF PlaceInv, FreshInv
<1>4. ASSUME NEW t \in Tasks, Started(t) PROVE FreshInv'
  BY <1>4 DEF PlaceInv, FreshInv, Started, Goes
<1>5. ASSUME NEW t \in Tasks, Permit(t) PROVE FreshInv'
  BY <1>5 DEF PlaceInv, FreshInv, Permit, Goes, poolVars
<1>6. ASSUME NEW t \in Tasks, Open(t) PROVE FreshInv'
  BY <1>6 DEF PlaceInv, FreshInv, Open, Goes
<1>7. ASSUME NEW t \in Tasks, MovesOn(t) PROVE FreshInv'
  BY <1>7 DEF PlaceInv, FreshInv, MovesOn, Goes, poolVars
<1>8. ASSUME NEW t \in Tasks, OutsideOf(t) PROVE FreshInv'
  BY <1>8 DEF PlaceInv, FreshInv, OutsideOf, Goes, poolVars
<1>9. ASSUME NEW t \in Tasks, LeavesAsItIs(t) PROVE FreshInv'
  BY <1>9 DEF PlaceInv, FreshInv, LeavesAsItIs, Leaves, Leave, Goes
<1>10. ASSUME NEW t \in Tasks, LeavesAnOrphan(t) PROVE FreshInv'
  BY <1>10 DEF PlaceInv, FreshInv, LeavesAnOrphan, Leaves, Leave, Goes
<1>11. CASE ShutdownBegins
  <2>1. CASE current # NoPool /\ pools[current] = "up"
    BY <1>11, <2>1 DEF PlaceInv, FreshInv, ShutdownBegins
  <2>2. CASE ~(current # NoPool /\ pools[current] = "up")
    BY <1>11, <2>2 DEF PlaceInv, FreshInv, ShutdownBegins
  <2>3. QED
    BY <2>1, <2>2
<1>12. CASE ShutdownEnds
  BY <1>12 DEF PlaceInv, FreshInv, ShutdownEnds
<1>13. QED
  BY <1>1, <1>2, <1>3, <1>4, <1>5, <1>6, <1>7, <1>8, <1>9, <1>10, <1>11, <1>12
    DEF PoolNext, PoolEffect

\* A finite set of tasks, of which one comes or goes.
LEMMA OneMore ==
  ASSUME NEW S, NEW x, IsFiniteSet(S), x \notin S
  PROVE  /\ IsFiniteSet(S \cup {x})
         /\ Cardinality(S) \in Nat /\ Cardinality(S \cup {x}) = Cardinality(S) + 1
BY FS_AddElement, FS_CardinalityType

LEMMA OneLess ==
  ASSUME NEW S, NEW x, IsFiniteSet(S), x \in S
  PROVE  /\ IsFiniteSet(S \ {x})
         /\ Cardinality(S \ {x}) \in Nat /\ Cardinality(S) = Cardinality(S \ {x}) + 1
<1>1. IsFiniteSet(S \ {x}) /\ Cardinality(S \ {x}) = Cardinality(S) - 1
  BY FS_RemoveElement
<1>2. Cardinality(S \ {x}) \in Nat /\ Cardinality(S) \in Nat
  BY <1>1, FS_CardinalityType
<1>3. QED
  BY <1>1, <1>2

LEMMA Fewer ==
  ASSUME NEW S, NEW T, IsFiniteSet(S), T \subseteq S
  PROVE  /\ IsFiniteSet(T) /\ Cardinality(T) \in Nat /\ Cardinality(S) \in Nat
         /\ Cardinality(T) <= Cardinality(S)
BY FS_Subset, FS_CardinalityType

\* Only Permit adds to the tasks inside, and it looks first.
LEMMA PermitStep == PlaceInv /\ PermitInv /\ PoolNext => PermitInv'
<1> USE PoolConstants DEF Places, Held, Before, WithContext, InPage
<1> SUFFICES ASSUME PlaceInv, PermitInv, PoolNext, NEW g \in Pools
             PROVE  IsFiniteSet(Inside(g)') /\ Cardinality(Inside(g)') <= PoolSize
  BY DEF PermitInv
<1>1. IsFiniteSet(Inside(g)) /\ Cardinality(Inside(g)) <= PoolSize
  BY DEF PermitInv
<1>2. CASE Inside(g)' \subseteq Inside(g)
  BY <1>1, <1>2, Fewer
<1>3. CASE UNCHANGED <<poolVars, at, mine>>
  BY <1>2, <1>3 DEF Inside
<1>4. ASSUME NEW t \in Tasks, Permit(t) PROVE IsFiniteSet(Inside(g)') /\ Cardinality(Inside(g)') <= PoolSize
  <2>1. CASE mine[t] # g
    <3>1. Inside(g)' = Inside(g)
      BY <1>4, <2>1 DEF Permit, Goes, Inside, PlaceInv
    <3>2. QED
      BY <3>1, <1>2
  <2>2. CASE mine[t] = g
    <3>1. Inside(g)' = Inside(g) \cup {t} /\ t \notin Inside(g)
      BY <1>4, <2>2 DEF Permit, Goes, Inside, PlaceInv
    <3>2. Cardinality(Inside(g)) < PoolSize
      BY <1>4, <2>2 DEF Permit
    <3>3. /\ IsFiniteSet(Inside(g) \cup {t}) /\ Cardinality(Inside(g)) \in Nat
          /\ Cardinality(Inside(g) \cup {t}) = Cardinality(Inside(g)) + 1
      BY <1>1, <3>1, OneMore
    <3>4. Cardinality(Inside(g) \cup {t}) <= PoolSize
      BY <3>2, <3>3
    <3>5. QED
      BY <3>1, <3>3, <3>4
  <2>3. QED
    BY <2>1, <2>2
<1>5. ASSUME NEW t \in Tasks, PoolEffect(t), ~Permit(t) PROVE Inside(g)' \subseteq Inside(g)
  <2>1. CASE Get(t) \/ Make(t) \/ Started(t) \/ Open(t)
    BY <2>1 DEF PlaceInv, Inside, Goes, Get, Make, Started, Open
  <2>2. CASE MovesOn(t) \/ OutsideOf(t) \/ LeavesAsItIs(t) \/ LeavesAnOrphan(t)
    BY <2>2 DEF PlaceInv, Inside, Goes, MovesOn, OutsideOf, LeavesAsItIs, LeavesAnOrphan, Leaves
  <2>3. QED
    BY <1>5, <2>1, <2>2 DEF PoolEffect
<1>6. CASE ShutdownBegins \/ ShutdownEnds
  BY <1>2, <1>6 DEF ShutdownBegins, ShutdownEnds, Inside
<1>7. QED
  BY <1>2, <1>3, <1>4, <1>5, <1>6 DEF PoolNext

\* A context is counted while its task visits a page, or for ever when it is lost.
LEMMA CountStep == PoolInv /\ PoolNext => CountInv'
<1> USE PoolConstants
<1> SUFFICES ASSUME PoolInv, PoolNext, NEW h \in Pools PROVE CountedIn(h)'
  BY DEF CountInv
<1> USE DEF PoolInv
<1>1. IsFiniteSet(Visiting(h)) /\ Cardinality(Visiting(h)) \in Nat /\ CountedIn(h)
  <2>1. Visiting(h) \subseteq Inside(h)
    BY DEF Visiting, Inside
  <2>2. QED
    BY <2>1, Fewer DEF PermitInv, CountInv
<1>2. ASSUME contexts'[h] = contexts[h], lost'[h] = lost[h],
             pools'[h] = "up" => pools[h] = "up" /\ Visiting(h)' = Visiting(h)
      PROVE  CountedIn(h)'
  BY <1>1, <1>2 DEF CountedIn
<1>3. CASE UNCHANGED <<poolVars, at, mine>>
  BY <1>2, <1>3 DEF Visiting, poolVars
<1>4. ASSUME NEW t \in Tasks, Get(t) \/ Permit(t) PROVE CountedIn(h)'
  <2>1. UNCHANGED <<contexts, lost, pools>>
    BY <1>4 DEF Get, Permit, poolVars
  <2>2. Visiting(h)' = Visiting(h)
    BY <1>4 DEF Get, Permit, Goes, Visiting, WithContext, InPage, PlaceInv
  <2>3. QED
    BY <2>1, <2>2, <1>2
<1>5. ASSUME NEW t \in Tasks, Make(t) PROVE CountedIn(h)'
  <2>1. PICK g \in Pools : pools' = [pools EXCEPT ![g] = "unstarted"]
    BY <1>5 DEF Make
  <2>2. UNCHANGED <<contexts, lost>>
    BY <1>5 DEF Make
  <2>3. ASSUME pools'[h] = "up" PROVE pools[h] = "up" /\ Visiting(h)' = Visiting(h)
    <3>1. pools[h] = "up"
      BY <2>1, <2>3 DEF PlaceInv
    <3>2. ASSUME NEW u \in Tasks PROVE u \in Visiting(h)' <=> u \in Visiting(h)
      <4>1. CASE u = t
        BY <1>5, <4>1 DEF Make, Goes, Visiting, WithContext, InPage, PlaceInv
      <4>2. CASE u # t
        <5>1. at'[u] = at[u] /\ mine'[u] = mine[u]
          BY <1>5, <4>2 DEF Make, Goes, PlaceInv
        <5>2. QED
          BY <5>1 DEF Visiting
      <4>3. QED
        BY <4>1, <4>2
    <3>3. QED
      BY <3>1, <3>2 DEF Visiting
  <2>4. QED
    BY <2>2, <2>3, <1>2
\* A pool that begins to run has no context yet.
<1>6. ASSUME NEW t \in Tasks, at[t] = "starting",
             \E where \in {"permit", "start", "get", "llm", "over"} : Goes(t, where),
             mine' = mine \/ mine' = [mine EXCEPT ![t] = NoPool],
             pools' = [pools EXCEPT ![mine[t]] = "up"], UNCHANGED <<contexts, lost>>
      PROVE  CountedIn(h)'
  <2>1. pools[mine[t]] = "unstarted" /\ at[t] \notin WithContext /\ at'[t] \notin WithContext
    BY <1>6 DEF PlaceInv, Goes, WithContext, InPage
  <2>2. ASSUME NEW u \in Tasks, u # t PROVE at'[u] = at[u] /\ mine'[u] = mine[u]
    BY <1>6, <2>2 DEF PlaceInv, Goes
  <2>3. CASE h = mine[t]
    <3>1. contexts[h] = 0 /\ lost[h] = 0 /\ \A u \in Tasks : mine[u] = h => at[u] = "starting"
      BY <2>1, <2>3 DEF FreshInv
    <3>2. "starting" \notin WithContext
      BY DEF WithContext, InPage
    <3>3. Visiting(h)' = {}
      BY <2>1, <2>2, <3>1, <3>2 DEF Visiting
    <3>4. Cardinality(Visiting(h)') = 0
      BY <3>3, FS_EmptySet
    <3>5. contexts'[h] = 0 /\ lost'[h] = 0
      BY <1>6, <3>1
    <3>6. QED
      BY <3>4, <3>5 DEF CountedIn
  <2>4. CASE h # mine[t]
    <3>1. Visiting(h)' = Visiting(h)
      BY <2>1, <2>2 DEF Visiting
    <3>2. pools'[h] = pools[h]
      BY <1>6, <2>4 DEF PlaceInv
    <3>3. QED
      BY <1>2, <1>6, <3>1, <3>2
  <2>5. QED
    BY <2>3, <2>4
<1>7. ASSUME NEW t \in Tasks, Started(t) PROVE CountedIn(h)'
  BY <1>6, <1>7 DEF Started
<1>8. ASSUME NEW t \in Tasks, Open(t) PROVE CountedIn(h)'
  <2>1. /\ contexts' = [contexts EXCEPT ![mine[t]] = contexts[mine[t]] + 1]
        /\ UNCHANGED <<lost, pools, mine>> /\ at[t] = "opening"
        /\ at' = [at EXCEPT ![t] = "dressing"]
    BY <1>8 DEF Open, Goes
  <2>2. CASE h = mine[t]
    <3>1. Visiting(h)' = Visiting(h) \cup {t} /\ t \notin Visiting(h)
      BY <2>1, <2>2 DEF Visiting, WithContext, InPage, PlaceInv
    <3>2. Cardinality(Visiting(h)') = Cardinality(Visiting(h)) + 1
      BY <1>1, <3>1, OneMore
    <3>3. contexts'[h] = contexts[h] + 1 /\ lost'[h] = lost[h] /\ pools'[h] = pools[h]
      BY <2>1, <2>2 DEF PlaceInv
    <3>4. QED
      BY <1>1, <3>2, <3>3 DEF CountedIn
  <2>3. CASE h # mine[t]
    <3>1. Visiting(h)' = Visiting(h)
      BY <2>1, <2>3 DEF Visiting, PlaceInv
    <3>2. QED
      BY <1>2, <2>1, <2>3, <3>1 DEF PlaceInv
  <2>4. QED
    BY <2>2, <2>3
<1>9. ASSUME NEW t \in Tasks, MovesOn(t) \/ OutsideOf(t) PROVE CountedIn(h)'
  <2>1. UNCHANGED <<contexts, lost, pools>>
    BY <1>9 DEF MovesOn, OutsideOf, poolVars
  <2>2. Visiting(h)' = Visiting(h)
    BY <1>9 DEF MovesOn, OutsideOf, Goes, Visiting, WithContext, InPage, PlaceInv
  <2>3. QED
    BY <2>1, <2>2, <1>2
<1>10. ASSUME NEW t \in Tasks, LeavesAsItIs(t) PROVE CountedIn(h)'
  <2>1. Visiting(h)' = Visiting(h) \ {t}
    BY <1>10 DEF LeavesAsItIs, Leaves, Goes, Visiting, WithContext, InPage, PlaceInv
  <2>2. UNCHANGED pools /\ Leave(t)
    BY <1>10 DEF LeavesAsItIs, Leaves
  <2>3. CASE t \in Visiting(h) /\ pools[h] = "up"
    <3>1. mine[t] = h /\ at[t] \in WithContext
      BY <2>3 DEF Visiting
    <3>2. \/ contexts' = [contexts EXCEPT ![h] = contexts[h] - 1] /\ UNCHANGED lost
          \/ lost' = [lost EXCEPT ![h] = lost[h] + 1] /\ UNCHANGED contexts
      BY <2>2, <2>3, <3>1 DEF Leave, WithContext, InPage
    <3>3. \/ contexts'[h] = contexts[h] - 1 /\ lost'[h] = lost[h]
          \/ contexts'[h] = contexts[h] /\ lost'[h] = lost[h] + 1
      BY <3>2 DEF PlaceInv
    <3>4. /\ Cardinality(Visiting(h)') \in Nat
          /\ Cardinality(Visiting(h)) = Cardinality(Visiting(h)') + 1
      BY <1>1, <2>1, <2>3, OneLess
    <3>5. contexts[h] \in Nat /\ lost[h] \in Nat /\ contexts[h] = Cardinality(Visiting(h)) + lost[h]
      BY <1>1, <2>3 DEF CountedIn
    <3>6. QED
      BY <3>3, <3>4, <3>5 DEF CountedIn
  <2>4. CASE t \notin Visiting(h)
    <3>1. Visiting(h)' = Visiting(h)
      BY <2>1, <2>4
    <3>2. CASE mine[t] # h
      <4>1. contexts'[h] = contexts[h] /\ lost'[h] = lost[h]
        BY <2>2, <3>2 DEF Leave, PlaceInv
      <4>2. QED
        BY <1>2, <2>2, <3>1, <4>1
    <3>3. CASE mine[t] = h
      <4>1. PICK made \in 0 .. 1 : contexts'[h] = contexts[h] + made /\ lost'[h] = lost[h] + made
        BY <1>1, <2>2, <2>4, <3>3 DEF Leave, Visiting, WithContext, PlaceInv
      <4>2. QED
        BY <1>1, <2>2, <3>1, <4>1 DEF CountedIn
    <3>4. QED
      BY <3>2, <3>3
  <2>5. CASE pools[h] # "up"
    <3>1. contexts'[h] = contexts[h] /\ lost'[h] = lost[h]
      BY <2>2, <2>5 DEF Leave, PlaceInv
    <3>2. QED
      BY <1>2, <2>2, <2>5, <3>1
  <2>6. QED
    BY <2>3, <2>4, <2>5
<1>11. ASSUME NEW t \in Tasks, LeavesAnOrphan(t) PROVE CountedIn(h)'
  <2>1. pools[mine[t]] = "unstarted"
    BY <1>11 DEF LeavesAnOrphan, PlaceInv
  <2>2. UNCHANGED <<contexts, lost>>
    BY <1>11, <2>1 DEF LeavesAnOrphan, Leaves, Leave
  <2>3. QED
    BY <1>6, <1>11, <2>2 DEF LeavesAnOrphan, Leaves
<1>12. CASE ShutdownBegins
  <2>1. Visiting(h)' = Visiting(h)
    BY <1>12 DEF ShutdownBegins, Visiting
  <2>2. CASE current # NoPool /\ pools[current] = "up"
    <3>1. /\ pools' = [pools EXCEPT ![current] = "closing"]
          /\ contexts' = [contexts EXCEPT ![current] = 0] /\ lost' = [lost EXCEPT ![current] = 0]
      BY <1>12, <2>2 DEF ShutdownBegins
    <3>2. CASE h = current
      BY <3>1, <3>2 DEF CountedIn, PlaceInv
    <3>3. CASE h # current
      BY <1>2, <2>1, <3>1, <3>3 DEF PlaceInv
    <3>4. QED
      BY <3>2, <3>3
  <2>3. CASE ~(current # NoPool /\ pools[current] = "up")
    BY <1>2, <1>12, <2>1, <2>3 DEF ShutdownBegins
  <2>4. QED
    BY <2>2, <2>3
<1>13. CASE ShutdownEnds
  <2>1. Visiting(h)' = Visiting(h)
    BY <1>13 DEF ShutdownEnds, Visiting
  <2>2. pools' = [pools EXCEPT ![current] = "down"] /\ UNCHANGED <<contexts, lost>>
    BY <1>13 DEF ShutdownEnds
  <2>3. QED
    BY <1>2, <2>1, <2>2 DEF PlaceInv
<1>14. QED
  BY <1>3, <1>4, <1>5, <1>7, <1>8, <1>9, <1>10, <1>11, <1>12, <1>13 DEF PoolNext, PoolEffect

LEMMA PoolKeeps == PoolInv /\ PoolNext => PoolInv'
BY PlaceStep, FreshStep, PermitStep, CountStep DEF PoolInv
-----------------------------------------------------------------------------
(* The tasks: how a step moves one of them, and what that leaves true. *)
Results == {"ok", "rotate", "blocked", "error", "raised", "failed", "cancelled"}
Images  == {"none", "blank", "good"}

VisitTypes ==
  /\ kind \in Scenarios
  /\ egress \in [Tasks -> {"direct", "proxy"}] /\ proxied \in [Tasks -> BOOLEAN]
  /\ tries \in [Tasks -> 0 .. MaxTries]
  /\ images \in [Tasks -> Images] /\ blocked \in [Tasks -> BOOLEAN]
  /\ warmed \in BOOLEAN /\ jar \subseteq {"direct", "proxy"}
  /\ result \in [Tasks -> {"none"} \cup Results]

\* A task is at the models exactly while it is their caller, and an extraction from
\* text never opens a page.
Standing(t) ==
  /\ call[t] # "idle" <=> at[t] = "llm"
  /\ at[t] = "over" <=> result[t] # "none"
  /\ egress[t] = "proxy" /\ kind[t] = "shots" => proxied[t]
  /\ kind[t] = "text" => at[t] \in {"start", "llm", "over"}

VisitInv == VisitTypes /\ \A t \in Tasks : Standing(t)

Inv == LlmInv /\ LlmPermitInv /\ PoolInv /\ VisitInv

\* The ways a visit can end: for good, at the models, or with another attempt.
Outcome(t) ==
  \/ \E how \in Results : Over(t, how)
  \/ /\ Goes(t, "llm")
     /\ \E how \in {"vision", "text"}, n \in 1 .. MaxBatches : Extract(t, how, n)
     /\ UNCHANGED <<egress, tries, proxied, result>>
  \/ /\ kind[t] # "text" /\ at[t] # "llm"
     /\ \E where \in {"start", "get"}, n \in 0 .. MaxTries : Retries(t, where, n)

\* A task goes on before or within its page, and has an egress perhaps.
GoesOn(t) ==
  /\ at[t] # "llm" /\ kind[t] # "text"
  /\ \E where \in Places \ {"llm", "over"} : Goes(t, where)
  /\ \/ UNCHANGED <<egress, proxied>>
     \/ \E e \in {"direct", "proxy"} :
          /\ egress' = [egress EXCEPT ![t] = e]
          /\ \/ UNCHANGED proxied /\ kind[t] # "shots"
             \/ proxied' = [proxied EXCEPT ![t] = TRUE]
  /\ UNCHANGED <<llmVars, tries, result>>

Asks(t) == CascadeStep(t) /\ UNCHANGED <<at, egress, tries, proxied, result>>

VisitEffect(t) ==
  /\ at[t] # "over"
  /\ kind' = kind
  /\ images' \in [Tasks -> Images] /\ blocked' \in [Tasks -> BOOLEAN]
  /\ warmed' \in BOOLEAN /\ jar' \subseteq {"direct", "proxy"}
  /\ Outcome(t) \/ GoesOn(t) \/ Asks(t)

VisitNext == UNCHANGED <<at, llmVars, visitVars>> \/ \E t \in Tasks : VisitEffect(t)
-----------------------------------------------------------------------------
LEMMA VisitConstants ==
  /\ \A k \in Scenarios : k \in [Tasks -> {"fetch", "captcha", "shots", "plain", "text"}]
  /\ MaxTries \in Nat /\ MaxTries >= 1 /\ MaxBatches \in Nat /\ MaxBatches >= 1
  /\ Callers = Tasks
BY VisionAssumption, LlmAssumption

\* A step of a task keeps what holds of every task.
LEMMA VisitKeeps == LlmInv /\ PlaceInv /\ VisitInv /\ VisitNext => VisitInv'
<1> USE VisitConstants
<1> SUFFICES ASSUME LlmInv, PlaceInv, VisitInv, VisitNext PROVE VisitInv'
  OBVIOUS
<1>1. CASE UNCHANGED <<at, llmVars, visitVars>>
  BY <1>1 DEF VisitInv, VisitTypes, Standing, llmVars, visitVars
<1>2. ASSUME NEW t \in Tasks, VisitEffect(t) PROVE VisitInv'
  <2>1. kind' = kind /\ kind \in Scenarios /\ VisitTypes
    BY <1>2 DEF VisitEffect, VisitInv, VisitTypes
  <2>2. CASE Outcome(t)
    <3>1. CASE \E how \in Results : Over(t, how)
      <4>1. PICK how \in Results : Over(t, how)
        BY <3>1
      <4>2. VisitTypes'
        BY <1>2, <2>1, <4>1 DEF VisitEffect, VisitTypes, Over
      <4>3. ASSUME NEW u \in Tasks, u # t PROVE Standing(u)'
        BY <2>1, <4>1, <4>3 DEF VisitInv, VisitTypes, Standing, Over, Goes, Idles, Resets, LlmInv, PlaceInv
      <4>4. at'[t] = "over" /\ result'[t] = how /\ call'[t] = "idle" /\ egress'[t] = "direct"
        BY <2>1, <4>1 DEF VisitTypes, Over, Goes, Idles, Resets, LlmInv, PlaceInv
      <4>5. Standing(t)'
        BY <4>4 DEF Standing, Results
      <4>6. QED
        BY <4>2, <4>3, <4>5 DEF VisitInv
    <3>2. CASE /\ Goes(t, "llm")
               /\ \E how \in {"vision", "text"}, n \in 1 .. MaxBatches : Extract(t, how, n)
               /\ UNCHANGED <<egress, tries, proxied, result>>
      <4>1. VisitTypes'
        BY <1>2, <2>1, <3>2 DEF VisitEffect, VisitTypes
      <4>2. call' = [call EXCEPT ![t] = "queued"] /\ at' = [at EXCEPT ![t] = "llm"]
        BY <3>2 DEF Goes, Extract, Resets
      <4>3. ASSUME NEW u \in Tasks PROVE Standing(u)'
        BY <1>2, <2>1, <3>2, <4>2 DEF VisitInv, Standing, VisitEffect, LlmInv, PlaceInv
      <4>4. QED
        BY <4>1, <4>3 DEF VisitInv
    <3>3. CASE /\ kind[t] # "text" /\ at[t] # "llm"
               /\ \E where \in {"start", "get"}, n \in 0 .. MaxTries : Retries(t, where, n)
      <4>1. PICK where \in {"start", "get"}, n \in 0 .. MaxTries : Retries(t, where, n)
        BY <3>3
      <4>2. VisitTypes'
        BY <1>2, <2>1, <4>1 DEF VisitEffect, VisitTypes, Retries
      <4>3. /\ at' = [at EXCEPT ![t] = where] /\ egress' = [egress EXCEPT ![t] = "direct"]
            /\ UNCHANGED <<call, proxied, result>>
        BY <4>1 DEF Goes, Retries, llmVars
      <4>4. ASSUME NEW u \in Tasks PROVE Standing(u)'
        BY <1>2, <2>1, <3>3, <4>3 DEF VisitInv, VisitTypes, Standing, VisitEffect, PlaceInv
      <4>5. QED
        BY <4>2, <4>4 DEF VisitInv
    <3>4. QED
      BY <2>2, <3>1, <3>2, <3>3 DEF Outcome
  <2>3. CASE GoesOn(t)
    <3>1. PICK where \in Places \ {"llm", "over"} : at' = [at EXCEPT ![t] = where]
      BY <2>3 DEF GoesOn, Goes
    <3>2. UNCHANGED <<call, tries, result>> /\ at[t] # "llm" /\ kind[t] # "text"
      BY <2>3 DEF GoesOn, llmVars
    <3>3. \/ UNCHANGED <<egress, proxied>>
          \/ \E e \in {"direct", "proxy"} :
               /\ egress' = [egress EXCEPT ![t] = e]
               /\ \/ UNCHANGED proxied /\ kind[t] # "shots"
                  \/ proxied' = [proxied EXCEPT ![t] = TRUE]
      BY <2>3 DEF GoesOn
    <3>4. VisitTypes'
      BY <1>2, <2>1, <3>2, <3>3 DEF VisitEffect, VisitTypes
    <3>5. ASSUME NEW u \in Tasks, u # t PROVE Standing(u)'
      BY <2>1, <3>1, <3>2, <3>3, <3>5 DEF VisitInv, VisitTypes, Standing, PlaceInv
    <3>6. egress'[t] = "proxy" /\ kind[t] = "shots" => proxied'[t]
      BY <2>1, <3>3 DEF VisitInv, VisitTypes, Standing
    <3>7. Standing(t)'
      BY <1>2, <2>1, <3>1, <3>2, <3>6 DEF VisitInv, Standing, PlaceInv, VisitEffect
    <3>8. QED
      BY <3>4, <3>5, <3>7 DEF VisitInv
  <2>4. CASE Asks(t)
    <3>1. call[t] \in Active /\ \E x \in Active \cup {"answered"} : call' = [call EXCEPT ![t] = x]
      <4>1. ASSUME NEW fate, EndsAttempt(t, fate)
            PROVE  \E x \in Active \cup {"answered"} : call' = [call EXCEPT ![t] = x]
        BY <4>1 DEF EndsAttempt, Settles, Active
      <4>2. QED
        BY <2>4, <4>1 DEF Asks, CascadeStep, Ask, Reads, Settles, Disappoints, Raises, Wakes, Active
    <3>2. UNCHANGED <<at, egress, tries, proxied, result>>
      BY <2>4 DEF Asks
    <3>3. VisitTypes'
      BY <1>2, <2>1, <3>2 DEF VisitEffect, VisitTypes
    <3>4. ASSUME NEW u \in Tasks PROVE Standing(u)'
      BY <2>1, <3>1, <3>2 DEF VisitInv, Standing, Active, LlmInv
    <3>5. QED
      BY <3>3, <3>4 DEF VisitInv
  <2>5. QED
    BY <1>2, <2>2, <2>3, <2>4 DEF VisitEffect
<1>3. QED
  BY <1>1, <1>2 DEF VisitNext

\* What a visit that ends does to the pool, the models and its task.
LEMMA VisitEndsEffect ==
  ASSUME Inv, NEW t \in Tasks, NEW status \in {"ok", "rotate", "blocked", "error"},
         NEW got \in Images, at[t] \in Held, VisitEnds(t, status, got),
         UNCHANGED <<current, shutdown, kind>>
  PROVE  /\ Leaves(t) /\ Outcome(t)
         /\ images' \in [Tasks -> Images] /\ blocked' \in [Tasks -> BOOLEAN]
<1> USE VisitConstants
<1>1. at[t] \notin {"start", "llm", "over"}
  BY DEF Held, WithContext, InPage
<1>2. kind[t] \in {"fetch", "captcha", "shots", "plain"}
  BY <1>1 DEF Inv, VisitInv, VisitTypes, Standing
<1>3. images' \in [Tasks -> Images] /\ blocked' \in [Tasks -> BOOLEAN]
  BY DEF Inv, VisitInv, VisitTypes, VisitEnds, Images
<1>4. tries[t] \in 0 .. MaxTries
  BY DEF Inv, VisitInv, VisitTypes
<1>5. Extracts(t, got) => Outcome(t)
  BY DEF Extracts, Outcome, Results
<1>6. AfterAttempts(t, got) => Outcome(t)
  BY <1>1, <1>2, <1>5 DEF AfterAttempts, Outcome
<1>7. Outcome(t)
  <2>1. CASE kind[t] \in {"fetch", "captcha"}
    <3>1. Over(t, status)
      BY <2>1 DEF VisitEnds
    <3>2. QED
      BY <3>1 DEF Outcome, Results
  <2>2. CASE kind[t] = "plain"
    <3>1. IF status = "ok" THEN Extracts(t, got) ELSE Over(t, "raised")
      BY <2>2 DEF VisitEnds
    <3>2. QED
      BY <3>1, <1>5 DEF Outcome, Results
  <2>3. CASE kind[t] = "shots"
    <3>1. IF status = "ok" THEN Extracts(t, got)
          ELSE IF egress[t] = "proxy" /\ status \in {"rotate", "error"} /\ tries[t] + 1 < MaxTries
            THEN Retries(t, "start", tries[t] + 1)
          ELSE AfterAttempts(t, got)
      BY <2>3 DEF VisitEnds
    <3>2. ASSUME tries[t] + 1 < MaxTries, Retries(t, "start", tries[t] + 1) PROVE Outcome(t)
      <4>1. tries[t] + 1 \in 0 .. MaxTries
        BY <1>4, <3>2
      <4>2. QED
        BY <4>1, <3>2, <1>1, <1>2 DEF Outcome
    <3>3. QED
      BY <3>1, <3>2, <1>5, <1>6
  <2>4. QED
    BY <1>2, <2>1, <2>2, <2>3
<1>8. \E where \in {"start", "get", "llm", "over"} : Goes(t, where)
  BY <1>7 DEF Outcome, Over, Retries
<1>9. QED
  BY <1>1, <1>3, <1>7, <1>8 DEF Leaves, VisitEnds

\* The session of the retailer stays one.
LEMMA SessionKeeps ==
  ASSUME Inv, NEW t \in Tasks, KeepsSession \/ SavesCookies(t)
  PROVE  warmed' \in BOOLEAN /\ jar' \subseteq {"direct", "proxy"}
BY DEF Inv, VisitInv, VisitTypes, KeepsSession, SavesCookies

LEMMA ReturnsEffect ==
  ASSUME Inv, NEW t \in Tasks, NEW status \in {"ok", "rotate", "blocked", "error"},
         NEW got \in Images, at[t] \in Held, Returns(t, status, got),
         KeepsSession \/ SavesCookies(t)
  PROVE  LeavesAsItIs(t) /\ Outcome(t) /\ VisitEffect(t)
<1>1. at[t] # "over"
  BY DEF Held, WithContext, InPage
<1>2. /\ Leaves(t) /\ Outcome(t)
      /\ images' \in [Tasks -> Images] /\ blocked' \in [Tasks -> BOOLEAN]
  BY VisitEndsEffect DEF Returns
<1>3. warmed' \in BOOLEAN /\ jar' \subseteq {"direct", "proxy"}
  BY SessionKeeps
<1>4. QED
  BY <1>1, <1>2, <1>3 DEF LeavesAsItIs, VisitEffect, Returns

LEMMA MovesEffect ==
  ASSUME Inv, NEW t \in Tasks, NEW where \in InPage, NEW block \in BOOLEAN,
         at[t] \in WithContext, Moves(t, where, block),
         warmed' \in BOOLEAN, jar' \subseteq {"direct", "proxy"}
  PROVE  MovesOn(t) /\ VisitEffect(t)
<1>1. at[t] \notin {"start", "llm", "over"} /\ where \in Places \ {"llm", "over"}
  BY DEF WithContext, InPage, Places
<1>2. kind[t] # "text"
  BY <1>1 DEF Inv, VisitInv, Standing
<1>3. images' \in [Tasks -> Images] /\ blocked' \in [Tasks -> BOOLEAN]
  BY DEF Inv, VisitInv, VisitTypes, Moves
<1>4. GoesOn(t)
  BY <1>1, <1>2 DEF Moves, GoesOn
<1>5. MovesOn(t)
  BY DEF Moves, MovesOn
<1>6. QED
  BY <1>1, <1>3, <1>4, <1>5 DEF VisitEffect, Moves

\* The effect on the models is the outcome's.
LEMMA OutcomeAtModels ==
  ASSUME NEW t \in Tasks, Outcome(t) PROVE LlmNext
BY VisitConstants DEF Outcome, Over, Retries, LlmNext, LlmEffect

\* Every step of a task within its page.
LEMMA PageSteps ==
  ASSUME Inv, NEW t \in Tasks,
         \/ Dress(t) \/ Warm(t) \/ Goto(t) \/ Challenge(t) \/ Solve(t) \/ CaptchaChallenge(t)
         \/ CaptchaSolve(t) \/ CaptchaPaid(t) \/ CaptchaJudge(t) \/ Judge(t) \/ Shoot(t)
         \/ VisitRaises(t)
  PROVE  (MovesOn(t) /\ VisitEffect(t) /\ UNCHANGED llmVars) \/ (LeavesAsItIs(t) /\ Outcome(t) /\ VisitEffect(t))
<1> DEFINE Goal == (MovesOn(t) /\ VisitEffect(t) /\ UNCHANGED llmVars) \/ (LeavesAsItIs(t) /\ Outcome(t) /\ VisitEffect(t))
<1> SUFFICES Goal
  OBVIOUS
<1> HIDE DEF Goal
<1>1. ASSUME NEW where \in InPage, NEW block \in BOOLEAN, at[t] \in WithContext, Moves(t, where, block),
             warmed' \in BOOLEAN, jar' \subseteq {"direct", "proxy"}
      PROVE  Goal
  BY <1>1, MovesEffect DEF Goal, Moves
<1>2. ASSUME NEW status \in {"ok", "rotate", "blocked", "error"}, NEW got \in Images, at[t] \in Held,
             Returns(t, status, got), KeepsSession \/ SavesCookies(t)
      PROVE  Goal
  BY <1>2, ReturnsEffect DEF Goal
<1>3. (KeepsSession \/ SavesCookies(t)) => warmed' \in BOOLEAN /\ jar' \subseteq {"direct", "proxy"}
  BY SessionKeeps
<1>4. InPage \subseteq WithContext /\ WithContext \subseteq Held
  BY DEF WithContext, Held
<1>5. blocked[t] \in BOOLEAN /\ warmed \in BOOLEAN /\ jar \subseteq {"direct", "proxy"}
  BY DEF Inv, VisitInv, VisitTypes
<1>6. CASE Dress(t)
  <2>1. at[t] \in WithContext
    BY <1>6 DEF Dress, InPageOf, WithContext
  <2>2. \E where \in {"warm", "goto"} : Moves(t, where, FALSE)
    BY <1>6 DEF Dress
  <2>3. warmed' \in BOOLEAN /\ jar' \subseteq {"direct", "proxy"}
    BY <1>5, <1>6 DEF Dress
  <2>4. QED
    BY <1>1, <2>1, <2>2, <2>3 DEF InPage
<1>7. CASE Warm(t)
  <2>1. at[t] \in WithContext /\ Moves(t, "goto", FALSE)
    BY <1>7 DEF Warm, InPageOf, WithContext, InPage
  <2>2. warmed' \in BOOLEAN /\ jar' \subseteq {"direct", "proxy"}
    BY <1>5, <1>7 DEF Warm
  <2>3. QED
    BY <1>1, <2>1, <2>2 DEF InPage
<1>8. CASE Goto(t)
  <2>1. at[t] \in WithContext /\ KeepsSession
    BY <1>8 DEF Goto, InPageOf, WithContext, InPage
  <2>2. \E where \in {"shoot", "challenge"} : Moves(t, where, FALSE)
    BY <1>8 DEF Goto
  <2>3. QED
    BY <1>1, <1>3, <2>1, <2>2 DEF InPage
<1>9. CASE Challenge(t) \/ Solve(t) \/ CaptchaChallenge(t)
  <2>1. at[t] \in WithContext /\ KeepsSession
    BY <1>9 DEF Challenge, Solve, CaptchaChallenge, InPageOf, WithContext, InPage
  <2>2. \E where \in {"solve", "judge", "paid"}, block \in BOOLEAN : Moves(t, where, block)
    BY <1>9 DEF Challenge, Solve, CaptchaChallenge
  <2>3. QED
    BY <1>1, <1>3, <2>1, <2>2 DEF InPage
<1>10. CASE CaptchaSolve(t) \/ CaptchaPaid(t) \/ CaptchaJudge(t)
  <2>1. at[t] \in InPage
    BY <1>10 DEF CaptchaSolve, CaptchaPaid, CaptchaJudge, InPageOf, InPage
  <2>2. \/ /\ \E status \in {"ok", "blocked"} : Returns(t, status, "none")
           /\ KeepsSession \/ SavesCookies(t)
        \/ (\E where \in {"judge", "paid"} : Moves(t, where, FALSE)) /\ KeepsSession
    BY <1>10 DEF CaptchaSolve, CaptchaPaid, CaptchaJudge
  <2>3. QED
    BY <1>1, <1>2, <1>3, <1>4, <2>1, <2>2 DEF InPage, Images
<1>11. CASE Judge(t)
  <2>1. at[t] \in InPage
    BY <1>11 DEF Judge, InPageOf, InPage
  <2>2. \/ /\ \E status \in {"ok", "rotate", "blocked"} : Returns(t, status, "none")
           /\ KeepsSession \/ SavesCookies(t)
        \/ Moves(t, "shoot", FALSE) /\ SavesCookies(t)
    BY <1>11 DEF Judge
  <2>3. QED
    BY <1>1, <1>2, <1>3, <1>4, <2>1, <2>2 DEF InPage, Images
<1>12. CASE Shoot(t)
  <2>1. at[t] \in InPage /\ KeepsSession
    BY <1>12 DEF Shoot, InPageOf, InPage
  <2>2. Returns(t, "ok", "good") \/ Returns(t, "rotate", "blank")
    BY <1>12 DEF Shoot
  <2>3. QED
    BY <1>2, <1>4, <2>1, <2>2 DEF Images
<1>13. CASE VisitRaises(t)
  <2>1. at[t] \in Held /\ Returns(t, "error", "none") /\ KeepsSession
    BY <1>13 DEF VisitRaises, Held
  <2>2. QED
    BY <1>2, <2>1 DEF Images
<1>14. QED
  BY <1>6, <1>7, <1>8, <1>9, <1>10, <1>11, <1>12, <1>13

\* The steps of a task outside a page: before it, at the models, and its end.
LEMMA OutsideSteps ==
  ASSUME Inv, NEW t \in Tasks,
         \/ Begin(t) \/ Attempt(t) \/ BeginText(t) \/ PoolStep(t) \/ StartedForNobody(t)
         \/ LlmStep(t) \/ Read(t) \/ Cancel(t)
  PROVE  LlmNext /\ PoolNext /\ VisitNext
<1> USE VisitConstants
<1> SUFFICES LlmNext /\ PoolNext /\ VisitEffect(t)
  BY DEF VisitNext
<1>1. /\ VisitTypes /\ Standing(t) /\ at[t] \in Places /\ tries[t] \in 0 .. MaxTries
      /\ images[t] \in Images
  BY DEF Inv, PoolInv, PlaceInv, VisitInv, VisitTypes
<1>2. UNCHANGED <<kind, images, blocked, warmed, jar>> =>
        /\ kind' = kind /\ images' \in [Tasks -> Images] /\ blocked' \in [Tasks -> BOOLEAN]
        /\ warmed' \in BOOLEAN /\ jar' \subseteq {"direct", "proxy"}
  BY <1>1 DEF VisitTypes
<1>3. CASE Begin(t)
  <2>1. at[t] = "start" /\ Goes(t, "get") /\ UNCHANGED <<mine, poolVars, llmVars>>
        /\ UNCHANGED <<kind, images, blocked, warmed, jar>>
    BY <1>3 DEF Begin
  <2>2. GoesOn(t)
    <3>1. \E e \in {"direct", "proxy"} : egress' = [egress EXCEPT ![t] = e]
      BY <1>3 DEF Begin
    <3>2. kind[t] # "shots" /\ kind[t] # "text" /\ UNCHANGED <<tries, proxied, result>>
      BY <1>3 DEF Begin
    <3>3. QED
      BY <2>1, <3>1, <3>2 DEF GoesOn, Places, Before
  <2>3. OutsideOf(t)
    BY <2>1 DEF OutsideOf
  <2>4. QED
    BY <1>2, <2>1, <2>2, <2>3 DEF LlmNext, PoolNext, PoolEffect, VisitEffect
<1>4. CASE Attempt(t)
  <2>1. /\ at[t] = "start" /\ kind[t] = "shots"
        /\ UNCHANGED <<mine, poolVars, kind, images, blocked, warmed, jar>>
    BY <1>4 DEF Attempt
  <2>2. \/ GoesOn(t) /\ UNCHANGED llmVars /\ Goes(t, "get")
        \/ Outcome(t) /\ \E where \in {"start", "get", "llm", "over"} : Goes(t, where)
    <3>1. CASE egress' = [egress EXCEPT ![t] = "proxy"] /\ proxied' = [proxied EXCEPT ![t] = TRUE]
               /\ Goes(t, "get") /\ UNCHANGED <<tries, result, llmVars>>
      BY <2>1, <3>1 DEF GoesOn, Places, Before
    <3>2. CASE Goes(t, "get") /\ UNCHANGED <<egress, tries, proxied, result, llmVars>>
      BY <2>1, <3>2 DEF GoesOn, Places, Before
    <3>3. CASE AfterAttempts(t, images[t])
      <4>1. Outcome(t)
        BY <2>1, <3>3 DEF AfterAttempts, Extracts, Outcome, Results
      <4>2. QED
        BY <4>1 DEF Outcome, Over, Retries
    <3>4. QED
      BY <1>4, <3>1, <3>2, <3>3 DEF Attempt
  <2>3. LlmNext
    BY <2>2, OutcomeAtModels DEF LlmNext
  <2>4. OutsideOf(t)
    BY <2>1, <2>2 DEF OutsideOf
  <2>5. QED
    BY <1>2, <2>1, <2>2, <2>3, <2>4 DEF PoolNext, PoolEffect, VisitEffect
<1>5. CASE BeginText(t)
  <2>1. /\ at[t] = "start" /\ Goes(t, "llm") /\ Extract(t, "text", 1)
        /\ UNCHANGED <<mine, poolVars, visitVars>>
    BY <1>5 DEF BeginText
  <2>2. Outcome(t)
    BY <2>1 DEF Outcome, visitVars
  <2>3. OutsideOf(t)
    BY <2>1 DEF OutsideOf
  <2>4. QED
    BY <1>2, <2>1, <2>2, <2>3, OutcomeAtModels DEF PoolNext, PoolEffect, VisitEffect, visitVars
<1>6. CASE PoolStep(t)
  <2>1. UNCHANGED <<llmVars, visitVars>> /\ at[t] \in {"get"} \cup {"starting", "permit", "opening"}
    BY <1>6 DEF PoolStep, Get, Make, Started, Permit, Open
  <2>2. \E where \in {"permit", "starting", "opening", "dressing"} : Goes(t, where)
    BY <1>6 DEF PoolStep, Get, Make, Started, Permit, Open
  <2>3. GoesOn(t)
    BY <1>1, <2>1, <2>2 DEF GoesOn, Standing, visitVars, Places, Before, WithContext
  <2>4. QED
    BY <1>2, <1>6, <2>1, <2>3 DEF LlmNext, PoolNext, PoolEffect, PoolStep, VisitEffect, visitVars
<1>7. CASE StartedForNobody(t)
  <2>1. /\ at[t] = "starting" /\ current # mine[t]
        /\ pools' = [pools EXCEPT ![mine[t]] = "up"]
        /\ VisitEnds(t, "error", "none") /\ UNCHANGED <<current, shutdown, kind>> /\ KeepsSession
    BY <1>7 DEF StartedForNobody
  <2>2. at[t] \in Held /\ "none" \in Images
    BY <2>1 DEF Held, Images
  <2>3. /\ Leaves(t) /\ Outcome(t)
        /\ images' \in [Tasks -> Images] /\ blocked' \in [Tasks -> BOOLEAN]
    BY <2>1, <2>2, VisitEndsEffect
  <2>4. LeavesAnOrphan(t)
    BY <2>1, <2>3 DEF LeavesAnOrphan
  <2>5. warmed' \in BOOLEAN /\ jar' \subseteq {"direct", "proxy"}
    BY <2>1, SessionKeeps
  <2>6. QED
    BY <2>1, <2>3, <2>4, <2>5, OutcomeAtModels DEF PoolNext, PoolEffect, VisitEffect
<1>8. CASE LlmStep(t)
  <2>1. CascadeStep(t) /\ UNCHANGED <<poolVars, at, mine, visitVars>>
    BY <1>8 DEF LlmStep
  <2>2. at[t] # "over"
    <3>1. call[t] # "idle"
      BY <2>1 DEF CascadeStep, Ask, Reads, Disappoints, Raises, Wakes
    <3>2. QED
      BY <1>1, <3>1 DEF Standing
  <2>3. Asks(t)
    BY <2>1 DEF Asks, visitVars
  <2>4. QED
    BY <1>2, <2>1, <2>2, <2>3 DEF LlmNext, LlmEffect, PoolNext, VisitEffect, visitVars
<1>9. CASE Read(t)
  <2>1. at[t] = "llm" /\ UNCHANGED <<mine, poolVars, kind, images, blocked, warmed, jar>>
    BY <1>9 DEF Read
  <2>2. PICK how \in Results : Over(t, how)
    BY <1>9 DEF Read, Results
  <2>3. Outcome(t) /\ Goes(t, "over")
    BY <2>2 DEF Outcome, Over
  <2>4. OutsideOf(t)
    BY <2>1, <2>3 DEF OutsideOf
  <2>5. QED
    BY <1>2, <2>1, <2>3, <2>4, OutcomeAtModels DEF PoolNext, PoolEffect, VisitEffect
<1>10. CASE Cancel(t)
  <2>1. /\ at[t] # "over" /\ Leave(t) /\ mine' = [mine EXCEPT ![t] = NoPool] /\ Over(t, "cancelled")
        /\ UNCHANGED <<pools, current, shutdown, kind, images, blocked, warmed, jar>>
    BY <1>10 DEF Cancel
  <2>2. Outcome(t) /\ Goes(t, "over")
    BY <2>1 DEF Outcome, Over, Results
  <2>3. LeavesAsItIs(t)
    BY <2>1, <2>2 DEF LeavesAsItIs, Leaves
  <2>4. QED
    BY <1>2, <2>1, <2>2, <2>3, OutcomeAtModels DEF PoolNext, PoolEffect, VisitEffect
<1>11. QED
  BY <1>3, <1>4, <1>5, <1>6, <1>7, <1>8, <1>9, <1>10

LEMMA StepEffects == Inv /\ [Next]_vars => LlmNext /\ PoolNext /\ VisitNext
<1> SUFFICES ASSUME Inv, [Next]_vars PROVE LlmNext /\ PoolNext /\ VisitNext
  OBVIOUS
<1>1. ASSUME NEW t \in Tasks,
             \/ Dress(t) \/ Warm(t) \/ Goto(t) \/ Challenge(t) \/ Solve(t) \/ CaptchaChallenge(t)
             \/ CaptchaSolve(t) \/ CaptchaPaid(t) \/ CaptchaJudge(t) \/ Judge(t) \/ Shoot(t)
             \/ VisitRaises(t)
      PROVE  LlmNext /\ PoolNext /\ VisitNext
  <2>1. \/ MovesOn(t) /\ VisitEffect(t) /\ UNCHANGED llmVars
        \/ LeavesAsItIs(t) /\ Outcome(t) /\ VisitEffect(t)
    BY <1>1, PageSteps
  <2>2. QED
    BY <2>1, OutcomeAtModels DEF LlmNext, PoolNext, PoolEffect, VisitNext
<1>2. CASE Shutdown
  BY <1>2 DEF Shutdown, ShutdownBegins, ShutdownEnds, LlmNext, PoolNext, VisitNext
<1>3. CASE UNCHANGED vars
  BY <1>3 DEF vars, LlmNext, PoolNext, VisitNext
<1>4. QED
  BY <1>1, <1>2, <1>3, OutsideSteps DEF Next, Progress, TaskStep, AllOver

LEMMA StepKeeps == Inv /\ [Next]_vars => Inv'
BY StepEffects, LlmStepKeeps, LlmPermitStep, PoolKeeps, VisitKeeps DEF Inv, PoolInv

LEMMA InitHolds == Init => Inv
<1> USE VisitConstants, LlmConstants, PoolConstants
<1> SUFFICES ASSUME Init PROVE Inv
  OBVIOUS
<1>1. IsFiniteSet({}) /\ Cardinality({}) = 0
  BY FS_EmptySet
<1>2. <<>> \in Seq(Fates) /\ Len(<<>>) = 0 /\ 1 .. 1 - 1 = {}
  OBVIOUS
<1>3. LlmInv
  BY <1>2 DEF Init, LlmInit, LlmInv, Active
<1>4. Asking = {}
  BY DEF Init, LlmInit, Asking
<1>5. LlmPermitInv
  BY <1>1, <1>4 DEF LlmPermitInv
<1>6. PlaceInv /\ FreshInv
  BY DEF Init, PoolInit, PlaceInv, FreshInv, Places, Held, Before, WithContext, InPage
<1>7. \A g \in Pools : Inside(g) = {}
  BY DEF Init, Inside, WithContext, InPage
<1>8. PermitInv
  BY <1>1, <1>7 DEF PermitInv
<1>9. CountInv
  BY DEF Init, PoolInit, CountInv, CountedIn
<1>10. VisitInv
  <2>1. VisitTypes
    <3>1. /\ kind \in Scenarios /\ egress \in [Tasks -> {"direct", "proxy"}]
          /\ tries \in [Tasks -> 0 .. MaxTries] /\ images \in [Tasks -> Images]
          /\ jar \subseteq {"direct", "proxy"} /\ result \in [Tasks -> {"none"} \cup Results]
      BY DEF Init, Images
    <3>2. proxied \in [Tasks -> BOOLEAN] /\ blocked \in [Tasks -> BOOLEAN] /\ warmed \in BOOLEAN
      BY Zenon DEF Init
    <3>3. QED
      BY <3>1, <3>2 DEF VisitTypes
  <2>2. ASSUME NEW t \in Tasks PROVE Standing(t)
    <3>1. call[t] = "idle" /\ at[t] = "start" /\ result[t] = "none" /\ egress[t] = "direct"
      BY DEF Init, LlmInit
    <3>2. QED
      BY <3>1 DEF Standing
  <2>3. QED
    BY <2>1, <2>2 DEF VisitInv
<1>11. QED
  BY <1>3, <1>5, <1>6, <1>8, <1>9, <1>10 DEF Inv, PoolInv

LEMMA Invariant == Spec => []Inv
BY InitHolds, StepKeeps, PTL DEF Spec
-----------------------------------------------------------------------------
\* Every variable has its type; a task has a pool, a caller's standing at the models
\* and a result exactly when its stage says so, the permits of every browser and of
\* the models are respected, and whoever holds the lock is starting a browser.
THEOREM TypeCorrect == Spec => []VisionTypeOK
<1>1. Inv => VisionTypeOK
  <2> USE VisitConstants, LlmConstants, PoolConstants
  <2> SUFFICES ASSUME Inv PROVE VisionTypeOK
    OBVIOUS
  <2>1. LlmTypeOK
    <3>1. /\ call \in [Callers -> {"idle", "queued", "asking", "sleeping", "answered"}]
          /\ mode \in [Callers -> {"vision", "text"}] /\ batches \in [Callers -> 0 .. MaxBatches]
          /\ Cardinality(Asking) <= LlmPermits
      BY DEF Inv, LlmInv, LlmPermitInv, Active
    <3>2. ASSUME NEW c \in Callers
          PROVE  /\ attempt[c] \in 1 .. (IF mode[c] = "vision" THEN 2 ELSE 3)
                 /\ partials[c] \in Seq({"read", "garbled", "malformed", "raised", "limited"})
                 /\ Len(partials[c]) <= batches[c]
                 /\ silent[c] = 1 .. next[c] - 1
                 /\ call[c] = "asking" => next[c] \in 1 .. Providers
                 /\ call[c] = "answered" => Through(c)
      <4>1. attempt[c] \in 1 .. 3 /\ (mode[c] = "vision" => attempt[c] <= 2)
        BY DEF Inv, LlmInv
      <4>2. partials[c] \in Seq(Fates) /\ Len(partials[c]) \in Nat /\ batches[c] \in Nat
        BY DEF Inv, LlmInv
      <4>3. /\ call[c] \in Active => Len(partials[c]) < batches[c]
            /\ call[c] \notin Active => Len(partials[c]) = batches[c]
            /\ silent[c] = 1 .. next[c] - 1 /\ next[c] \in 1 .. Providers
        BY DEF Inv, LlmInv
      <4>4. QED
        BY <4>1, <4>2, <4>3 DEF Through, Active, Fates
    <3>3. QED
      BY <3>1, <3>2 DEF LlmTypeOK
  <2>2. PoolTypeOK
    BY DEF Inv, PoolInv, PlaceInv, PermitInv, CountInv, CountedIn, PoolTypeOK
  <2>3. ASSUME NEW t \in Tasks
        PROVE  /\ at[t] \in {"start", "opening", "llm", "over"} \cup Before \cup WithContext
               /\ at[t] \in {"starting", "permit", "opening"} \cup WithContext <=> mine[t] # NoPool
    BY DEF Inv, PoolInv, PlaceInv, Places, Held
  <2>4. QED
    BY <2>1, <2>2, <2>3 DEF Inv, VisitInv, VisitTypes, Standing, Images, Results, VisionTypeOK
<1>2. QED
  BY <1>1, Invariant, PTL

\* The contexts of a browser that runs are those of the tasks in its pages and those
\* lost in their opening (page and shutdown of browser_pool.py): nothing else leaks,
\* whatever raises, is cancelled or is shut down.
THEOREM ContextsClosed == Spec => []ContextsAccounted
<1>1. Inv => ContextsAccounted
  BY DEF Inv, PoolInv, CountInv, CountedIn, ContextsAccounted
<1>2. QED
  BY <1>1, Invariant, PTL

\* The cascade of llm.py gives a batch up for an exception only when every provider
\* has raised since the attempt began, and in the last attempt that its kind allows.
THEOREM GivenUpLast == Spec => GivesUpLast
<1>1. Inv /\ [Next]_vars =>
        [\A c \in Callers :
           LET given == Len(partials'[c]) = Len(partials[c]) + 1
               fate  == Last(partials'[c])
           IN given /\ fate \in {"raised", "limited"} =>
                /\ silent[c] \cup {next[c]} = 1 .. Providers
                /\ mode[c] = "vision" /\ HasFallback => attempt[c] = 2
                /\ mode[c] = "text" /\ fate = "limited" => attempt[c] = 3]_llmVars
  BY StepEffects, GivesUpStep DEF Inv
<1>2. QED
  BY <1>1, Invariant, PTL DEF Spec, GivesUpLast
=============================================================================
