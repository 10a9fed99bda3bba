----------------------------- MODULE LlmCascade -----------------------------
(***************************************************************************)
(* The language models (llm.py): the providers that have a key form a      *)
(* cascade, asked one after the other under one semaphore.                 *)
(* extract_from_screenshots ("vision") takes screenshots in batches and    *)
(* gives each batch two attempts; extract_structured ("text") is one batch *)
(* of three attempts, but tries again only after a rate limit, and sleeps  *)
(* in between.                                                             *)
(***************************************************************************)
EXTENDS Integers, FiniteSets, Sequences, SequencesExt

CONSTANTS Callers,
          Providers,    \* how many have a key; in the order of _ordered_providers.  With
                        \* none there is nothing to ask and every extraction fails
          LlmPermits,   \* LLM_MAX_CONCURRENCY
          MaxBatches    \* bound: screenshots divided by VISION_SCREENSHOTS_PER_BATCH

ASSUME LlmAssumption ==
  Providers \in Nat \ {0} /\ LlmPermits \in Nat \ {0} /\ MaxBatches \in Nat \ {0}

VARIABLES
  call,      \* idle, queued for the semaphore, asking, sleeping, or answered
  mode,      \* vision or text
  batches,   \* batches of this extraction
  partials,  \* what became of those that are through: read, garbled, malformed, or
             \* raised, limited when the last provider raised
  attempt,
  next,      \* the provider of the cascade whose turn it is
  silent     \* history: the providers that raised in this attempt

llmVars == <<call, mode, batches, partials, attempt, next, silent>>

LlmInit ==
  /\ call = [c \in Callers |-> "idle"] /\ mode = [c \in Callers |-> "vision"]
  /\ batches = [c \in Callers |-> 0]
  /\ partials = [c \in Callers |-> <<>>] /\ attempt = [c \in Callers |-> 1]
  /\ next = [c \in Callers |-> 1] /\ silent = [c \in Callers |-> {}]

Asking == {c \in Callers : call[c] = "asking"}

\* _get_fallback_client: there is somebody else to ask.
HasFallback == Providers >= 2

\* Over when every batch is through; the first good one decides.
Through(c)  == Len(partials[c]) = batches[c]
AnyRead(ps) == "read" \in ToSet(ps)

Resets(c, where, how, n) ==
  /\ call' = [call EXCEPT ![c] = where] /\ mode' = [mode EXCEPT ![c] = how]
  /\ batches' = [batches EXCEPT ![c] = n] /\ partials' = [partials EXCEPT ![c] = <<>>]
  /\ attempt' = [attempt EXCEPT ![c] = 1] /\ next' = [next EXCEPT ![c] = 1]
  /\ silent' = [silent EXCEPT ![c] = {}]

Extract(c, how, n) == Resets(c, "queued", how, n)
Idles(c)           == Resets(c, "idle", "vision", 0)

\* An attempt begins at the head of the cascade.
Attempts(c, n) ==
  /\ attempt' = [attempt EXCEPT ![c] = n]
  /\ next' = [next EXCEPT ![c] = 1] /\ silent' = [silent EXCEPT ![c] = {}]

\* A batch is through.
Settles(c, fate) ==
  /\ partials' = [partials EXCEPT ![c] = Append(@, fate)]
  /\ call' = [call EXCEPT ![c] = IF Len(partials[c]) + 1 = batches[c] THEN "answered" ELSE "queued"]
  /\ Attempts(c, 1)

MayRetry(c, fate) ==
  IF mode[c] = "vision" THEN attempt[c] = 1 /\ HasFallback
                        ELSE attempt[c] < 3 /\ fate = "limited"

\* An attempt is through without success: once more from the head of the cascade,
\* or the batch is given up.
EndsAttempt(c, fate) ==
  IF MayRetry(c, fate)
    THEN /\ Attempts(c, attempt[c] + 1) /\ UNCHANGED partials
         /\ call' = [call EXCEPT ![c] = IF mode[c] = "text" THEN "sleeping" ELSE "queued"]
    ELSE Settles(c, fate)
-----------------------------------------------------------------------------
\* async with _llm_semaphore.
Ask(c) ==
  /\ call[c] = "queued" /\ Cardinality(Asking) < LlmPermits
  /\ call' = [call EXCEPT ![c] = "asking"]
  /\ UNCHANGED <<mode, batches, partials, attempt, next, silent>>

\* The answer is JSON, or a piece that can be salvaged.
Reads(c) ==
  /\ call[c] = "asking"
  /\ Settles(c, "read")
  /\ UNCHANGED <<mode, batches>>

\* The answer is no JSON, or has no choices; the provider is not passed over for it.
Disappoints(c) ==
  /\ call[c] = "asking"
  /\ \E fate \in {"garbled", "malformed"} : EndsAttempt(c, fate)
  /\ UNCHANGED <<mode, batches>>

RaisesShort(c) ==
  /\ call[c] = "asking"
  /\ IF next[c] < Providers - 1
       THEN /\ next' = [next EXCEPT ![c] = @ + 1]
            /\ silent' = [silent EXCEPT ![c] = @ \cup {next[c]}]
            /\ call' = [call EXCEPT ![c] = "queued"] /\ UNCHANGED <<partials, attempt>>
       ELSE \E fate \in {"raised", "limited"} : EndsAttempt(c, fate)
  /\ UNCHANGED <<mode, batches>>

\* The provider raises: the next one's turn.  What the last one raises counts.
Raises(c) ==
  /\ call[c] = "asking"
  /\ IF next[c] < Providers
       THEN /\ next' = [next EXCEPT ![c] = @ + 1]
            /\ silent' = [silent EXCEPT ![c] = @ \cup {next[c]}]
            /\ call' = [call EXCEPT ![c] = "queued"] /\ UNCHANGED <<partials, attempt>>
       ELSE \E fate \in {"raised", "limited"} : EndsAttempt(c, fate)
  /\ UNCHANGED <<mode, batches>>

\* asyncio.sleep, without the semaphore.
Wakes(c) ==
  /\ call[c] = "sleeping"
  /\ call' = [call EXCEPT ![c] = "queued"]
  /\ UNCHANGED <<mode, batches, partials, attempt, next, silent>>

CascadeStep(c) ==
  Ask(c) \/ Reads(c) \/ Disappoints(c) \/ Raises(c) \/ Wakes(c)

LlmTypeOK ==
  /\ call \in [Callers -> {"idle", "queued", "asking", "sleeping", "answered"}]
  /\ mode \in [Callers -> {"vision", "text"}]
  /\ batches \in [Callers -> 0 .. MaxBatches]
  /\ \A c \in Callers :
       /\ attempt[c] \in 1 .. (IF mode[c] = "vision" THEN 2 ELSE 3)
       /\ partials[c] \in Seq({"read", "garbled", "malformed", "raised", "limited"})
       /\ Len(partials[c]) <= batches[c]
       /\ silent[c] = 1 .. next[c] - 1
       /\ call[c] = "asking" => next[c] \in 1 .. Providers
       /\ call[c] = "answered" => Through(c)
  /\ Cardinality(Asking) <= LlmPermits

\* A batch is given up because the models raise only when, with the one that raises
\* now, every provider has raised since the attempt began; never in the first
\* attempt at screenshots if there are two providers, and never for a rate limit
\* before the third attempt at a text.
GivesUpLast ==
  [][\A c \in Callers :
       LET given == Len(partials'[c]) = Len(partials[c]) + 1
           fate  == Last(partials'[c])
       IN given /\ fate \in {"raised", "limited"} =>
            /\ silent[c] \cup {next[c]} = 1 .. Providers
            /\ mode[c] = "vision" /\ HasFallback => attempt[c] = 2
            /\ mode[c] = "text" /\ fate = "limited" => attempt[c] = 3]_llmVars
=============================================================================
