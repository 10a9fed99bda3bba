-------------------------- MODULE VisionExtraction --------------------------
(***************************************************************************)
(* What asks the browser pool and the language models: a stealth fetch and *)
(* the screenshots of a retailer's page                                    *)
(* (app/services/crawler/browser_fetcher.py), a fetch that solves          *)
(* challenges (captcha_fetcher.py), the vision extraction made of either   *)
(* kind of screenshots (vision_fetcher.py), and the extraction from text.  *)
(*                                                                         *)
(* A visit holds a permit of the pool until its page is left; the models   *)
(* are asked afterwards.  The rotation of a stealth fetch is in            *)
(* EgressRotation; here it is one visit, and the loop of the screenshots,  *)
(* which differs, is complete.                                             *)
(***************************************************************************)
EXTENDS BrowserPool, LlmCascade

CONSTANTS Scenarios,    \* kind of each task: fetch, captcha, shots, plain, text
          UseProxies,   \* browser_proxy_enabled
          MaxTries,     \* browser_proxy_max_retries
          Warms,        \* warm_session, and a homepage_url
          SolverOn,     \* enable_antibot_solver
          PaidSolver,   \* a CAPTCHA service is configured
          Timed         \* tasks that a timeout may cancel

ASSUME VisionAssumption ==
  /\ Scenarios \subseteq [Tasks -> {"fetch", "captcha", "shots", "plain", "text"}]
  /\ Callers = Tasks /\ MaxTries \in Nat \ {0} /\ Timed \subseteq Tasks
  /\ {UseProxies, Warms, SolverOn, PaidSolver} \subseteq BOOLEAN

VARIABLES
  kind,
  egress,   \* the proxy of a visit, or direct
  tries,    \* attempts before this one; MaxTries on the last resort
  proxied,  \* used_real_proxy
  images,   \* of the last visit: none, blank, good
  blocked,  \* block_reason is set
  warmed,   \* session_store, of the one retailer
  jar,      \* the egresses whose cookies are stored
  result

visitVars == <<kind, egress, tries, proxied, images, blocked, warmed, jar, result>>
vars == <<poolVars, at, mine, llmVars, visitVars>>

Init ==
  /\ PoolInit /\ LlmInit
  /\ kind \in Scenarios
  /\ at = [t \in Tasks |-> "start"] /\ mine = [t \in Tasks |-> NoPool]
  /\ egress = [t \in Tasks |-> "direct"] /\ tries = [t \in Tasks |-> 0]
  /\ proxied = [t \in Tasks |-> FALSE] /\ images = [t \in Tasks |-> "none"]
  /\ blocked = [t \in Tasks |-> FALSE] /\ warmed = FALSE /\ jar = {}
  /\ result = [t \in Tasks |-> "none"]
-----------------------------------------------------------------------------
Up(t)        == pools[mine[t]] = "up"
InPageOf(t, where) == at[t] = where /\ Up(t)

\* A step within a page.
Moves(t, where, block) ==
  /\ Goes(t, where)
  /\ blocked' = [blocked EXCEPT ![t] = block]
  /\ UNCHANGED <<mine, poolVars, llmVars, kind, egress, tries, proxied, images, result>>

KeepsSession  == UNCHANGED <<warmed, jar>>
SavesCookies(t) == jar' = jar \cup {egress[t]} /\ UNCHANGED warmed

\* A task is through with the browser and the models.
Over(t, how) ==
  /\ Goes(t, "over")
  /\ result' = [result EXCEPT ![t] = how]
  /\ Idles(t)
  /\ egress' = [egress EXCEPT ![t] = "direct"] /\ tries' = [tries EXCEPT ![t] = 0]
  /\ proxied' = [proxied EXCEPT ![t] = FALSE]

RetriesUncounted(t, where, n) ==
  /\ Goes(t, where)
  /\ egress' = [egress EXCEPT ![t] = "direct"]
  /\ UNCHANGED <<tries, proxied, result, llmVars>>

\* It tries again, and where it goes first.
Retries(t, where, n) ==
  /\ Goes(t, where)
  /\ tries' = [tries EXCEPT ![t] = n]
  /\ egress' = [egress EXCEPT ![t] = "direct"]
  /\ UNCHANGED <<proxied, result, llmVars>>

\* vision_extract_page, with the screenshots it has got.
Extracts(t, got) ==
  IF got = "none" THEN Over(t, "failed")
  ELSE /\ Goes(t, "llm")
       /\ \E n \in 1 .. MaxBatches : Extract(t, "vision", n)
       /\ UNCHANGED <<egress, tries, proxied, result>>

\* After the attempts of capture_stealth_screenshots: once directly, if a proxy was
\* used and there is no screenshot, not even a blank one.
AfterAttempts(t, got) ==
  IF proxied[t] /\ got = "none" /\ tries[t] < MaxTries THEN Retries(t, "get", MaxTries)
  ELSE Extracts(t, got)

\* A visit is over: ok, rotate (blocked for a reason that rotates the egress),
\* blocked, or error.
VisitEnds(t, status, got) ==
  /\ Leave(t)
  /\ mine' = [mine EXCEPT ![t] = NoPool]
  /\ images' = [images EXCEPT ![t] = IF kind[t] = "shots" THEN got ELSE "none"]
  /\ blocked' = [blocked EXCEPT ![t] = FALSE]
  /\ CASE kind[t] \in {"fetch", "captcha"} -> Over(t, status)
       [] kind[t] = "plain" -> IF status = "ok" THEN Extracts(t, got) ELSE Over(t, "raised")
       [] kind[t] = "shots" ->
            IF status = "ok" THEN Extracts(t, got)
            ELSE IF egress[t] = "proxy" /\ status \in {"rotate", "error"} /\ tries[t] + 1 < MaxTries
              THEN Retries(t, "start", tries[t] + 1)
            ELSE AfterAttempts(t, got)

Returns(t, status, got) ==
  /\ VisitEnds(t, status, got)
  /\ UNCHANGED <<pools, current, shutdown, kind>>
-----------------------------------------------------------------------------
\* Up to the pool: the egress, and the cookies it has.
Begin(t) ==
  /\ at[t] = "start" /\ kind[t] \in {"fetch", "captcha", "plain"}
  /\ Goes(t, "get")
  /\ \E e \in IF kind[t] = "plain" THEN {"direct"} ELSE {"direct", "proxy"} :
       egress' = [egress EXCEPT ![t] = e]
  /\ UNCHANGED <<mine, poolVars, llmVars, kind, tries, proxied, images, blocked, warmed, jar, result>>

\* An attempt of capture_stealth_screenshots.  The pool of proxies offers one, or
\* none, or says direct; after the first attempt both of these end the loop.
Attempt(t) ==
  /\ at[t] = "start" /\ kind[t] = "shots"
  /\ \/ /\ UseProxies
        /\ egress' = [egress EXCEPT ![t] = "proxy"] /\ proxied' = [proxied EXCEPT ![t] = TRUE]
        /\ Goes(t, "get") /\ UNCHANGED <<tries, result, llmVars>>
     \/ tries[t] = 0 /\ Goes(t, "get") /\ UNCHANGED <<egress, tries, proxied, result, llmVars>>
     \/ tries[t] > 0 /\ AfterAttempts(t, images[t])
  /\ UNCHANGED <<mine, poolVars, kind, images, blocked, warmed, jar>>

BeginText(t) ==
  /\ at[t] = "start" /\ kind[t] = "text"
  /\ Goes(t, "llm") /\ Extract(t, "text", 1)
  /\ UNCHANGED <<mine, poolVars, visitVars>>

PoolStep(t) ==
  /\ Get(t) \/ Make(t) \/ Started(t) \/ Permit(t) \/ Open(t)
  /\ UNCHANGED <<llmVars, visitVars>>

\* The page is dressed; the session is warmed unless it was, within half an hour.
Dress(t) ==
  /\ InPageOf(t, "dressing")
  /\ \/ /\ Warms /\ kind[t] # "plain"
        /\ warmed' \in IF kind[t] = "captcha" THEN {warmed} ELSE {FALSE}
        /\ Moves(t, "warm", FALSE)
     \/ /\ Warms /\ kind[t] \in {"fetch", "shots"} => warmed
        /\ Warms => kind[t] # "captcha"
        /\ Moves(t, "goto", FALSE) /\ UNCHANGED warmed
  /\ UNCHANGED jar

\* The homepage.  A fetch that solves challenges warms always and marks never.
Warm(t) ==
  /\ InPageOf(t, "warm")
  /\ Moves(t, "goto", FALSE)
  /\ warmed' = (warmed \/ kind[t] # "captcha")
  /\ UNCHANGED jar

Goto(t) ==
  /\ InPageOf(t, "goto")
  /\ Moves(t, IF kind[t] = "plain" THEN "shoot" ELSE "challenge", FALSE)
  /\ KeepsSession

\* _handle_challenge of a stealth visit.
Challenge(t) ==
  /\ InPageOf(t, "challenge") /\ kind[t] # "captcha"
  /\ \E reason \in {"none", "solvable", "hard"} :
       Moves(t, IF reason = "solvable" /\ SolverOn THEN "solve" ELSE "judge", reason # "none")
  /\ KeepsSession

Solve(t) ==
  /\ InPageOf(t, "solve") /\ kind[t] # "captcha"
  /\ \E still \in BOOLEAN : Moves(t, "judge", still)
  /\ KeepsSession

\* The same for fetch_with_captcha_solve: the solvers of a vendor, then a service.
CaptchaChallenge(t) ==
  /\ InPageOf(t, "challenge") /\ kind[t] = "captcha"
  /\ \E where \in {"judge"} \cup (IF SolverOn THEN {"solve"} ELSE {})
                            \cup (IF PaidSolver THEN {"paid"} ELSE {}) : Moves(t, where, FALSE)
  /\ KeepsSession

CaptchaSolve(t) ==
  /\ InPageOf(t, "solve") /\ kind[t] = "captcha"
  /\ \/ Returns(t, "ok", "none") /\ SavesCookies(t)
     \/ /\ \E where \in {"judge"} \cup (IF PaidSolver THEN {"paid"} ELSE {}) : Moves(t, where, FALSE)
        /\ KeepsSession

CaptchaPaid(t) ==
  /\ InPageOf(t, "paid")
  /\ \/ Returns(t, "ok", "none") /\ SavesCookies(t)
     \/ Moves(t, "judge", FALSE) /\ KeepsSession

CaptchaJudge(t) ==
  /\ InPageOf(t, "judge") /\ kind[t] = "captcha"
  /\ \/ Returns(t, "blocked", "none") /\ KeepsSession
     \/ Returns(t, "ok", "none") /\ SavesCookies(t)

\* The end of _prepare_stealth_page: blocked, without products, stopped by
\* compliance, or ok, with its cookies stored.
Judge(t) ==
  /\ InPageOf(t, "judge") /\ kind[t] # "captcha"
  /\ \/ \E how \in {"rotate", "blocked"} :
          /\ blocked[t] => how = "rotate"
          /\ Returns(t, how, "none") /\ KeepsSession
     \/ /\ ~blocked[t] /\ SavesCookies(t)
        /\ IF kind[t] = "fetch" THEN Returns(t, "ok", "none") ELSE Moves(t, "shoot", FALSE)

\* capture_scrolled_screenshots; the images of a page without a retailer are taken as
\* they are.
Shoot(t) ==
  /\ InPageOf(t, "shoot")
  /\ \/ Returns(t, "ok", "good")
     \/ kind[t] = "shots" /\ Returns(t, "rotate", "blank")
  /\ KeepsSession

\* Whatever a visit awaits raises; it must, when its browser is gone.
VisitRaises(t) ==
  /\ at[t] \in {"starting", "opening"} \cup WithContext
  /\ Returns(t, "error", "none")
  /\ KeepsSession

StartedForNobody(t) ==
  /\ at[t] = "starting" /\ current # mine[t]
  /\ pools' = [pools EXCEPT ![mine[t]] = "up"]
  /\ VisitEnds(t, "error", "none")
  /\ UNCHANGED <<current, shutdown, kind>> /\ KeepsSession

LlmStep(t) ==
  /\ CascadeStep(t)
  /\ UNCHANGED <<poolVars, at, mine, visitVars>>

\* A good answer may still hold nothing.
Read(t) ==
  /\ at[t] = "llm" /\ call[t] = "answered"
  /\ \E how \in IF AnyRead(partials[t]) THEN {"ok", "failed"} ELSE {"failed"} : Over(t, how)
  /\ UNCHANGED <<mine, poolVars, kind, images, blocked, warmed, jar>>

\* The timeout of whoever called; the pool, the lock and the semaphores are left.
Cancel(t) ==
  /\ t \in Timed /\ at[t] \notin {"start", "over"}
  /\ Leave(t)
  /\ mine' = [mine EXCEPT ![t] = NoPool]
  /\ Over(t, "cancelled")
  /\ UNCHANGED <<pools, current, shutdown, kind, images, blocked, warmed, jar>>

Shutdown == (ShutdownBegins \/ ShutdownEnds) /\ UNCHANGED <<llmVars, visitVars>>

AllOver == (\A t \in Tasks : at[t] = "over") /\ UNCHANGED vars

TaskStep(t) ==
  \/ Begin(t) \/ Attempt(t) \/ BeginText(t) \/ PoolStep(t) \/ Dress(t) \/ Warm(t) \/ Goto(t)
  \/ Challenge(t) \/ Solve(t) \/ CaptchaChallenge(t) \/ CaptchaSolve(t) \/ CaptchaPaid(t)
  \/ CaptchaJudge(t) \/ Judge(t) \/ Shoot(t) \/ VisitRaises(t) \/ StartedForNobody(t)
  \/ LlmStep(t) \/ Read(t)

Progress == \E t \in Tasks : TaskStep(t)

Next == Progress \/ (\E t \in Tasks : Cancel(t)) \/ Shutdown \/ AllOver

Spec     == Init /\ [][Next]_vars
FairSpec == Spec /\ WF_vars(Progress)
-----------------------------------------------------------------------------
VisionTypeOK ==
  /\ PoolTypeOK /\ LlmTypeOK
  /\ kind \in Scenarios
  /\ \A t \in Tasks :
       /\ at[t] \in {"start", "opening", "llm", "over"} \cup Before \cup WithContext
       /\ at[t] \in {"starting", "permit", "opening"} \cup WithContext <=> mine[t] # NoPool
       /\ call[t] # "idle" <=> at[t] = "llm"
       /\ at[t] = "over" <=> result[t] # "none"
       /\ tries[t] \in 0 .. MaxTries
       /\ egress[t] = "proxy" /\ kind[t] = "shots" => proxied[t]
  /\ egress \in [Tasks -> {"direct", "proxy"}] /\ proxied \in [Tasks -> BOOLEAN]
  /\ images \in [Tasks -> {"none", "blank", "good"}] /\ blocked \in [Tasks -> BOOLEAN]
  /\ warmed \in BOOLEAN /\ jar \subseteq {"direct", "proxy"}
  /\ result \in [Tasks -> {"none", "ok", "rotate", "blocked", "error", "raised", "failed", "cancelled"}]

\* Every task ends: whatever raises, is cancelled or is shut down, the lock, the
\* permits of the pool and those of the models come back.
EveryTaskEnds == <>(\A t \in Tasks : at[t] = "over")
=============================================================================
