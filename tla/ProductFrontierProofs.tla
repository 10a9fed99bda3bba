----------------------- MODULE ProductFrontierProofs ------------------------
(***************************************************************************)
(* Proofs about ProductFrontier, for any set of URLs, any links between    *)
(* them (the web may be infinite), any scores and scope, and any limit;    *)
(* ReachesAll for a depth of at most 2.                                    *)
(***************************************************************************)
EXTENDS ProductFrontier, FiniteSetTheorems, TLAPS

\* Where an entry comes from: it is the seed's own, or a page fetched holds it.
EntryInv ==
  \A e \in frontier :
    \/ e = Start
    \/ /\ Eligible(e.url)
       /\ \E p \in visited : e.depth = depthOf[p] + 1 /\ e.url \in held[p]

\* A page not answered holds nothing.
HeldInv ==
  /\ \A u \in Urls \ visited : held[u] = {}
  /\ at = "fetching" => held[page.url] = {}

\* Each link that may be followed was, or is about to be.
CoverInv ==
  \A p \in visited : depthOf[p] < MaxDepth =>
    \A u \in held[p] : Eligible(u) =>
      u \in visited \/ \E e \in frontier : e.url = u

\* The crawl is over for one of two reasons.
DoneInv ==
  /\ IsFiniteSet(visited)
  /\ at = "done" => frontier = {} \/ Cardinality(results) >= Limit

\* What the crawl does first is fetch the seed, at depth 0.
SeedInv ==
  /\ Seed \in visited => depthOf[Seed] = 0 /\ Start \notin frontier
  /\ Seed \notin visited => frontier = {Start} /\ visited = {} /\ at = "loop"
  /\ at = "fetching" /\ page.url = Seed => visited = {Seed}

\* The entries the seed's own page makes are older than all others, and those of
\* its links not fetched yet are there: so such a link is fetched at depth 1,
\* whatever entries other pages make for it.
AgeInv ==
  /\ Seed \in visited => Cardinality(visited) >= 1
  /\ at = "fetching" /\ page.url # Seed => Cardinality(visited) >= 2
  /\ \A e \in frontier : e.depth > 1 => e.found >= 2
  /\ MaxDepth > 0 => \A u \in held[Seed] : Eligible(u) =>
       IF u \in visited THEN depthOf[u] <= 1
       ELSE \E e \in frontier : e.url = u /\ e.depth = 1 /\ e.found <= 1

IInv == TypeOK /\ EntryInv /\ HeldInv /\ CoverInv /\ DoneInv /\ SeedInv /\ AgeInv /\ ScopeKept
-----------------------------------------------------------------------------
\* The scope of a crawl is settled when it starts.
LEMMA ScopeFixed == request' = request => \A u : Eligible(u)' <=> Eligible(u)
BY DEF Eligible, Strategy

\* How the number of pages fetched grows.
LEMMA Counted ==
  ASSUME IsFiniteSet(visited), NEW u
  PROVE  /\ IsFiniteSet(visited \cup {u})
         /\ Cardinality(visited) \in Nat
         /\ u \notin visited => Cardinality(visited \cup {u}) = Cardinality(visited) + 1
         /\ visited # {} => Cardinality(visited) >= 1
<1>1. /\ IsFiniteSet(visited \cup {u})
      /\ Cardinality(visited \cup {u}) = IF u \in visited THEN Cardinality(visited)
                                         ELSE Cardinality(visited) + 1
  BY FS_AddElement
<1>2. Cardinality(visited) \in Nat /\ (Cardinality(visited) = 0 <=> visited = {})
  BY FS_CardinalityType, FS_EmptySet
<1>3. QED
  BY <1>1, <1>2

\* Taking an entry passes it over or fetches it.
LEMMA TakeCases ==
  ASSUME Take
  PROVE  \E e \in frontier :
           /\ First(e) /\ at = "loop" /\ Cardinality(results) < Limit
           /\ frontier' = frontier \ {e}
           /\ UNCHANGED <<request, results, held>>
           /\ \/ e.url \in visited /\ UNCHANGED <<page, visited, depthOf, at>>
              \/ /\ e.url \notin visited
                 /\ page' = e /\ visited' = visited \cup {e.url} /\ at' = "fetching"
                 /\ depthOf' = [depthOf EXCEPT ![e.url] = e.depth]
BY DEF Take, Fetch

LEMMA EntryType ==
  ASSUME TypeOK, IsFiniteSet(visited), page.depth < MaxDepth, NEW links \in Pages
  PROVE  Found(links) \subseteq Entry
<1>1. Cardinality(visited) \in Nat
  BY FS_CardinalityType
<1>2. page.depth + 1 \in 0 .. MaxDepth
  BY LimitAssumption DEF TypeOK, Entry
<1>3. links \subseteq Urls
  BY PagesAssumption
<1>4. QED
  BY <1>1, <1>2, <1>3 DEF Found, EntryFor, Entry

LEMMA TypeStep == TypeOK /\ DoneInv /\ [Next]_vars => TypeOK'
<1> SUFFICES ASSUME TypeOK, DoneInv, [Next]_vars PROVE TypeOK'
  OBVIOUS
<1> USE DEF TypeOK
<1>1. CASE Take
  <2>1. PICK e \in frontier :
          /\ frontier' = frontier \ {e}
          /\ UNCHANGED <<request, results, held>> /\ at = "loop"
          /\ \/ e.url \in visited /\ UNCHANGED <<page, visited, depthOf, at>>
             \/ /\ e.url \notin visited
                /\ page' = e /\ visited' = visited \cup {e.url} /\ at' = "fetching"
                /\ depthOf' = [depthOf EXCEPT ![e.url] = e.depth]
    BY <1>1, TakeCases
  <2>2. e \in Entry /\ e.url \in Urls /\ e.depth \in 0 .. MaxDepth
    BY DEF Entry
  <2>3. QED
    BY <2>1, <2>2
<1>2. ASSUME NEW ok \in BOOLEAN, NEW signal \in BOOLEAN, NEW links \in Pages,
             FetchReply(ok, signal, links)
      PROVE  TypeOK'
  <2>1. frontier' \subseteq Entry
    BY <1>2, EntryType DEF FetchReply, DoneInv
  <2>2. held' \in [Urls -> SUBSET Urls]
    BY <1>2, PagesAssumption DEF FetchReply
  <2>3. QED
    BY <1>2, <2>1, <2>2 DEF FetchReply
<1>3. CASE FetchRaises
  BY <1>3 DEF FetchRaises
<1>4. CASE Finish
  BY <1>4 DEF Finish
<1>5. CASE UNCHANGED vars
  BY <1>5 DEF vars
<1> QED
  BY <1>1, <1>2, <1>3, <1>4, <1>5 DEF Next, Replies

LEMMA DoneStep == TypeOK /\ DoneInv /\ [Next]_vars => DoneInv'
<1> SUFFICES ASSUME TypeOK, DoneInv, [Next]_vars PROVE DoneInv'
  OBVIOUS
<1> USE DEF DoneInv
<1>1. CASE Take
  BY <1>1, TakeCases, Counted
<1>2. CASE Replies
  BY <1>2 DEF Replies, FetchReply
<1>3. CASE FetchRaises
  BY <1>3 DEF FetchRaises
<1>4. CASE Finish
  BY <1>4 DEF Finish
<1>5. CASE UNCHANGED vars
  BY <1>5 DEF vars
<1> QED
  BY <1>1, <1>2, <1>3, <1>4, <1>5 DEF Next

LEMMA HeldStep == TypeOK /\ HeldInv /\ [Next]_vars => HeldInv'
<1> SUFFICES ASSUME TypeOK, HeldInv, [Next]_vars PROVE HeldInv'
  OBVIOUS
<1> USE DEF HeldInv
<1>1. CASE Take
  <2>1. \A e \in frontier : e.url \in Urls
    BY DEF TypeOK, Entry
  <2>2. QED
    BY <1>1, <2>1, TakeCases
<1>2. CASE Replies
  BY <1>2 DEF Replies, FetchReply, TypeOK
<1>3. CASE FetchRaises
  BY <1>3 DEF FetchRaises
<1>4. CASE Finish
  BY <1>4 DEF Finish
<1>5. CASE UNCHANGED vars
  BY <1>5 DEF vars
<1> QED
  BY <1>1, <1>2, <1>3, <1>4, <1>5 DEF Next
-----------------------------------------------------------------------------
\* What a taken entry says of its origin stays true: pages fetched keep their
\* depth and what they held.
LEMMA ScopeStep ==
  TypeOK /\ HeldInv /\ EntryInv /\ ScopeKept /\ [Next]_vars => EntryInv' /\ ScopeKept'
<1> SUFFICES ASSUME TypeOK, HeldInv, EntryInv, ScopeKept, [Next]_vars
             PROVE  EntryInv' /\ ScopeKept'
  OBVIOUS
<1> USE DEF EntryInv, ScopeKept
<1>1. CASE Take
  <2>1. PICK e \in frontier :
          /\ frontier' = frontier \ {e}
          /\ UNCHANGED <<request, held>>
          /\ \/ e.url \in visited /\ UNCHANGED <<visited, depthOf>>
             \/ /\ e.url \notin visited /\ visited' = visited \cup {e.url}
                /\ depthOf' = [depthOf EXCEPT ![e.url] = e.depth]
    BY <1>1, TakeCases
  <2>2. \A u : Eligible(u)' <=> Eligible(u)
    BY <2>1, ScopeFixed
  <2>3. \A p \in visited : p \in visited' /\ depthOf'[p] = depthOf[p]
    BY <2>1 DEF TypeOK
  <2>4. ASSUME NEW f \in frontier', f # Start
        PROVE  /\ Eligible(f.url)
               /\ \E p \in visited' : f.depth = depthOf'[p] + 1 /\ f.url \in held'[p]
    <3>1. f \in frontier
      BY <2>1
    <3>2. PICK p \in visited : f.depth = depthOf[p] + 1 /\ f.url \in held[p]
      BY <3>1, <2>4
    <3>3. p \in visited' /\ f.depth = depthOf'[p] + 1 /\ f.url \in held'[p]
      BY <3>2, <2>1, <2>3
    <3>4. QED
      BY <3>1, <3>3, <2>4
  <2>5. ASSUME NEW u \in visited', u # Seed
        PROVE  /\ Eligible(u)
               /\ \E p \in visited : depthOf'[u] = depthOf[p] + 1 /\ u \in held[p]
    <3>1. CASE u \in visited
      BY <2>3, <2>5, <3>1
    <3>2. CASE u \notin visited
      <4>1. u = e.url /\ depthOf'[u] = e.depth
        BY <2>1, <3>2, <2>5 DEF TypeOK, Entry
      <4>2. e # Start
        BY <4>1, <2>5 DEF Start
      <4>3. QED
        BY <4>1, <4>2
    <3>3. QED
      BY <3>1, <3>2
  <2>6. ScopeKept'
    BY <2>5, <2>2, <2>3, <2>1
  <2>7. EntryInv'
    BY <2>4, <2>2 DEF Start
  <2>8. QED
    BY <2>6, <2>7
<1>2. ASSUME NEW ok \in BOOLEAN, NEW signal \in BOOLEAN, NEW links \in Pages,
             FetchReply(ok, signal, links)
      PROVE  EntryInv' /\ ScopeKept'
  <2>1. /\ UNCHANGED <<request, visited, depthOf>>
        /\ page.url \in visited /\ page.depth = depthOf[page.url] /\ visited \subseteq Urls
    BY <1>2 DEF FetchReply, TypeOK
  <2>2. \A u : Eligible(u)' <=> Eligible(u)
    BY <2>1, ScopeFixed
  <2>3. held[page.url] = {} /\ \A p \in visited : held[p] \subseteq held'[p]
    BY <1>2 DEF FetchReply, TypeOK, HeldInv
  <2>4. ScopeKept'
    BY <2>1, <2>2, <2>3
  <2>5. ASSUME NEW e \in frontier', e \notin frontier
        PROVE  /\ Eligible(e.url)
               /\ e.depth = depthOf[page.url] + 1 /\ e.url \in held'[page.url]
    BY <1>2, <2>5, <2>1 DEF FetchReply, Found, EntryFor, TypeOK
  <2>6. EntryInv'
    BY <2>1, <2>2, <2>3, <2>5
  <2>7. QED
    BY <2>4, <2>6
<1>3. CASE FetchRaises
  BY <1>3, ScopeFixed DEF FetchRaises
<1>4. CASE Finish
  BY <1>4, ScopeFixed DEF Finish
<1>5. CASE UNCHANGED vars
  BY <1>5, ScopeFixed DEF vars
<1> QED
  BY <1>1, <1>2, <1>3, <1>4, <1>5 DEF Next, Replies
-----------------------------------------------------------------------------
\* A link to follow is entered when its page is answered, and its entry leaves
\* the frontier only when the URL has been fetched.
LEMMA CoverStep ==
  TypeOK /\ HeldInv /\ CoverInv /\ [Next]_vars => CoverInv'
<1> SUFFICES ASSUME TypeOK, HeldInv, CoverInv, [Next]_vars PROVE CoverInv'
  OBVIOUS
<1> USE DEF CoverInv
<1>1. CASE Take
  <2>1. PICK e \in frontier :
          /\ frontier' = frontier \ {e}
          /\ UNCHANGED <<request, held>>
          /\ \/ e.url \in visited /\ UNCHANGED <<visited, depthOf>>
             \/ /\ e.url \notin visited /\ visited' = visited \cup {e.url}
                /\ depthOf' = [depthOf EXCEPT ![e.url] = e.depth]
    BY <1>1, TakeCases
  <2>2. \A u : Eligible(u)' <=> Eligible(u)
    BY <2>1, ScopeFixed
  <2>3. e.url \in visited'
    BY <2>1
  <2>4. e.url \in Urls
    BY DEF TypeOK, Entry
  <2>5. ASSUME NEW p \in visited', depthOf'[p] < MaxDepth, NEW u \in held[p], Eligible(u)
        PROVE  u \in visited' \/ \E f \in frontier' : f.url = u
    <3>1. p \in visited /\ depthOf'[p] = depthOf[p]
      BY <2>1, <2>4, <2>5 DEF HeldInv, TypeOK
    <3>2. u \in visited \/ \E f \in frontier : f.url = u
      BY <3>1, <2>5
    <3>3. QED
      BY <3>2, <2>1, <2>3
  <2>6. QED
    BY <2>5, <2>1, <2>2
<1>2. ASSUME NEW ok \in BOOLEAN, NEW signal \in BOOLEAN, NEW links \in Pages,
             FetchReply(ok, signal, links)
      PROVE  CoverInv'
  <2>1. /\ UNCHANGED <<request, visited, depthOf>> /\ frontier \subseteq frontier'
        /\ page.url \in visited /\ page.depth = depthOf[page.url] /\ visited \subseteq Urls
    BY <1>2 DEF FetchReply, TypeOK
  <2>2. \A u : Eligible(u)' <=> Eligible(u)
    BY <2>1, ScopeFixed
  <2>3. ASSUME page.depth < MaxDepth, NEW u \in held'[page.url], Eligible(u), u \notin visited
        PROVE  \E f \in frontier' : f.url = u
    <3>1. ok /\ u \in links /\ frontier' = frontier \cup Found(links)
      BY <1>2, <2>3, <2>1 DEF FetchReply, HeldInv, TypeOK
    <3>2. EntryFor(u) \in Found(links) /\ EntryFor(u).url = u
      BY <3>1, <2>3 DEF Found, EntryFor
    <3>3. QED
      BY <3>1, <3>2
  <2>4. \A p \in visited : p # page.url => held'[p] = held[p]
    BY <1>2 DEF FetchReply, TypeOK
  <2>5. ASSUME NEW p \in visited, depthOf[p] < MaxDepth, NEW u \in held'[p], Eligible(u)
        PROVE  u \in visited \/ \E f \in frontier' : f.url = u
    BY <2>5, <2>1, <2>3, <2>4
  <2>6. QED
    BY <2>5, <2>1, <2>2
<1>3. CASE FetchRaises
  BY <1>3, ScopeFixed DEF FetchRaises
<1>4. CASE Finish
  BY <1>4, ScopeFixed DEF Finish
<1>5. CASE UNCHANGED vars
  BY <1>5, ScopeFixed DEF vars
<1> QED
  BY <1>1, <1>2, <1>3, <1>4, <1>5 DEF Next, Replies
-----------------------------------------------------------------------------
LEMMA SeedStep == TypeOK /\ EntryInv /\ SeedInv /\ [Next]_vars => SeedInv'
<1> SUFFICES ASSUME TypeOK, EntryInv, SeedInv, [Next]_vars PROVE SeedInv'
  OBVIOUS
<1> USE DEF SeedInv
<1>1. CASE Take
  <2>1. PICK e \in frontier :
          /\ frontier' = frontier \ {e}
          /\ \/ e.url \in visited /\ UNCHANGED <<page, visited, depthOf, at>>
             \/ /\ e.url \notin visited
                /\ page' = e /\ visited' = visited \cup {e.url} /\ at' = "fetching"
                /\ depthOf' = [depthOf EXCEPT ![e.url] = e.depth]
          /\ at = "loop"
    BY <1>1, TakeCases
  <2>2. e.url \in Urls /\ Seed \in Urls
    BY SeedAssumption DEF TypeOK, Entry
  <2>3. CASE Seed \notin visited
    <3>1. e = Start /\ e.url = Seed /\ e.depth = 0 /\ frontier' = {}
      BY <2>1, <2>3 DEF Start
    <3>2. QED
      BY <3>1, <2>1, <2>2, <2>3 DEF TypeOK
  <2>4. CASE Seed \in visited
    BY <2>1, <2>2, <2>4 DEF TypeOK
  <2>5. QED
    BY <2>3, <2>4
<1>2. ASSUME NEW ok \in BOOLEAN, NEW signal \in BOOLEAN, NEW links \in Pages,
             FetchReply(ok, signal, links)
      PROVE  SeedInv'
  <2>1. UNCHANGED <<visited, depthOf, page>> /\ at = "fetching" /\ at' = "loop"
    BY <1>2 DEF FetchReply
  <2>2. ASSUME NEW e \in frontier', e \notin frontier
        PROVE  e # Start
    <3>1. e.depth = page.depth + 1 /\ page.depth \in Nat
      BY <1>2, <2>2, LimitAssumption DEF FetchReply, Found, EntryFor, TypeOK, Entry
    <3>2. QED
      BY <3>1 DEF Start
  <2>3. QED
    BY <2>1, <2>2
<1>3. CASE FetchRaises
  BY <1>3 DEF FetchRaises
<1>4. CASE Finish
  BY <1>4, LimitAssumption, FS_EmptySet DEF Finish, TypeOK
<1>5. CASE UNCHANGED vars
  BY <1>5 DEF vars
<1> QED
  BY <1>1, <1>2, <1>3, <1>4, <1>5 DEF Next, Replies

\* A reply adds entries as old as the number of pages fetched.
LEMMA AgeStepReply ==
  ASSUME TypeOK, HeldInv, DoneInv, SeedInv, AgeInv,
         NEW ok \in BOOLEAN, NEW signal \in BOOLEAN, NEW links \in Pages,
         FetchReply(ok, signal, links)
  PROVE  AgeInv'
<1> USE DEF AgeInv
<1>1. /\ UNCHANGED <<request, visited, page, depthOf>> /\ at' = "loop" /\ at = "fetching"
      /\ page.url \in visited /\ page.depth = depthOf[page.url] /\ page.depth \in Nat
      /\ frontier \subseteq frontier' /\ Seed \in visited /\ visited \subseteq Urls
  BY LimitAssumption DEF FetchReply, TypeOK, SeedInv, Entry
<1>2. \A u : Eligible(u)' <=> Eligible(u)
  BY <1>1, ScopeFixed
<1>3. ASSUME NEW e \in frontier', e.depth > 1 PROVE e.found >= 2
  <2>1. CASE e \in frontier
    BY <2>1, <1>3
  <2>2. CASE e \notin frontier
    <3>1. e.depth = page.depth + 1 /\ e.found = Cardinality(visited)
      BY <1>2, <2>2 DEF FetchReply, Found, EntryFor
    <3>2. page.url # Seed
      BY <3>1, <1>1, <1>3 DEF SeedInv
    <3>3. QED
      BY <3>1, <3>2, <1>1
  <2>3. QED
    BY <2>1, <2>2
<1>4. ASSUME MaxDepth > 0, NEW u \in held'[Seed], Eligible(u), u \notin visited
      PROVE  \E e \in frontier' : e.url = u /\ e.depth = 1 /\ e.found <= 1
  <2>1. CASE page.url = Seed
    <3>1. page.depth = 0 /\ visited = {Seed}
      BY <2>1, <1>1 DEF SeedInv
    <3>2. Cardinality(visited) = 1
      BY <3>1, FS_Singleton
    <3>3. u \in links /\ ok
      BY <2>1, <1>4, <1>1 DEF FetchReply, HeldInv, TypeOK
    <3>4. EntryFor(u) \in Found(links)
      BY <3>3, <1>4 DEF Found
    <3>5. frontier' = frontier \cup Found(links)
      BY <3>1, <3>3, <1>4 DEF FetchReply
    <3>6. EntryFor(u).url = u /\ EntryFor(u).depth = 1 /\ EntryFor(u).found <= 1
      BY <3>1, <3>2 DEF EntryFor
    <3>7. QED
      BY <3>4, <3>5, <3>6
  <2>2. CASE page.url # Seed
    <3>1. u \in held[Seed]
      BY <2>2, <1>4 DEF FetchReply, TypeOK
    <3>2. QED
      BY <3>1, <1>4, <1>1
  <2>3. QED
    BY <2>1, <2>2
<1>5. ASSUME MaxDepth > 0, NEW u \in held'[Seed], Eligible(u), u \in visited
      PROVE  depthOf[u] <= 1
  <2>1. CASE page.url = Seed
    <3>1. u = Seed /\ depthOf[u] = 0
      BY <2>1, <1>1, <1>5 DEF SeedInv
    <3>2. QED
      BY <3>1
  <2>2. CASE page.url # Seed
    <3>1. u \in held[Seed]
      BY <2>2, <1>5 DEF FetchReply, TypeOK
    <3>2. QED
      BY <3>1, <1>5
  <2>3. QED
    BY <2>1, <2>2
<1>6. QED
  BY <1>1, <1>2, <1>3, <1>4, <1>5

\* A link of the seed's page is fetched at depth 1: as long as its first entry is
\* there, stable sorting keeps every deeper entry for the same URL behind it.
LEMMA AgeStepTake ==
  ASSUME TypeOK, HeldInv, DoneInv, SeedInv, AgeInv, Take
  PROVE  AgeInv'
<1> USE DEF AgeInv
<1>1. PICK e \in frontier :
        /\ First(e) /\ at = "loop"
        /\ frontier' = frontier \ {e}
        /\ UNCHANGED <<request, held>>
        /\ \/ e.url \in visited /\ UNCHANGED <<page, visited, depthOf, at>>
           \/ /\ e.url \notin visited
              /\ page' = e /\ visited' = visited \cup {e.url} /\ at' = "fetching"
              /\ depthOf' = [depthOf EXCEPT ![e.url] = e.depth]
  BY TakeCases
<1>2. \A u : Eligible(u)' <=> Eligible(u)
  BY <1>1, ScopeFixed
<1>3. \A f \in frontier : f.url \in Urls /\ f.depth \in Nat /\ f.found \in Nat
  BY LimitAssumption DEF TypeOK, Entry
<1>4. /\ Cardinality(visited) \in Nat
      /\ visited # {} => Cardinality(visited) >= 1
      /\ e.url \notin visited => Cardinality(visited \cup {e.url}) = Cardinality(visited) + 1
  BY Counted DEF DoneInv
<1>5. Seed \in visited' => Cardinality(visited') >= 1
  <2>1. CASE visited' = visited
    BY <2>1
  <2>2. CASE e.url \notin visited /\ visited' = visited \cup {e.url}
    BY <2>2, <1>4
  <2>3. QED
    BY <2>1, <2>2, <1>1
<1>6. at' = "fetching" /\ page'.url # Seed => Cardinality(visited') >= 2
  <2>1. SUFFICES ASSUME e.url \notin visited, e.url # Seed
                 PROVE  Cardinality(visited \cup {e.url}) >= 2
    BY <1>1
  <2>2. Seed \in visited
    BY <2>1 DEF SeedInv, Start
  <2>3. QED
    BY <2>1, <2>2, <1>4
<1>7. ASSUME MaxDepth > 0, NEW u \in held[Seed], Eligible(u)
      PROVE  IF u \in visited' THEN depthOf'[u] <= 1
             ELSE \E f \in frontier' : f.url = u /\ f.depth = 1 /\ f.found <= 1
  <2>1. CASE u \in visited
    <3>1. depthOf'[u] = depthOf[u] /\ u \in visited'
      BY <1>1, <1>3, <2>1 DEF TypeOK
    <3>2. QED
      BY <3>1, <1>7, <2>1
  <2>2. CASE u \notin visited
    <3>1. PICK f \in frontier : f.url = u /\ f.depth = 1 /\ f.found <= 1
      BY <1>7, <2>2
    <3>2. CASE e.url = u
      <4>1. e.found <= f.found
        BY <3>1, <3>2, <1>1, <1>3, UrlAssumption DEF First, Before
      <4>2. e.depth <= 1
        BY <4>1, <3>1, <1>3
      <4>3. u \in visited' /\ depthOf'[u] = e.depth
        BY <1>1, <1>3, <3>2, <2>2 DEF TypeOK
      <4>4. QED
        BY <4>2, <4>3
    <3>3. CASE e.url # u
      <4>1. u \notin visited' /\ f \in frontier'
        BY <1>1, <3>1, <3>3, <2>2
      <4>2. QED
        BY <4>1, <3>1
    <3>4. QED
      BY <3>2, <3>3
  <2>3. QED
    BY <2>1, <2>2
<1>8. QED
  BY <1>1, <1>2, <1>5, <1>6, <1>7

LEMMA AgeStep ==
  TypeOK /\ HeldInv /\ DoneInv /\ SeedInv /\ AgeInv /\ [Next]_vars => AgeInv'
<1> SUFFICES ASSUME TypeOK, HeldInv, DoneInv, SeedInv, AgeInv, [Next]_vars PROVE AgeInv'
  OBVIOUS
<1>1. CASE Take
  BY <1>1, AgeStepTake
<1>2. CASE Replies
  BY <1>2, AgeStepReply DEF Replies
<1>3. CASE FetchRaises
  BY <1>3, ScopeFixed DEF FetchRaises, AgeInv
<1>4. CASE Finish
  BY <1>4, ScopeFixed DEF Finish, AgeInv
<1>5. CASE UNCHANGED vars
  BY <1>5, ScopeFixed DEF vars, AgeInv
<1> QED
  BY <1>1, <1>2, <1>3, <1>4, <1>5 DEF Next
-----------------------------------------------------------------------------
LEMMA InitInv == Init => IInv
<1> SUFFICES ASSUME Init PROVE IInv
  OBVIOUS
<1> USE DEF Init, Start
<1>1. TypeOK
  BY SeedAssumption, LimitAssumption DEF TypeOK, Entry
<1>2. EntryInv /\ HeldInv /\ CoverInv /\ SeedInv /\ ScopeKept
  BY SeedAssumption DEF EntryInv, HeldInv, CoverInv, SeedInv, ScopeKept
<1>3. DoneInv
  BY FS_EmptySet DEF DoneInv
<1>4. AgeInv
  BY SeedAssumption DEF AgeInv
<1> QED
  BY <1>1, <1>2, <1>3, <1>4 DEF IInv

\* The inductive invariant of a crawl.
THEOREM Invariance == Spec => []IInv
<1>1. IInv /\ [Next]_vars => IInv'
  BY TypeStep, DoneStep, HeldStep, ScopeStep, CoverStep, SeedStep, AgeStep DEF IInv
<1> QED
  BY <1>1, InitInv, PTL DEF Spec

\* TypeOK: the types of a crawl's state, an entry never lying too deep.
THEOREM TypeCorrect == Spec => []TypeOK
<1>1. IInv => TypeOK
  BY DEF IInv
<1> QED
  BY <1>1, Invariance, PTL

\* ScopeKept: whatever pages link to and redirect to, only URLs of the crawl's
\* scope are fetched, each one step from a page that links to it.
THEOREM StaysInScope == Spec => []ScopeKept
<1>1. IInv => ScopeKept
  BY DEF IInv
<1> QED
  BY <1>1, Invariance, PTL

LEMMA RanOutEmpty == IInv /\ RanOut => frontier = {} /\ Seed \in visited
<1> SUFFICES ASSUME IInv, RanOut PROVE frontier = {} /\ Seed \in visited
  OBVIOUS
<1>1. IsFiniteSet(results)
  BY FS_Subset DEF IInv, DoneInv, TypeOK
<1>2. Cardinality(results) \in Nat
  BY <1>1, FS_CardinalityType
<1>3. frontier = {}
  BY <1>2, LimitAssumption DEF IInv, DoneInv, RanOut
<1> QED
  BY <1>3 DEF IInv, SeedInv

\* NothingLeftOut: a crawl that ran out of links has followed them all.
THEOREM FollowsEverything == Spec => []NothingLeftOut
<1>1. IInv => NothingLeftOut
  BY RanOutEmpty DEF IInv, CoverInv, NothingLeftOut
<1> QED
  BY <1>1, Invariance, PTL

\* ReachesAll: with a depth of at most 2, its default, taking the best page first
\* loses nothing that a breadth-first crawl would have found.
THEOREM DetoursLoseNothing ==
  ASSUME MaxDepth <= 2
  PROVE  Spec => []ReachesAll
<1>0. MaxDepth \in 0 .. 2
  BY LimitAssumption
<1>1. ASSUME IInv, RanOut, NEW u \in Within(MaxDepth)
      PROVE  u \in visited
  <2>1. Seed \in visited /\ depthOf[Seed] = 0 /\ frontier = {}
    BY <1>1, RanOutEmpty DEF IInv, SeedInv
  <2>2. \A p \in visited : depthOf[p] < MaxDepth =>
          \A v \in held[p] : Eligible(v) => v \in visited
    BY <1>1, <2>1 DEF IInv, CoverInv
  <2>3. MaxDepth > 0 => \A v \in held[Seed] : Eligible(v) => v \in visited /\ depthOf[v] <= 1
    BY <1>1, <2>1 DEF IInv, AgeInv
  <2>4. PICK k \in 0 .. MaxDepth : \E path \in [0 .. k -> Urls] :
          /\ path[0] = Seed /\ path[k] = u
          /\ \A i \in 1 .. k : path[i] \in held[path[i - 1]] /\ Eligible(path[i])
    BY <1>1 DEF Within
  <2>5. PICK path \in [0 .. k -> Urls] :
          /\ path[0] = Seed /\ path[k] = u
          /\ \A i \in 1 .. k : path[i] \in held[path[i - 1]] /\ Eligible(path[i])
    BY <2>4
  <2>6. k \in 0 .. 2 /\ k <= MaxDepth
    BY <1>0
  <2>7. CASE k = 0
    BY <2>7, <2>5, <2>1
  <2>8. CASE k = 1
    <3>1. 1 \in 1 .. k /\ 1 - 1 = 0
      BY <2>8
    <3>2. u \in held[Seed] /\ Eligible(u)
      BY <2>5, <2>8, <3>1
    <3>3. QED
      BY <1>0, <3>2, <2>3, <2>6, <2>8
  <2>9. CASE k = 2
    <3>1. 1 \in 1 .. k /\ 1 - 1 = 0 /\ 2 \in 1 .. k /\ 2 - 1 = 1
      BY <2>9
    <3>2. path[1] \in held[Seed] /\ Eligible(path[1]) /\ u \in held[path[1]] /\ Eligible(u)
      BY <2>5, <2>9, <3>1
    <3>3. path[1] \in visited /\ depthOf[path[1]] <= 1
      BY <1>0, <3>2, <2>3, <2>6, <2>9
    <3>4. path[1] \in Urls /\ depthOf[path[1]] \in 0 .. MaxDepth
      BY <2>5, <2>9, <1>1 DEF IInv, TypeOK
    <3>5. depthOf[path[1]] < MaxDepth
      BY <1>0, <3>3, <3>4, <2>6, <2>9
    <3>6. QED
      BY <3>2, <3>3, <3>5, <2>2
  <2>10. QED
    BY <2>6, <2>7, <2>8, <2>9
<1>2. IInv => ReachesAll
  BY <1>1 DEF ReachesAll
<1> QED
  BY <1>2, Invariance, PTL

\* NeverRefetched: no URL is fetched a second time.
THEOREM FetchedOnce == Spec => NeverRefetched
<1>1. [Next]_vars => [at' = "fetching" /\ at # "fetching" => page'.url \notin visited]_vars
  BY TakeCases DEF Next, Replies, FetchReply, FetchRaises, Finish, vars
<1> QED
  BY <1>1, PTL DEF Spec, NeverRefetched
=============================================================================
