------------------------- MODULE BridgeToolsProofs -------------------------
(* The slug cache's promises, for any callers, boards, lifetime and         *)
(* timeout; what ticket_get promises of every ticket, under any budget and  *)
(* whatever a result costs in bytes; what review_queue promises while cards *)
(* move; and that a creation which is sent again creates once.              *)
EXTENDS BridgeTools, FiniteSetTheorems, WellFoundedInduction, TLAPS

----------------------------------------------------------------------------
(* The slug cache *)

\* Whoever asks, asks for a board, and only the mutex's holder fetches, over a set that is
\* not fresh.
Exclusive ==
  \A c \in Callers : /\ ask[c].at # "none" => ask[c].board \in Boards
                     /\ Fetching(c) => mutex = c /\ ~Fresh

\* A board that the cached set, or an answer on its way, has wrong has changed since.
Agrees(b, slugs) == b \in slugs <=> b \in active
CacheAgrees == \A b \in Boards : Fresh => Agrees(b, cache.slugs) \/ since[b] <= cache.age + MaxFetch
ReplyAgrees ==
  \A c \in Callers, b \in Boards :
    ask[c].at = "listed" => Agrees(b, ask[c].reply) \/ since[b] <= ask[c].took

CacheInv == CacheTypeOK /\ Exclusive /\ CacheAgrees /\ ReplyAgrees

LEMMA CacheInvInit == CacheInit => CacheInv
  BY CacheAssumption
     DEF CacheInit, CacheInv, CacheTypeOK, Exclusive, CacheAgrees, ReplyAgrees, Asks, NoAsk, Fetching, Fresh, Verdicts, Long

\* What each step does to one caller's ask: the others' stay.
Others(c) == \A d \in Callers \ {c} : ask'[d] = ask[d]

\* A new ask of one caller.
LEMMA AskSet ==
  ASSUME CacheTypeOK, NEW c \in Callers, NEW r \in Asks, ask' = [ask EXCEPT ![c] = r]
  PROVE  ask' \in [Callers -> Asks] /\ Others(c) /\ ask'[c] = r
BY DEF CacheTypeOK, Others

\* A step of a caller, seen as a change of its own ask.
LEMMA EnsureStep ==
  ASSUME CacheTypeOK, NEW c \in Callers, NEW b \in Boards, Ensure(c, b)
  PROVE  ask' \in [Callers -> Asks] /\ Others(c) /\ ask'[c].at = "waiting" /\ ask'[c].board = b
<1> DEFINE r == [at |-> "waiting", board |-> b, reply |-> {}, took |-> 0]
<1>1. r \in Asks
  BY CacheAssumption DEF Asks, Verdicts
<1>2. ask' = [ask EXCEPT ![c] = r]
  BY DEF Ensure
<1>3. r.at = "waiting" /\ r.board = b
  OBVIOUS
<1> HIDE DEF r
<1> QED
  BY <1>1, <1>2, <1>3, AskSet

LEMMA CallerStep ==
  ASSUME CacheTypeOK, NEW c \in Callers
  PROVE  /\ Hit(c) => /\ ask' \in [Callers -> Asks] /\ Others(c) /\ ask'[c].board = ask[c].board
                      /\ ask'[c].at = Verdict(ask[c].board, cache.slugs)
         /\ Miss(c) => ask' \in [Callers -> Asks] /\ Others(c) /\ ask'[c].board = ask[c].board /\ ask'[c].at = "listing"
         /\ Listed(c) => /\ ask' \in [Callers -> Asks] /\ Others(c) /\ ask'[c].board = ask[c].board
                         /\ ask'[c].at = "listed" /\ ask'[c].reply = active
         /\ Stored(c) => /\ ask' \in [Callers -> Asks] /\ Others(c) /\ ask'[c].board = ask[c].board
                         /\ ask'[c].at = Verdict(ask[c].board, ask[c].reply)
         /\ ListFails(c) => ask' \in [Callers -> Asks] /\ Others(c) /\ ask'[c].board = ask[c].board /\ ask'[c].at = "failed"
         /\ \A V : Settled(c, V) => ask' \in [Callers -> Asks] /\ Others(c) /\ ask'[c].at = "none"
<1> USE CacheAssumption DEF CacheTypeOK, Asks, Others, Verdicts
<1>2. Hit(c) => /\ ask' \in [Callers -> Asks] /\ Others(c) /\ ask'[c].board = ask[c].board
                /\ ask'[c].at = Verdict(ask[c].board, cache.slugs)
  BY DEF Hit, Verdict
<1>3. Miss(c) => ask' \in [Callers -> Asks] /\ Others(c) /\ ask'[c].board = ask[c].board /\ ask'[c].at = "listing"
  BY DEF Miss
<1>4. Listed(c) => /\ ask' \in [Callers -> Asks] /\ Others(c) /\ ask'[c].board = ask[c].board
                   /\ ask'[c].at = "listed" /\ ask'[c].reply = active
  <2> DEFINE r == [at |-> "listed", board |-> ask[c].board, reply |-> active, took |-> ask[c].took]
  <2>1. ask[c] \in Asks /\ active \subseteq Boards
    OBVIOUS
  <2>2. r \in Asks
    BY <2>1
  <2>3. Listed(c) => ask' = [ask EXCEPT ![c] = r]
    BY <2>1, ZenonT(40) DEF Listed
  <2>4. r.at = "listed" /\ r.board = ask[c].board /\ r.reply = active
    OBVIOUS
  <2> HIDE DEF r
  <2> QED
    BY <2>2, <2>3, <2>4, AskSet
<1>5. Stored(c) => /\ ask' \in [Callers -> Asks] /\ Others(c) /\ ask'[c].board = ask[c].board
                   /\ ask'[c].at = Verdict(ask[c].board, ask[c].reply)
  BY DEF Stored, Verdict
<1>6. ListFails(c) => ask' \in [Callers -> Asks] /\ Others(c) /\ ask'[c].board = ask[c].board /\ ask'[c].at = "failed"
  BY DEF ListFails
<1>7. \A V : Settled(c, V) => ask' \in [Callers -> Asks] /\ Others(c) /\ ask'[c].at = "none"
  BY DEF Settled, NoAsk
<1> QED
  BY <1>2, <1>3, <1>4, <1>5, <1>6, <1>7

\* A tick: everything that has an age grows older by one.
LEMMA TickAges ==
  ASSUME CacheTypeOK, Tick
  PROVE  /\ ask' \in [Callers -> Asks] /\ since' \in [Boards -> 0..Long]
         /\ active' = active /\ mutex' = mutex
         /\ cache' \in [loaded : BOOLEAN, slugs : SUBSET Boards, age : 0..TTL]
         /\ cache'.loaded = cache.loaded /\ cache'.slugs = cache.slugs
         /\ cache'.age = IF cache.age < TTL THEN cache.age + 1 ELSE TTL
         /\ \A b \in Boards : since[b] \in Nat /\ since'[b] \in Nat /\ since'[b] <= since[b] + 1
         /\ \A c \in Callers : /\ ask'[c].at = ask[c].at /\ ask'[c].board = ask[c].board
                               /\ ask'[c].reply = ask[c].reply /\ ask[c].took \in Nat
                               /\ Fetching(c) => ask'[c].took = ask[c].took + 1
<1> USE CacheAssumption DEF CacheTypeOK, Tick
<1>1. /\ since' \in [Boards -> 0..Long]
      /\ \A b \in Boards : since[b] \in Nat /\ since'[b] \in Nat /\ since'[b] <= since[b] + 1
  BY DEF UpTo, Long
<1>2. /\ cache' \in [loaded : BOOLEAN, slugs : SUBSET Boards, age : 0..TTL]
      /\ cache'.loaded = cache.loaded /\ cache'.slugs = cache.slugs
      /\ cache'.age = IF cache.age < TTL THEN cache.age + 1 ELSE TTL
  BY DEF UpTo
<1>3. \A c \in Callers : /\ ask'[c] \in Asks /\ ask'[c].at = ask[c].at /\ ask'[c].board = ask[c].board
                         /\ ask'[c].reply = ask[c].reply /\ ask[c].took \in Nat
                         /\ Fetching(c) => ask'[c].took = ask[c].took + 1
  <2> TAKE c \in Callers
  <2>1. ask[c] \in Asks
    OBVIOUS
  <2>2. CASE Fetching(c)
    <3>1. ask'[c] = [ask[c] EXCEPT !.took = @ + 1] /\ ask[c].took < MaxFetch
      BY <2>2
    <3> QED
      BY <2>1, <3>1 DEF Asks
  <2>3. CASE ~Fetching(c)
    <3>1. ask'[c] = ask[c]
      BY <2>3
    <3> QED
      BY <2>1, <2>3, <3>1 DEF Asks
  <2> QED
    BY <2>2, <2>3
<1>4. ask' \in [Callers -> Asks]
  BY <1>3
<1> QED
  BY <1>1, <1>2, <1>3, <1>4

\* A caller's step that leaves the cached set alone keeps the invariant when it takes the
\* mutex from nobody and is told what the backend lists.
LEMMA CallerKeeps ==
  ASSUME CacheInv, NEW c \in Callers, Others(c), ask' \in [Callers -> Asks],
         active' = active, since' = since, cache' = cache,
         mutex' \in Callers \cup {None}, mutex' = mutex \/ mutex = None \/ mutex = c,
         ask'[c].at # "none" => ask'[c].board \in Boards,
         ask'[c].at \in {"listing", "listed"} => mutex' = c /\ ~Fresh,
         ask'[c].at = "listed" => \A b \in Boards : Agrees(b, ask'[c].reply)
  PROVE  CacheInv'
<1> USE CacheAssumption DEF CacheInv, Others
<1>1. CacheTypeOK'
  BY DEF CacheTypeOK
<1>2. Exclusive'
  <2> SUFFICES ASSUME NEW d \in Callers
               PROVE  /\ ask'[d].at # "none" => ask'[d].board \in Boards
                      /\ ask'[d].at \in {"listing", "listed"} => mutex' = d /\ ~Fresh
    BY DEF Exclusive, Fetching, Fresh
  <2>1. CASE d = c
    BY <2>1
  <2>2. CASE d # c
    BY <2>2 DEF Exclusive, Fetching
  <2> QED
    BY <2>1, <2>2
<1>3. CacheAgrees'
  BY DEF CacheAgrees, Agrees, Fresh
<1>4. ReplyAgrees'
  <2> SUFFICES ASSUME NEW d \in Callers, NEW b \in Boards, ask'[d].at = "listed"
               PROVE  Agrees(b, ask'[d].reply) \/ since[b] <= ask'[d].took
    BY DEF ReplyAgrees, Agrees
  <2>1. CASE d = c
    BY <2>1
  <2>2. CASE d # c
    BY <2>2 DEF ReplyAgrees
  <2> QED
    BY <2>1, <2>2
<1> QED
  BY <1>1, <1>2, <1>3, <1>4

\* Time keeps the invariant: the age of a change grows no faster than the set's.
LEMMA TickKeeps ==
  ASSUME CacheInv, Tick
  PROVE  CacheInv'
<1> USE CacheAssumption DEF CacheInv
<1>0. /\ mutex' = mutex
      /\ \A b \in Boards : since[b] \in Nat /\ since'[b] \in Nat /\ since'[b] <= since[b] + 1
      /\ \A c \in Callers : /\ ask'[c].at = ask[c].at /\ ask'[c].board = ask[c].board
                            /\ ask'[c].reply = ask[c].reply /\ ask[c].took \in Nat
                            /\ Fetching(c) => ask'[c].took = ask[c].took + 1
  BY TickAges
<1>1. CacheTypeOK'
  BY TickAges DEF CacheTypeOK
<1>2. cache.age \in Nat /\ (Fresh' => Fresh) /\ cache'.slugs = cache.slugs /\ (Fresh => cache'.age = cache.age + 1)
  BY TickAges DEF CacheTypeOK, Fresh
<1>3. Exclusive'
  <2> SUFFICES ASSUME NEW c \in Callers
               PROVE  /\ ask'[c].at # "none" => ask'[c].board \in Boards
                      /\ ask'[c].at \in {"listing", "listed"} => mutex' = c /\ ~Fresh'
    BY DEF Exclusive, Fetching
  <2>1. ask'[c].at = ask[c].at /\ ask'[c].board = ask[c].board /\ mutex' = mutex
    BY <1>0
  <2> QED
    BY <2>1, <1>2 DEF Exclusive, Fetching
<1>4. CacheAgrees'
  <2> SUFFICES ASSUME NEW b \in Boards, Fresh'
               PROVE  Agrees(b, cache.slugs) \/ since'[b] <= cache'.age + MaxFetch
    BY <1>2, TickAges DEF CacheAgrees, Agrees
  <2>1. Agrees(b, cache.slugs) \/ since[b] <= cache.age + MaxFetch
    BY <1>2 DEF CacheAgrees
  <2>2. since[b] \in Nat /\ since'[b] \in Nat /\ since'[b] <= since[b] + 1
    BY TickAges
  <2> QED
    BY <1>2, <2>1, <2>2
<1>5. ReplyAgrees'
  <2> SUFFICES ASSUME NEW c \in Callers, NEW b \in Boards, ask'[c].at = "listed"
               PROVE  Agrees(b, ask'[c].reply) \/ since'[b] <= ask'[c].took
    BY TickAges DEF ReplyAgrees, Agrees
  <2>1. /\ ask'[c].at = ask[c].at /\ ask'[c].reply = ask[c].reply /\ ask[c].took \in Nat
        /\ Fetching(c) => ask'[c].took = ask[c].took + 1
    BY <1>0
  <2>2. since[b] \in Nat /\ since'[b] \in Nat /\ since'[b] <= since[b] + 1
    BY <1>0
  <2>3. Agrees(b, ask[c].reply) \/ since[b] <= ask[c].took
    BY <2>1 DEF ReplyAgrees
  <2> QED
    BY <2>1, <2>2, <2>3 DEF Fetching
<1> QED
  BY <1>1, <1>3, <1>4, <1>5

\* A board that comes or goes keeps it: the change is new.
LEMMA FlipKeeps ==
  ASSUME CacheInv, NEW b \in Archivable, Flip(b)
  PROVE  CacheInv'
<1> USE CacheAssumption DEF CacheInv
<1>1. active' \subseteq Boards /\ since' \in [Boards -> 0..Long] /\ b \in Boards /\ since'[b] = 0
  BY DEF Flip, CacheTypeOK, Long
<1>2. \A d \in Boards : d # b => since'[d] = since[d] /\ (d \in active' <=> d \in active)
  BY DEF Flip, CacheTypeOK
<1>3. cache' = cache /\ mutex' = mutex /\ ask' = ask
  BY DEF Flip
<1>4. cache.age \in Nat /\ \A c \in Callers : ask[c].took \in Nat
  BY DEF CacheTypeOK, Asks
<1>5. CacheTypeOK' /\ Exclusive'
  BY <1>1, <1>3 DEF CacheTypeOK, Exclusive, Fetching, Fresh
<1>6. CacheAgrees'
  BY <1>1, <1>2, <1>3, <1>4 DEF CacheAgrees, Agrees, Fresh
<1>7. ReplyAgrees'
  BY <1>1, <1>2, <1>3, <1>4 DEF ReplyAgrees, Agrees
<1> QED
  BY <1>5, <1>6, <1>7

\* A stored list keeps it: what it has wrong changed while it was on its way.
LEMMA StoredKeeps ==
  ASSUME CacheInv, NEW c \in Callers, Stored(c)
  PROVE  CacheInv'
<1> USE CacheAssumption DEF CacheInv
<1>1. /\ ask' \in [Callers -> Asks] /\ Others(c) /\ ask'[c].board = ask[c].board
      /\ ask'[c].at \in {"known", "unknown"} /\ ask[c].at = "listed"
  BY CallerStep DEF Stored, Verdict
<1>2. ask[c] \in Asks
  BY DEF CacheTypeOK
<1>3. /\ cache' = [loaded |-> TRUE, slugs |-> ask[c].reply, age |-> 0]
      /\ mutex' = None /\ active' = active /\ since' = since
  BY DEF Stored, World
<1>4. ask[c].reply \subseteq Boards /\ ask[c].took \in 0..MaxFetch
  BY <1>2 DEF Asks
<1>5. \A d \in Callers : d # c => ask'[d] = ask[d] /\ ~Fetching(d)
  BY <1>1 DEF Others, Exclusive, Fetching
<1>6. CacheTypeOK'
  BY <1>1, <1>3, <1>4 DEF CacheTypeOK
<1>7. Exclusive'
  <2> SUFFICES ASSUME NEW d \in Callers
               PROVE  /\ ask'[d].at # "none" => ask'[d].board \in Boards
                      /\ ~(ask'[d].at \in {"listing", "listed"})
    BY DEF Exclusive, Fetching
  <2>1. CASE d = c
    BY <1>1, <2>1 DEF Exclusive
  <2>2. CASE d # c
    BY <1>5, <2>2 DEF Exclusive, Fetching
  <2> QED
    BY <2>1, <2>2
<1>8. CacheAgrees'
  <2> SUFFICES ASSUME NEW b \in Boards
               PROVE  Agrees(b, ask[c].reply) \/ since[b] <= MaxFetch
    BY <1>3 DEF CacheAgrees, Agrees
  <2>1. since[b] \in Nat
    BY DEF CacheTypeOK, Long
  <2>2. Agrees(b, ask[c].reply) \/ since[b] <= ask[c].took
    BY <1>1 DEF ReplyAgrees
  <2> QED
    BY <1>4, <2>1, <2>2
<1>9. ReplyAgrees'
  <2> SUFFICES ASSUME NEW d \in Callers
               PROVE  ask'[d].at # "listed"
    BY DEF ReplyAgrees
  <2> QED
    BY <1>1, <1>5 DEF Fetching
<1> QED
  BY <1>6, <1>7, <1>8, <1>9

\* Every step of the cache, of its backend and of time keeps the invariant.
LEMMA CacheInvStep ==
  ASSUME CacheInv, [CacheNext]_cacheVars
  PROVE  CacheInv'
<1> USE CacheAssumption
<1>0. CacheTypeOK /\ mutex \in Callers \cup {None} /\ \A c \in Callers : ask[c].at # "none" => ask[c].board \in Boards
  BY DEF CacheInv, CacheTypeOK, Exclusive
<1>1. CASE UNCHANGED cacheVars
  BY <1>1 DEF cacheVars, CacheInv, CacheTypeOK, Exclusive, CacheAgrees, ReplyAgrees, Agrees, Fetching, Fresh
<1>2. CASE Tick
  BY <1>2, TickKeeps
<1>3. ASSUME NEW b \in Archivable, Flip(b)
      PROVE  CacheInv'
  BY <1>3, FlipKeeps
<1>4. ASSUME NEW c \in Callers, NEW b \in Boards, Ensure(c, b)
      PROVE  CacheInv'
  <2>1. ask' \in [Callers -> Asks] /\ Others(c) /\ ask'[c].at = "waiting" /\ ask'[c].board = b
    BY <1>0, <1>4, EnsureStep
  <2>2. active' = active /\ since' = since /\ cache' = cache /\ mutex' = mutex
    BY <1>4 DEF Ensure, World
  <2> QED
    BY <1>0, <2>1, <2>2, CallerKeeps
<1>5. ASSUME NEW c \in Callers, Hit(c)
      PROVE  CacheInv'
  <2>1. ask' \in [Callers -> Asks] /\ Others(c) /\ ask'[c].board = ask[c].board
    BY <1>0, <1>5, CallerStep
  <2>2. ask[c].at = "waiting" /\ ask'[c].at \in {"known", "unknown"}
    BY <1>0, <1>5, CallerStep DEF Hit, Verdict
  <2>3. active' = active /\ since' = since /\ cache' = cache /\ mutex' = mutex
    BY <1>5 DEF Hit, World
  <2> QED
    BY <1>0, <2>1, <2>2, <2>3, CallerKeeps
<1>6. ASSUME NEW c \in Callers, Miss(c)
      PROVE  CacheInv'
  <2>1. ask' \in [Callers -> Asks] /\ Others(c) /\ ask'[c].board = ask[c].board /\ ask'[c].at = "listing"
    BY <1>0, <1>6, CallerStep
  <2>2. ask[c].at = "waiting" /\ mutex = None /\ mutex' = c /\ ~Fresh
    BY <1>6 DEF Miss
  <2>3. active' = active /\ since' = since /\ cache' = cache
    BY <1>6 DEF Miss, World
  <2> QED
    BY <1>0, <2>1, <2>2, <2>3, CallerKeeps
<1>7. ASSUME NEW c \in Callers, Listed(c)
      PROVE  CacheInv'
  <2>1. /\ ask' \in [Callers -> Asks] /\ Others(c) /\ ask'[c].board = ask[c].board
        /\ ask'[c].at = "listed" /\ ask'[c].reply = active
    BY <1>0, <1>7, CallerStep
  <2>2. active' = active /\ since' = since /\ cache' = cache /\ mutex' = mutex /\ ask[c].at = "listing"
    BY <1>7 DEF Listed, World
  <2>3. mutex = c /\ ~Fresh
    BY <2>2 DEF CacheInv, Exclusive, Fetching
  <2> QED
    BY <1>0, <2>1, <2>2, <2>3, CallerKeeps DEF Agrees
<1>8. ASSUME NEW c \in Callers, Stored(c)
      PROVE  CacheInv'
  BY <1>8, StoredKeeps
<1>9. ASSUME NEW c \in Callers, ListFails(c)
      PROVE  CacheInv'
  <2>1. ask' \in [Callers -> Asks] /\ Others(c) /\ ask'[c].board = ask[c].board /\ ask'[c].at = "failed"
    BY <1>0, <1>9, CallerStep
  <2>2. active' = active /\ since' = since /\ cache' = cache /\ mutex' = None /\ Fetching(c)
    BY <1>9 DEF ListFails, World
  <2>3. mutex = c /\ ask[c].at # "none"
    BY <2>2 DEF CacheInv, Exclusive, Fetching
  <2> QED
    BY <1>0, <2>1, <2>2, <2>3, CallerKeeps
<1>10. ASSUME NEW c \in Callers, NEW V, Settled(c, V)
       PROVE  CacheInv'
  <2>1. ask' \in [Callers -> Asks] /\ Others(c) /\ ask'[c].at = "none"
    BY <1>0, <1>10, CallerStep
  <2>2. active' = active /\ since' = since /\ cache' = cache /\ mutex' = mutex
    BY <1>10 DEF Settled, World
  <2> QED
    BY <1>0, <2>1, <2>2, CallerKeeps
<1> QED
  BY <1>1, <1>2, <1>3, <1>4, <1>5, <1>6, <1>7, <1>8, <1>9, <1>10 DEF CacheNext

\* What is looked at is at most one lifetime and one request old.
LEMMA CacheStepIsRecent ==
  ASSUME CacheInv, [CacheNext]_cacheVars, NEW c \in Callers
  PROVE  LET b == ask[c].board IN
         /\ Decides(c, "known") => b \in active \/ since[b] < Long
         /\ Decides(c, "unknown") => b \notin active \/ since[b] < Long
<1> DEFINE Decided == ask'[c].at # ask[c].at /\ ask'[c].at \in {"known", "unknown"}
<1>0. CacheTypeOK /\ ask \in [Callers -> Asks]
  BY DEF CacheInv, CacheTypeOK
<1>1. CASE ~Decided
  BY <1>1 DEF Decides
<1>2. CASE Decided
  <2>1. \A d \in Callers \ {c} : ~Others(d)
    BY <1>2 DEF Others
  <2>2. \A d \in Callers : ~(ListFails(d) \/ Miss(d) \/ Listed(d) \/ \E V : Settled(d, V))
    <3> SUFFICES ASSUME NEW d \in Callers, ListFails(d) \/ Miss(d) \/ Listed(d) \/ \E V : Settled(d, V)
                 PROVE  FALSE
      OBVIOUS
    <3>1. CASE ListFails(d)
      BY <1>0, <1>2, <2>1, <3>1, CallerStep
    <3>2. CASE Miss(d)
      BY <1>0, <1>2, <2>1, <3>2, CallerStep
    <3>3. CASE Listed(d)
      BY <1>0, <1>2, <2>1, <3>3, CallerStep
    <3>4. CASE \E V : Settled(d, V)
      BY <1>0, <1>2, <2>1, <3>4, CallerStep
    <3> QED
      BY <3>1, <3>2, <3>3, <3>4
  <2>3. \A d \in Callers, b \in Boards : ~Ensure(d, b)
    <3> SUFFICES ASSUME NEW d \in Callers, NEW b \in Boards, Ensure(d, b)
                 PROVE  FALSE
      OBVIOUS
    <3> QED
      BY <1>0, <1>2, <2>1, EnsureStep
  <2>4. ~Tick
    <3> SUFFICES ASSUME Tick
                 PROVE  ask'[c].at = ask[c].at
      BY <1>2
    <3> QED
      BY <1>0, TickAges
  <2>5. ~(\E b \in Archivable : Flip(b)) /\ ~UNCHANGED cacheVars
    BY <1>2 DEF Flip, cacheVars
  <2>6. \A d \in Callers : Hit(d) \/ Stored(d) => d = c
    BY <1>0, <2>1, CallerStep
  <2>7. Hit(c) \/ Stored(c)
    BY <2>2, <2>3, <2>4, <2>5, <2>6 DEF CacheNext
  <2>8. CASE Hit(c)
    <3>1. ask[c].board \in Boards /\ Fresh
      BY <2>8 DEF Hit, CacheInv, Exclusive
    <3>2. ask'[c].at = Verdict(ask[c].board, cache.slugs)
      BY <1>0, <2>8, CallerStep
    <3>3. Agrees(ask[c].board, cache.slugs) \/ since[ask[c].board] <= cache.age + MaxFetch
      BY <3>1 DEF CacheInv, CacheAgrees
    <3>4. cache.age < TTL /\ cache.age \in Nat /\ since[ask[c].board] \in Nat
      <4>1. since[ask[c].board] \in 0..Long
        BY <1>0, <3>1 DEF CacheTypeOK
      <4>2. Long \in Nat
        BY CacheAssumption DEF Long
      <4>3. cache.age < TTL /\ cache.age \in Nat
        BY <1>0, <3>1, CacheAssumption DEF Fresh, CacheTypeOK
      <4> QED
        BY <4>1, <4>2, <4>3
    <3>5. Agrees(ask[c].board, cache.slugs) \/ since[ask[c].board] < Long
      BY <3>3, <3>4, CacheAssumption DEF Long
    <3> QED
      BY <3>2, <3>5 DEF Verdict, Agrees, Decides
  <2>9. CASE Stored(c)
    <3>1. ask[c].board \in Boards /\ ask[c].at = "listed" /\ ask'[c].at = Verdict(ask[c].board, ask[c].reply)
      BY <1>0, <2>9, CallerStep DEF Stored, CacheInv, Exclusive
    <3>2. Agrees(ask[c].board, ask[c].reply) \/ since[ask[c].board] <= ask[c].took
      BY <3>1 DEF CacheInv, ReplyAgrees
    <3>3. ask[c].took \in 0..MaxFetch /\ since[ask[c].board] \in Nat
      <4>1. since[ask[c].board] \in 0..Long /\ ask[c] \in Asks
        BY <1>0, <3>1 DEF CacheTypeOK
      <4>2. Long \in Nat
        BY CacheAssumption DEF Long
      <4>3. ask[c].took \in 0..MaxFetch
        BY <4>1 DEF Asks
      <4> QED
        BY <4>1, <4>2, <4>3
    <3>4. Agrees(ask[c].board, ask[c].reply) \/ since[ask[c].board] < Long
      BY <3>2, <3>3, CacheAssumption DEF Long
    <3> QED
      BY <3>1, <3>4 DEF Verdict, Agrees, Decides
  <2> QED
    BY <2>7, <2>8, <2>9
<1> QED
  BY <1>1, <1>2

\* The tools do nothing to the cache but what ensure does.
LEMMA StepIsCacheStep ==
  ASSUME [Next]_vars
  PROVE  [CacheNext]_cacheVars
<1> USE DEF CacheNext
<1>1. CASE UNCHANGED vars
  BY <1>1 DEF vars
<1>2. CASE Clock \/ \E b \in Archivable : FlipBoard(b)
  BY <1>2 DEF Clock, FlipBoard
<1>3. CASE \/ \E k \in Cards, s \in Columns : MoveCard(k, s)
           \/ \E p \in wire : KernelTakes(p)
  BY <1>3 DEF MoveCard, KernelTakes
<1>4. ASSUME NEW c \in Callers, Acquire(c) \/ Refresh(c) \/ GoesOn(c) \/ Refused(c)
      PROVE  [CacheNext]_cacheVars
  BY <1>4 DEF Acquire, Refresh, GoesOn, Refused
<1>5. ASSUME NEW c \in Callers, NEW t \in Reads, NEW b \in Boards, NEW m \in Modes, CallRead(c, t, b, m)
      PROVE  [CacheNext]_cacheVars
  BY <1>5 DEF CallRead
<1>6. ASSUME NEW c \in Callers, RequestFails(c) \/ Return(c) \/ CallQueue(c)
      PROVE  UNCHANGED cacheVars
  BY <1>6 DEF RequestFails, Return, CallQueue
<1>7. ASSUME NEW c \in Callers, GetTicket(c) \/ Fit(c)
      PROVE  UNCHANGED cacheVars
  BY <1>7 DEF GetTicket, Fit, Fitted, DropOldest, ShrinkOrGiveUp, FitTo
<1>8. ASSUME NEW c \in Callers,
             \/ \E s \in Filters : GetBoard(c, s)
             \/ ListBoards(c) \/ AnswerQueue(c) \/ \E b \in Boards : GetQueueBoard(c, b)
      PROVE  UNCHANGED cacheVars
  BY <1>8 DEF GetBoard, ListBoards, AnswerQueue, GetQueueBoard, ListTo
<1>9. ASSUME NEW c \in Callers,
             \/ CallAgain(c) \/ \E r \in Requests : CallCreate(c, r)
             \/ \E r \in Remarks : CallComment(c, r)
      PROVE  UNCHANGED cacheVars
  BY <1>9 DEF CallAgain, CallCreate, CallComment, Sends
<1> QED
  BY <1>1, <1>2, <1>3, <1>4, <1>5, <1>6, <1>7, <1>8, <1>9 DEF Next, Serve

\* The tools implement the cache they ask.
THEOREM ToolsKeepTheCache == Spec => CacheSpec
<1>1. Init => CacheInit
  BY DEF Init
<1> QED
  BY <1>1, StepIsCacheStep, PTL DEF Spec, CacheSpec

\* known: no two callers fetch at once, and none fetches over a fresh set.
THEOREM RefreshIsAlwaysShared == Spec => []RefreshIsShared
<1>1. CacheInv => RefreshIsShared
  BY DEF CacheInv, Exclusive, RefreshIsShared
<1>2. CacheInv /\ [CacheNext]_cacheVars => CacheInv'
  BY CacheInvStep
<1> QED
  BY <1>1, <1>2, CacheInvInit, ToolsKeepTheCache, PTL DEF CacheSpec

\* ensure: whoever is let through or refused is so on a list that is recent.
THEOREM SlugsAreAlwaysRecent == Spec => SlugsAreRecent
<1>1. CacheInv /\ [CacheNext]_cacheVars => CacheInv'
  BY CacheInvStep
<1>2. CacheInv /\ [CacheNext]_cacheVars =>
        [\A c \in Callers :
           LET b == ask[c].board IN
           /\ Decides(c, "known") => b \in active \/ since[b] < Long
           /\ Decides(c, "unknown") => b \notin active \/ since[b] < Long]_cacheVars
  BY CacheStepIsRecent
<1> QED
  BY <1>1, <1>2, CacheInvInit, ToolsKeepTheCache, PTL DEF CacheSpec, SlugsAreRecent
----------------------------------------------------------------------------
(* ticket_get *)

TicketRecs == [board : Boards, body : Texts, thread : Seq(Texts), summary : Texts, rest : Nat]
ModeRecs == [budget : Nat, window : Nat, bodyCap : Nat, commentCap : Nat]
FitRecs == [ticket : TicketRecs, mode : ModeRecs, from : Nat, to : Nat,
            bodyCap : Nat, newestCap : Nat, bodyClipped : BOOLEAN, dropped : Nat, clipped : BOOLEAN]

\* Sizes are numbers, and a result is no smaller with a text than without it.
CostsAreNumbers ==
  \A f \in FitRecs : f.to = Len(f.ticket.thread) /\ f.from \in 1..(f.to + 1) =>
    Bytes(f) \in Nat /\ BodyShare(f) \in Nat /\ NewestShare(f) \in Nat

LiveClip(f) == \E i \in f.from..f.to : Clipped(CommentAt(f, i))

\* A fit on its way: a suffix of the thread is live, the newest comment in it; what is
\* dropped is counted; no text is tightened while an older comment is live; and what was
\* clipped once is clipped or dropped now; and the body's flag is true of the body.
Counted(f) ==
  /\ f \in FitRecs
  /\ f.to = Len(f.ticket.thread) /\ 1 <= f.from /\ f.from <= f.to + 1
  /\ f.to > 0 => f.from <= f.to
  /\ f.dropped = f.from - 1
Untightened(f) == f.from < f.to => f.bodyCap = f.mode.bodyCap /\ f.newestCap = f.mode.commentCap
BodyTold(f) == f.bodyClipped <=> Clipped(Text(f.ticket.body, f.bodyCap))
Good(f) == Counted(f) /\ Untightened(f) /\ BodyTold(f) /\ (f.clipped => f.dropped > 0 \/ LiveClip(f))

LEMMA FittingIsGood ==
  ASSUME NEW t \in TicketRecs, NEW m \in ModeRecs
  PROVE  Good(Fitting(t, m))
<1> DEFINE total == Len(t.thread)
           cut == IF m.window > 0 /\ total > m.window THEN total - m.window ELSE 0
           f == Fitting(t, m)
<1>1. total \in Nat /\ cut \in Nat /\ cut <= total /\ (total > 0 => cut < total) /\ m.bodyCap \in Nat /\ m.commentCap \in Nat
  BY DEF TicketRecs, ModeRecs
<1> DEFINE told == Clipped(Text(t.body, m.bodyCap))
<1>2. /\ f \in FitRecs
      /\ f.ticket = t /\ f.mode = m /\ f.from = cut + 1 /\ f.to = total /\ f.dropped = cut
      /\ f.bodyCap = m.bodyCap /\ f.newestCap = m.commentCap /\ f.clipped = FALSE /\ f.bodyClipped = told
  <2> HIDE DEF total, cut
  <2>1. f = [ticket |-> t, mode |-> m, from |-> cut + 1, to |-> total, bodyCap |-> m.bodyCap,
             newestCap |-> m.commentCap, bodyClipped |-> told, dropped |-> cut, clipped |-> FALSE]
    BY DEF Fitting, total, cut
  <2>2. told \in BOOLEAN
    BY DEF Clipped
  <2> HIDE DEF told
  <2> HIDE DEF f
  <2> QED
    BY <1>1, <2>1, <2>2 DEF FitRecs
<1> HIDE DEF f, cut
<1>3. Counted(f)
  BY <1>1, <1>2 DEF Counted
<1>4. Untightened(f)
  BY <1>2 DEF Untightened
<1>5. BodyTold(f)
  BY <1>2 DEF BodyTold
<1> QED
  BY <1>2, <1>3, <1>4, <1>5 DEF Good, f

LEMMA RenderedIsGood ==
  ASSUME NEW f, Good(f)
  PROVE  Good(Rendered(f)) /\ (LiveClip(Rendered(f)) => Rendered(f).clipped)
<1> DEFINE g == Rendered(f)
<1>1. /\ g \in FitRecs /\ g.ticket = f.ticket /\ g.mode = f.mode /\ g.from = f.from /\ g.to = f.to
      /\ g.bodyCap = f.bodyCap /\ g.newestCap = f.newestCap /\ g.dropped = f.dropped
      /\ g.clipped = (f.clipped \/ LiveClip(f)) /\ g.bodyClipped = f.bodyClipped
  BY DEF Good, Counted, FitRecs, Rendered, LiveClip
<1>2. LiveClip(g) <=> LiveClip(f)
  BY <1>1 DEF LiveClip, CommentAt
<1> HIDE DEF g
<1>3. Good(g) /\ (LiveClip(g) => g.clipped)
  BY <1>1, <1>2 DEF Good, Counted, Untightened, BodyTold
<1> QED
  BY <1>1, <1>3 DEF g

LEMMA WithoutOldestIsGood ==
  ASSUME NEW f, Good(f), f.from < f.to
  PROVE  Good(WithoutOldest(f))
<1> DEFINE g == WithoutOldest(f)
<1>1. /\ g \in FitRecs /\ g.ticket = f.ticket /\ g.mode = f.mode /\ g.from = f.from + 1 /\ g.to = f.to
      /\ g.bodyCap = f.bodyCap /\ g.newestCap = f.newestCap /\ g.dropped = f.dropped + 1
      /\ g.bodyClipped = f.bodyClipped
  <2>1. f \in FitRecs
    BY DEF Good, Counted
  <2>2. g = [f EXCEPT !.from = f.from + 1, !.dropped = f.dropped + 1]
    BY <2>1 DEF WithoutOldest
  <2>3. f.from + 1 \in Nat /\ f.dropped + 1 \in Nat
    BY <2>1 DEF FitRecs
  <2> HIDE DEF g
  <2> QED
    BY <2>1, <2>2, <2>3 DEF FitRecs
<1>2. f.from \in Nat /\ f.to \in Nat /\ f.dropped \in Nat
  BY DEF Good, Counted, FitRecs
<1> HIDE DEF g
<1>3. Counted(g)
  BY <1>1, <1>2 DEF Good, Counted
<1>4. Untightened(g)
  BY <1>1, <1>2 DEF Good, Untightened
<1>5. g.dropped > 0
  BY <1>1, <1>2
<1>6. BodyTold(g)
  BY <1>1 DEF Good, BodyTold
<1> QED
  BY <1>3, <1>4, <1>5, <1>6 DEF Good, g

\* A reduced cap is at least the floor and less than what is shown now.
LEMMA ReducedCapReduces ==
  ASSUME NEW runes \in Nat, NEW bytes \in Nat, NEW cut \in Int
  PROVE  /\ ReducedCap(runes, bytes, cut) \in Nat
         /\ ReducedCap(runes, bytes, cut) > 0 => ReducedCap(runes, bytes, cut) < runes
         /\ ReducedCap(runes, bytes, cut) = 0 /\ bytes > 0 /\ cut > 0 => runes <= MinFieldRunes
<1>1. CASE bytes = 0 \/ cut <= 0 \/ runes = 0
  <2>1. ReducedCap(runes, bytes, cut) = 0
    BY <1>1 DEF ReducedCap
  <2> QED
    BY <1>1, <2>1, FitAssumption
<1>2. CASE bytes > 0 /\ cut > 0 /\ runes > 0
  <2> DEFINE kept == IF bytes - cut < 1 THEN 1 ELSE bytes - cut
             scaled == (runes * kept) \div bytes
             less == IF scaled >= runes THEN runes - 1 ELSE scaled
             next == IF less < MinFieldRunes THEN MinFieldRunes ELSE less
  <2>1. ReducedCap(runes, bytes, cut) = IF next >= runes THEN 0 ELSE next
    BY <1>2 DEF ReducedCap
  <2>2. runes * kept \in Int
    OBVIOUS
  <2>3. scaled \in Int
    BY <1>2, <2>2
  <2> HIDE DEF scaled
  <2>4. less \in Int /\ less < runes
    BY <2>3
  <2> HIDE DEF less
  <2>5. next \in Nat /\ next > 0 /\ (next >= runes => runes <= MinFieldRunes)
    BY <2>4, FitAssumption
  <2> HIDE DEF next
  <2> QED
    BY <2>1, <2>5
<1> QED
  BY <1>1, <1>2

\* What is shared in proportion is no more than there is to share.
LEMMA ShareIsLess ==
  ASSUME NEW r \in Nat, NEW n \in Nat, NEW d \in Nat, d > 0
  PROVE  /\ (r * n) \div (n + d) \in Nat /\ (r * n) \div (n + d) <= r
         /\ r > 0 => (r * n) \div (n + d) < r
<1> DEFINE q == (r * n) \div (n + d)
<1>1. r * n \in Nat /\ n + d \in Nat /\ n + d > 0
  OBVIOUS
<1>2. q \in Nat /\ (n + d) * q <= r * n
  BY <1>1
<1> HIDE DEF q
<1>3. ASSUME q > r
      PROVE  FALSE
  <2>1. (n + d) * q > (n + d) * r
    BY <1>1, <1>2, <1>3
  <2>2. (n + d) * r >= r * n
    OBVIOUS
  <2> QED
    BY <1>2, <2>1, <2>2
<1>4. ASSUME r > 0, q = r
      PROVE  FALSE
  <2>1. (n + d) * r = n * r + d * r /\ d * r > 0
    BY <1>4
  <2> QED
    BY <1>2, <1>4, <2>1
<1> QED
  BY <1>2, <1>3, <1>4 DEF q

\* The field that costs more is always asked for something.
LEMMA HeavierIsCut ==
  ASSUME NEW need \in Nat, need > 0, NEW b \in Nat, NEW n \in Nat
  PROVE  /\ Cuts(need, b, n).body \in Int /\ Cuts(need, b, n).newest \in Int
         /\ b >= n => Cuts(need, b, n).body > 0
         /\ n > b => Cuts(need, b, n).newest > 0
<1>1. CASE n = 0 \/ b = 0
  BY <1>1 DEF Cuts
<1>2. CASE n > 0 /\ b > 0
  <2> DEFINE bodyFirst   == IF b > n THEN Least(b - n, need) ELSE 0
             newestFirst == IF n > b THEN Least(n - b, need) ELSE 0
             rest   == need - bodyFirst - newestFirst
             shared == (rest * n) \div (n + b)
  <2>1. Cuts(need, b, n) = [body |-> bodyFirst + rest - shared, newest |-> newestFirst + shared]
    BY <1>2 DEF Cuts
  <2>2. /\ bodyFirst \in Nat /\ newestFirst \in Nat /\ rest \in Nat
        /\ b > n => bodyFirst > 0
        /\ n > b => newestFirst > 0
        /\ b = n => rest > 0
    BY DEF Least
  <2> HIDE DEF bodyFirst, newestFirst, rest
  <2>3. shared \in Nat /\ shared <= rest /\ (rest > 0 => shared < rest)
    BY <1>2, <2>2, ShareIsLess
  <2> HIDE DEF shared
  <2> QED
    BY <2>1, <2>2, <2>3
<1> QED
  BY <1>1, <1>2

\* What is asked of a fit that is measured.
LEMMA CapsAre ==
  ASSUME CostsAreNumbers, NEW f, Good(f), ~Fits(f)
  PROVE  LET need == Bytes(f) - f.mode.budget + MarkerHeadroom
             cut  == Cuts(need, BodyShare(f), NewestShare(f))
             caps == Caps(f, Measured(f))
         IN /\ need \in Nat /\ need > 0 /\ BodyShare(f) \in Nat /\ NewestShare(f) \in Nat
            /\ caps.body = IF BodyShare(f) > 0 THEN ReducedCap(Shown(f.ticket.body, f.bodyCap), BodyShare(f), cut.body) ELSE 0
            /\ caps.newest = IF NewestShare(f) > 0 THEN ReducedCap(Shown(Newest(f), f.newestCap), NewestShare(f), cut.newest) ELSE 0
<1>1. f \in FitRecs /\ f.mode.budget \in Nat /\ f.to = Len(f.ticket.thread) /\ f.from \in 1..(f.to + 1)
  BY DEF Good, Counted, FitRecs, ModeRecs
<1>2. Bytes(f) \in Nat /\ BodyShare(f) \in Nat /\ NewestShare(f) \in Nat
  BY <1>1 DEF CostsAreNumbers
<1>3. Bytes(f) > f.mode.budget
  BY <1>1, <1>2 DEF Fits
<1>4. LET need == Bytes(f) - f.mode.budget + MarkerHeadroom IN need \in Nat /\ need > 0
  <2>1. \A size, budget \in Nat : size > budget =>
          size - budget + MarkerHeadroom \in Nat /\ size - budget + MarkerHeadroom > 0
    BY FitAssumption
  <2> QED
    BY <1>1, <1>2, <1>3, <2>1
<1>5. Measured(f) = [size |-> Bytes(f), body |-> BodyShare(f), newest |-> NewestShare(f)]
  BY DEF Measured
<1> QED
  BY <1>2, <1>4, <1>5 DEF Caps

LEMMA ShownIsNat ==
  ASSUME NEW t \in Texts, NEW cap \in Nat
  PROVE  Shown(t, cap) \in Nat /\ Shown(t, cap) <= t.runes
BY FitAssumption DEF Shown

\* A tighter cap clips.
LEMMA TighterClips ==
  ASSUME NEW t \in Texts, NEW cap \in Nat, NEW less \in Nat, less > 0, less < Shown(t, cap)
  PROVE  Clipped(Text(t, less))
<1>1. t.runes \in Nat /\ Shown(t, cap) \in Nat /\ Shown(t, cap) <= t.runes
  BY ShownIsNat, FitAssumption
<1>2. Shown(t, less) = less
  BY <1>1 DEF Shown
<1> QED
  BY <1>1, <1>2 DEF Clipped, Text

\* The newest comment of a ticket that has one.
LEMMA NewestIsText ==
  ASSUME NEW f, Good(f), f.to > 0
  PROVE  Newest(f) \in Texts /\ f.newestCap \in Nat /\ f.from <= f.to /\ f.to \in Nat /\ f.from \in Nat
<1>1. f \in FitRecs /\ f.to = Len(f.ticket.thread) /\ f.ticket.thread \in Seq(Texts)
  BY DEF Good, Counted, FitRecs, TicketRecs
<1>2. f.to \in 1..Len(f.ticket.thread)
  BY <1>1
<1> QED
  BY <1>1, <1>2 DEF Newest, Good, Counted, FitRecs

LEMMA ShrunkIsGood ==
  ASSUME CostsAreNumbers, NEW f, Good(f), ~Fits(f), f.from >= f.to
  PROVE  Good(Shrunk(f, Caps(f, Measured(f))))
<1> DEFINE caps == Caps(f, Measured(f))
           g == Shrunk(f, caps)
<1>0. f \in FitRecs /\ f.from \in Nat /\ f.to \in Nat
  BY DEF Good, Counted, FitRecs
<1>1. caps.body \in Nat /\ caps.newest \in Nat /\ (f.to > 0 /\ caps.newest > 0 => caps.newest < Shown(Newest(f), f.newestCap))
  <2> DEFINE cut == Cuts(Bytes(f) - f.mode.budget + MarkerHeadroom, BodyShare(f), NewestShare(f))
  <2>1. cut.body \in Int /\ cut.newest \in Int
    BY CapsAre, HeavierIsCut
  <2>2. Shown(f.ticket.body, f.bodyCap) \in Nat
    BY <1>0, ShownIsNat DEF FitRecs, TicketRecs
  <2>a. /\ BodyShare(f) \in Nat /\ NewestShare(f) \in Nat
        /\ caps.body = IF BodyShare(f) > 0 THEN ReducedCap(Shown(f.ticket.body, f.bodyCap), BodyShare(f), cut.body) ELSE 0
        /\ caps.newest = IF NewestShare(f) > 0 THEN ReducedCap(Shown(Newest(f), f.newestCap), NewestShare(f), cut.newest) ELSE 0
    BY CapsAre
  <2> HIDE DEF caps, cut
  <2>3. caps.body \in Nat
    <3>1. ReducedCap(Shown(f.ticket.body, f.bodyCap), BodyShare(f), cut.body) \in Nat
      BY <2>1, <2>2, <2>a, ReducedCapReduces
    <3>2. 0 \in Nat
      OBVIOUS
    <3> QED
      BY <2>a, <3>1, <3>2, Zenon
  <2>4. CASE f.to > 0
    <3>1. Shown(Newest(f), f.newestCap) \in Nat
      BY <2>4, NewestIsText, ShownIsNat
    <3> DEFINE cap == ReducedCap(Shown(Newest(f), f.newestCap), NewestShare(f), cut.newest)
    <3>2. cap \in Nat /\ (cap > 0 => cap < Shown(Newest(f), f.newestCap))
      BY <2>1, <2>a, <3>1, ReducedCapReduces
    <3> HIDE DEF cap
    <3>3. caps.newest \in {0, cap}
      BY <2>a DEF cap
    <3> QED
      BY <2>3, <3>2, <3>3
  <2>5. CASE f.to = 0
    <3>1. NewestShare(f) = 0
      BY <1>0, <2>5 DEF NewestShare, Good, Counted
    <3>2. caps.newest = 0
      BY <3>1, <2>a
    <3> QED
      BY <2>3, <2>5, <3>2
  <2> QED
    BY <1>0, <2>4, <2>5
<1>2. /\ g \in FitRecs /\ g.ticket = f.ticket /\ g.mode = f.mode /\ g.from = f.from /\ g.to = f.to
      /\ g.dropped = f.dropped /\ g.clipped = f.clipped /\ BodyTold(g)
      /\ g.newestCap = IF caps.newest > 0 THEN caps.newest ELSE f.newestCap
  <2> DEFINE cap == IF caps.body > 0 THEN caps.body ELSE f.bodyCap
             newest == IF caps.newest > 0 THEN caps.newest ELSE f.newestCap
             told == Clipped(Text(f.ticket.body, cap))
  <2>1. cap \in Nat /\ newest \in Nat /\ told \in BOOLEAN
    BY <1>0, <1>1 DEF FitRecs, Clipped
  <2>2. g = [f EXCEPT !.bodyCap = cap, !.bodyClipped = told, !.newestCap = newest]
    BY <1>0 DEF Shrunk, FitRecs
  <2> HIDE DEF told, caps, g, cap, newest
  <2>3. /\ g \in FitRecs /\ g.ticket = f.ticket /\ g.mode = f.mode /\ g.from = f.from /\ g.to = f.to
        /\ g.dropped = f.dropped /\ g.clipped = f.clipped /\ g.newestCap = newest
        /\ g.bodyCap = cap /\ g.bodyClipped = told
    BY <1>0, <2>1, <2>2 DEF FitRecs
  <2> QED
    BY <2>3 DEF BodyTold, told, newest
<1> HIDE DEF caps, g
<1>3. Counted(g) /\ Untightened(g)
  BY <1>0, <1>2 DEF Good, Counted, Untightened
<1>4. ASSUME LiveClip(f)
      PROVE  LiveClip(g)
  <2>1. PICK i \in f.from..f.to : Clipped(CommentAt(f, i))
    BY <1>4 DEF LiveClip
  <2>2. i = f.to /\ f.to > 0
    BY <1>0, <2>1 DEF Good, Counted
  <2>3. CASE caps.newest = 0
    BY <1>1, <1>2, <2>1, <2>3 DEF LiveClip, CommentAt
  <2>4. CASE caps.newest > 0
    <3>1. Clipped(Text(Newest(f), caps.newest))
      BY <1>1, <2>2, <2>4, NewestIsText, TighterClips
    <3>2. CommentAt(g, f.to) = Text(Newest(f), caps.newest)
      BY <1>2, <2>4 DEF CommentAt, Newest
    <3> QED
      BY <1>2, <2>1, <2>2, <3>1, <3>2 DEF LiveClip
  <2> QED
    BY <1>1, <2>3, <2>4
<1> QED
  BY <1>2, <1>3, <1>4 DEF Good, caps, g

LEMMA StuckIsOversized ==
  ASSUME CostsAreNumbers, NEW f, Good(f), ~Fits(f), f.from >= f.to, Stuck(Caps(f, Measured(f)))
  PROVE  IsOversized(f)
<1> DEFINE need == Bytes(f) - f.mode.budget + MarkerHeadroom
           cut == Cuts(need, BodyShare(f), NewestShare(f))
           b == BodyShare(f)
           n == NewestShare(f)
<1>0. f \in FitRecs /\ f.to \in Nat /\ b \in Nat /\ n \in Nat /\ need \in Nat /\ need > 0
  BY CapsAre DEF Good, Counted, FitRecs
<1>1. /\ cut.body \in Int /\ cut.newest \in Int
      /\ b >= n => cut.body > 0
      /\ n > b => cut.newest > 0
  BY <1>0, HeavierIsCut
<1>2. /\ b > 0 => ReducedCap(Shown(f.ticket.body, f.bodyCap), b, cut.body) = 0
      /\ n > 0 => ReducedCap(Shown(Newest(f), f.newestCap), n, cut.newest) = 0
  BY CapsAre DEF Stuck
<1> HIDE DEF need, cut
<1>3. ASSUME b >= n, b > 0
      PROVE  Shown(f.ticket.body, f.bodyCap) <= MinFieldRunes
  <2>1. Shown(f.ticket.body, f.bodyCap) \in Nat
    BY <1>0, ShownIsNat DEF FitRecs, TicketRecs
  <2> QED
    BY <1>0, <1>1, <1>2, <1>3, <2>1, ReducedCapReduces
<1>4. ASSUME n > b, n > 0
      PROVE  Shown(Newest(f), f.newestCap) <= MinFieldRunes
  <2>1. f.to > 0
    BY <1>0, <1>4 DEF NewestShare, Good, Counted, FitRecs
  <2>2. Shown(Newest(f), f.newestCap) \in Nat
    BY <2>1, NewestIsText, ShownIsNat
  <2> QED
    BY <1>0, <1>1, <1>2, <1>4, <2>2, ReducedCapReduces
<1> QED
  BY <1>3, <1>4 DEF IsOversized

\* A good fit keeps the newest comment, and accounts for its losses once it is rendered.
LEMMA GoodKeepsNewest ==
  ASSUME NEW f, Good(f)
  PROVE  KeepsNewest(f)
<1>1. f.ticket.thread \in Seq(Texts) /\ f.to = Len(f.ticket.thread)
  BY DEF Good, Counted, FitRecs, TicketRecs
<1>2. f.ticket.thread # <<>> => f.to > 0
  BY <1>1
<1> QED
  BY <1>1, <1>2 DEF KeepsNewest, Good, Counted, Untightened

LEMMA GoodCountsLosses ==
  ASSUME NEW f, Good(f), LiveClip(f) => f.clipped
  PROVE  CountsLosses(f)
<1> DEFINE out == Out(f)
           n == f.to - f.from + 1
<1>0. f.from \in Nat /\ f.to \in Nat /\ f.dropped = f.from - 1 /\ f.clipped \in BOOLEAN /\ 1 <= f.from /\ f.from <= f.to + 1
  BY DEF Good, Counted, FitRecs
<1>1. /\ out.total = f.to /\ out.returned = n /\ out.dropped = f.dropped
      /\ out.comments = [i \in 1..n |-> CommentAt(f, f.from + i - 1)]
      /\ out.truncated.comments = (f.clipped \/ f.dropped > 0)
  BY DEF Out, Good, Counted
<1>2. LiveClip(f) <=> \E i \in 1..n : Clipped(CommentAt(f, f.from + i - 1))
  <2>1. ASSUME LiveClip(f)
        PROVE  \E i \in 1..n : Clipped(CommentAt(f, f.from + i - 1))
    <3>1. PICK j \in f.from..f.to : Clipped(CommentAt(f, j))
      BY <2>1 DEF LiveClip
    <3>2. j - f.from + 1 \in 1..n /\ f.from + (j - f.from + 1) - 1 = j
      BY <1>0
    <3> QED
      BY <3>1, <3>2
  <2>2. ASSUME NEW i \in 1..n, Clipped(CommentAt(f, f.from + i - 1))
        PROVE  LiveClip(f)
    <3>1. f.from + i - 1 \in f.from..f.to
      BY <1>0
    <3> QED
      BY <2>2, <3>1 DEF LiveClip
  <2> QED
    BY <2>1, <2>2
<1>3. \A i \in 1..n : out.comments[i] = CommentAt(f, f.from + i - 1)
  BY <1>1
<1> HIDE DEF out
<1>4. out.total = out.returned + out.dropped
  BY <1>0, <1>1
<1>5. out.truncated.comments <=> out.returned < out.total \/ \E i \in 1..out.returned : Clipped(out.comments[i])
  <2>1. out.returned < out.total <=> f.dropped > 0
    BY <1>0, <1>1
  <2>2. (\E i \in 1..out.returned : Clipped(out.comments[i])) <=> LiveClip(f)
    BY <1>1, <1>2, <1>3
  <2>3. out.truncated.comments <=> f.clipped \/ f.dropped > 0
    BY <1>1
  <2> QED
    BY <2>1, <2>2, <2>3 DEF Good
<1>6. out.truncated.body <=> Clipped(out.body)
  BY DEF Out, Good, BodyTold, out
<1> QED
  BY <1>4, <1>5, <1>6 DEF CountsLosses, out

\* What a call of one caller is at: a ticket_get has its mode, and a fit is there only
\* while one is made and until it is returned.
FitOK(c) ==
  /\ at[c] \notin {"fitting", "answered", "oversized"} => fit[c] = NoFit
  /\ at[c] \in {"fitting", "oversized"} \/ fit[c] # NoFit => Good(fit[c])
  /\ at[c] = "answered" /\ fit[c] # NoFit => (LiveClip(fit[c]) => fit[c].clipped)
  /\ at[c] = "oversized" => IsOversized(fit[c])
CallOK(c) ==
  /\ call[c].tool \in Reads => call[c].mode \in Modes
  /\ at[c] = "getting" => call[c].tool = "ticket_get"
  /\ call[c].tool = "ticket_comment" => post[c].text \in Texts

Functions ==
  /\ at = [c \in Callers |-> at[c]] /\ call = [c \in Callers |-> call[c]]
  /\ fit = [c \in Callers |-> fit[c]] /\ post = [c \in Callers |-> post[c]]

ToolsInv ==
  /\ Functions
  /\ ticket \in TicketRecs /\ \A p \in wire : p.key = <<>> => p.text \in Texts
  /\ \A c \in Callers : CallOK(c) /\ FitOK(c)

LEMMA ToolsInvInit == Init => ToolsInv
  BY ToolsAssumption
     DEF Init, ToolsInv, Functions, CallOK, FitOK, NoCall, Reads, TicketRecs

\* Only one caller's call changed, to something that is in order.
LEMMA OneCall ==
  ASSUME ToolsInv, NEW c \in Callers, Functions', ticket' \in TicketRecs,
         \A p \in wire' : p.key = <<>> => p.text \in Texts,
         \A d \in Callers \ {c} : at'[d] = at[d] /\ call'[d] = call[d] /\ fit'[d] = fit[d] /\ post'[d] = post[d],
         CallOK(c)', FitOK(c)'
  PROVE  ToolsInv'
<1>1. ASSUME NEW d \in Callers
      PROVE  CallOK(d)' /\ FitOK(d)'
  <2>1. CASE d = c
    BY <2>1
  <2>2. CASE d # c
    BY <2>2 DEF ToolsInv, CallOK, FitOK
  <2> QED
    BY <2>1, <2>2
<1> QED
  BY <1>1 DEF ToolsInv

\* What moves at the backend, and the cache, change no call.
LEMMA WorldKeepsCalls ==
  ASSUME ToolsInv, UNCHANGED <<at, call, fit, post, ticket, wire>>
  PROVE  ToolsInv'
BY DEF ToolsInv, Functions, CallOK, FitOK

\* A call that has no fit moves on to where none is expected.
LEMMA CallMoves ==
  ASSUME ToolsInv, NEW c \in Callers, NEW where, at' = [at EXCEPT ![c] = where],
         where \notin {"fitting", "oversized"}, Functions',
         fit' = fit, fit[c] = NoFit, ticket' = ticket, \A p \in wire' : p.key = <<>> => p.text \in Texts,
         \A d \in Callers \ {c} : call'[d] = call[d] /\ post'[d] = post[d],
         CallOK(c)'
  PROVE  ToolsInv'
<1>1. at'[c] = where /\ \A d \in Callers \ {c} : at'[d] = at[d]
  BY DEF ToolsInv, Functions
<1>2. FitOK(c)'
  BY <1>1 DEF FitOK
<1> QED
  BY <1>1, <1>2, OneCall DEF ToolsInv

\* A call of another tool begins.
LEMMA CallBegins ==
  ASSUME ToolsInv, NEW c \in Callers, NEW t, NEW b, NEW m, NEW where, Calls(c, t, b, m),
         at' = [at EXCEPT ![c] = where], where \notin {"getting", "fitting", "oversized"},
         t \in Reads => m \in Modes, UNCHANGED <<fit, ticket>>,
         \A p \in wire' : p.key = <<>> => p.text \in Texts,
         post' = [d \in Callers |-> post'[d]], \A d \in Callers \ {c} : post'[d] = post[d],
         t = "ticket_comment" => post'[c].text \in Texts
  PROVE  ToolsInv'
<1>1. call' = [call EXCEPT ![c] = [tool |-> t, board |-> b, mode |-> m]] /\ at[c] = "idle"
  BY DEF Calls
<1>2. call'[c].tool = t /\ call'[c].mode = m /\ at'[c] = where
  BY <1>1 DEF ToolsInv, Functions
<1>3. Functions' /\ \A d \in Callers \ {c} : call'[d] = call[d]
  BY <1>1 DEF ToolsInv, Functions
<1>4. fit[c] = NoFit
  BY <1>1 DEF ToolsInv, FitOK
<1>5. CallOK(c)'
  BY <1>2 DEF CallOK
<1> QED
  BY <1>3, <1>4, <1>5, CallMoves

\* A fit is made, or goes on.
LEMMA FitMoves ==
  ASSUME ToolsInv, NEW c \in Callers, NEW where, NEW f, at' = [at EXCEPT ![c] = where],
         where \in {"fitting", "answered", "oversized"}, FitTo(c, f), Good(f),
         where = "answered" => (LiveClip(f) => f.clipped),
         where = "oversized" => IsOversized(f)
  PROVE  ToolsInv'
<1>1. /\ at'[c] = where /\ fit'[c] = f /\ UNCHANGED <<call, post, ticket, wire>>
      /\ \A d \in Callers \ {c} : at'[d] = at[d] /\ fit'[d] = fit[d]
  BY DEF ToolsInv, Functions, FitTo, Backend, postVars
<1>2. Functions'
  BY <1>1 DEF ToolsInv, Functions, FitTo
<1>3. CallOK(c)' /\ FitOK(c)'
  BY <1>1 DEF ToolsInv, CallOK, FitOK
<1> QED
  BY <1>1, <1>2, <1>3, OneCall DEF ToolsInv

\* Every step of the tools keeps it.
LEMMA ToolsInvStep ==
  ASSUME CostsAreNumbers, ToolsInv, [Next]_vars
  PROVE  ToolsInv'
<1> USE DEF Becomes
<1>0. Functions /\ \A c \in Callers : CallOK(c) /\ FitOK(c)
  BY DEF ToolsInv
<1>1. CASE UNCHANGED vars
  BY <1>1, WorldKeepsCalls DEF vars, callVars, postVars
<1>2. CASE Clock \/ \E b \in Archivable : FlipBoard(b)
  BY <1>2, WorldKeepsCalls DEF Clock, FlipBoard, callVars, postVars
<1>3. ASSUME NEW k \in Cards, NEW s \in Columns, MoveCard(k, s)
      PROVE  ToolsInv'
  BY <1>3, WorldKeepsCalls DEF MoveCard, postVars
<1>4. ASSUME NEW c \in Callers, Acquire(c) \/ Refresh(c)
      PROVE  ToolsInv'
  BY <1>4, WorldKeepsCalls DEF Acquire, Refresh, Backend, callVars, postVars
<1>5. ASSUME NEW c \in Callers, NEW t \in Reads, NEW b \in Boards, NEW m \in Modes, CallRead(c, t, b, m)
      PROVE  ToolsInv'
  <2>1. Calls(c, t, b, m) /\ at' = [at EXCEPT ![c] = "asking"] /\ UNCHANGED <<fit, ticket, wire, post>> /\ t # "ticket_comment"
    BY <1>5 DEF CallRead, Backend, postVars, Reads
  <2> QED
    BY <1>0, <2>1, CallBegins DEF ToolsInv, Functions
<1>6. ASSUME NEW c \in Callers, CallQueue(c)
      PROVE  ToolsInv'
  <2>1. /\ Calls(c, "review_queue", None, None) /\ at' = [at EXCEPT ![c] = "boards"]
        /\ UNCHANGED <<fit, ticket, wire, post>> /\ "review_queue" \notin Reads
    BY <1>6 DEF CallQueue, Backend, postVars, Reads
  <2> QED
    BY <1>0, <2>1, CallBegins DEF ToolsInv, Functions
<1>7. ASSUME NEW c \in Callers, GoesOn(c)
      PROVE  ToolsInv'
  <2> DEFINE where == IF call[c].tool = "ticket_get" THEN "getting" ELSE "listing"
  <2>1. /\ at[c] = "asking" /\ at' = [at EXCEPT ![c] = where]
        /\ UNCHANGED <<call, fit, ticket, wire, post>>
    BY <1>7 DEF GoesOn, Backend, postVars
  <2>2. fit[c] = NoFit /\ Functions' /\ at'[c] = where
    BY <1>0, <2>1 DEF FitOK, Functions
  <2>3. CallOK(c)'
    BY <1>0, <2>1, <2>2 DEF CallOK
  <2> HIDE DEF where
  <2>4. where \notin {"fitting", "oversized"}
    BY DEF where
  <2> QED
    BY <2>1, <2>2, <2>3, <2>4, CallMoves DEF ToolsInv
<1>8. ASSUME NEW c \in Callers, Refused(c) \/ RequestFails(c)
      PROVE  ToolsInv'
  <2>1. /\ at[c] \in {"asking", "getting", "listing", "boards", "reading", "posting"}
        /\ at' = [at EXCEPT ![c] = "failed"] /\ UNCHANGED <<call, fit, ticket, wire, post>>
    BY <1>8 DEF Refused, RequestFails, Backend, postVars
  <2>2. fit[c] = NoFit /\ Functions' /\ at'[c] = "failed"
    BY <1>0, <2>1 DEF FitOK, Functions
  <2>3. CallOK(c)'
    BY <1>0, <2>1, <2>2 DEF CallOK
  <2>4. ticket' = ticket /\ \A p \in wire' : p.key = <<>> => p.text \in Texts
    BY <2>1 DEF ToolsInv
  <2>5. \A d \in Callers \ {c} : call'[d] = call[d] /\ post'[d] = post[d]
    BY <2>1
  <2> QED
    BY <2>1, <2>2, <2>3, <2>4, <2>5, CallMoves
<1>9. ASSUME NEW c \in Callers, Return(c)
      PROVE  ToolsInv'
  <2>1. /\ at' = [at EXCEPT ![c] = "idle"] /\ call' = [call EXCEPT ![c] = NoCall]
        /\ fit' = [fit EXCEPT ![c] = NoFit] /\ UNCHANGED <<ticket, wire, post>>
    BY <1>9 DEF Return, Backend, postVars
  <2>2. /\ at'[c] = "idle" /\ call'[c] = NoCall /\ fit'[c] = NoFit
        /\ \A d \in Callers \ {c} : at'[d] = at[d] /\ call'[d] = call[d] /\ fit'[d] = fit[d]
    BY <1>0, <2>1 DEF Functions
  <2>3. Functions' /\ CallOK(c)' /\ FitOK(c)'
    BY <1>0, <2>1, <2>2 DEF Functions, CallOK, FitOK, NoCall, Reads
  <2> QED
    BY <2>1, <2>2, <2>3, OneCall DEF ToolsInv
<1>10. ASSUME NEW c \in Callers, GetTicket(c)
       PROVE  ToolsInv'
  <2>1. at[c] = "getting" /\ at' = [at EXCEPT ![c] = "fitting"] /\ FitTo(c, Fitting(ticket, call[c].mode))
    BY <1>10 DEF GetTicket
  <2>2. call[c].mode \in ModeRecs
    BY <1>0, <2>1, ToolsAssumption DEF CallOK, Reads, ModeRecs
  <2>3. Good(Fitting(ticket, call[c].mode))
    BY <2>2, FittingIsGood DEF ToolsInv
  <2> QED
    BY <2>1, <2>3, FitMoves
<1>11. ASSUME NEW c \in Callers, Fit(c)
       PROVE  ToolsInv'
  <2> DEFINE f == Rendered(fit[c])
  <2>0. at[c] = "fitting"
    BY <1>11 DEF Fit, Fitted, DropOldest, ShrinkOrGiveUp
  <2>1. Good(f) /\ (LiveClip(f) => f.clipped)
    <3>1. Good(fit[c])
      BY <1>0, <2>0 DEF FitOK
    <3> QED
      BY <3>1, RenderedIsGood
  <2> HIDE DEF f
  <2>2. CASE Fitted(c)
    <3>1. at' = [at EXCEPT ![c] = "answered"] /\ FitTo(c, f)
      BY <2>2 DEF Fitted, f
    <3> QED
      BY <2>1, <3>1, FitMoves
  <2>3. CASE DropOldest(c)
    <3>1. f.from < f.to /\ FitTo(c, WithoutOldest(f)) /\ at' = at
      BY <2>3 DEF DropOldest, f
    <3>2. at' = [at EXCEPT ![c] = "fitting"]
      BY <1>0, <2>0, <3>1 DEF Functions
    <3> QED
      BY <2>1, <3>1, <3>2, WithoutOldestIsGood, FitMoves
  <2>4. CASE ShrinkOrGiveUp(c)
    <3> DEFINE caps == Caps(f, Measured(f))
    <3>1. /\ ~Fits(f) /\ f.from >= f.to
          /\ \/ FitTo(c, Shrunk(f, caps)) /\ at' = at
             \/ Stuck(caps) /\ FitTo(c, f) /\ at' = [at EXCEPT ![c] = "oversized"]
      BY <2>4 DEF ShrinkOrGiveUp, f
    <3>2. CASE FitTo(c, Shrunk(f, caps)) /\ at' = at
      <4>1. at' = [at EXCEPT ![c] = "fitting"]
        BY <1>0, <2>0, <3>2 DEF Functions
      <4>2. Good(Shrunk(f, caps))
        BY <2>1, <3>1, ShrunkIsGood
      <4> QED
        BY <3>2, <4>1, <4>2, FitMoves
    <3>3. CASE Stuck(caps) /\ FitTo(c, f) /\ at' = [at EXCEPT ![c] = "oversized"]
      <4>1. IsOversized(f)
        BY <2>1, <3>1, <3>3, StuckIsOversized
      <4> QED
        BY <2>1, <3>3, <4>1, FitMoves
    <3> QED
      BY <3>1, <3>2, <3>3
  <2> QED
    BY <1>11, <2>2, <2>3, <2>4 DEF Fit
<1>12. ASSUME NEW c \in Callers, (\E s \in Filters : GetBoard(c, s)) \/ AnswerQueue(c) \/ ListBoards(c)
       PROVE  ToolsInv'
  <2>1. PICK where \in {"answered", "reading"} : at' = [at EXCEPT ![c] = where]
    BY <1>12 DEF GetBoard, AnswerQueue, ListBoards
  <2>2. at[c] \in {"listing", "reading", "boards"} /\ UNCHANGED <<call, fit, ticket, wire, post>>
    BY <1>12 DEF GetBoard, AnswerQueue, ListBoards, ListTo, Backend, postVars
  <2>3. at'[c] = where
    BY <1>0, <2>1 DEF Functions
  <2>4. fit[c] = NoFit /\ Functions' /\ CallOK(c)'
    BY <1>0, <2>1, <2>2, <2>3 DEF FitOK, Functions, CallOK
  <2> QED
    BY <2>1, <2>2, <2>4, CallMoves DEF ToolsInv
<1>13. ASSUME NEW c \in Callers, NEW b \in Boards, GetQueueBoard(c, b)
       PROVE  ToolsInv'
  BY <1>13, WorldKeepsCalls DEF GetQueueBoard, ListTo, Backend, postVars
<1>14. ASSUME NEW c \in Callers, NEW r \in Requests, CallCreate(c, r)
       PROVE  ToolsInv'
  <2>1. Calls(c, "ticket_create", None, None) /\ Sends(c, "ticket_create", r) /\ at' = [at EXCEPT ![c] = "posting"]
    BY <1>14 DEF CallCreate, Sends
  <2> DEFINE p == [by |-> c, try |-> posts[c] + 1, key |-> Key(c, r), text |-> r]
  <2>2. post' = [post EXCEPT ![c] = p] /\ wire' = wire \cup {p} /\ UNCHANGED <<fit, ticket>>
    BY <2>1 DEF Sends
  <2>3. p.key # <<>>
    BY DEF Key
  <2> HIDE DEF p
  <2>4. \A q \in wire' : q.key = <<>> => q.text \in Texts
    BY <2>2, <2>3 DEF ToolsInv
  <2>5. post' = [d \in Callers |-> post'[d]] /\ \A d \in Callers \ {c} : post'[d] = post[d]
    BY <1>0, <2>2 DEF Functions
  <2> QED
    BY <2>1, <2>2, <2>4, <2>5, CallBegins DEF Reads
<1>15. ASSUME NEW c \in Callers, NEW r \in Remarks, CallComment(c, r)
       PROVE  ToolsInv'
  <2>1. Calls(c, "ticket_comment", None, None) /\ Sends(c, "ticket_comment", r) /\ at' = [at EXCEPT ![c] = "posting"]
    BY <1>15 DEF CallComment, Sends
  <2> DEFINE p == [by |-> c, try |-> posts[c] + 1, key |-> <<>>, text |-> r]
  <2>2. post' = [post EXCEPT ![c] = p] /\ wire' = wire \cup {p} /\ UNCHANGED <<fit, ticket>>
    BY <2>1 DEF Sends
  <2>3. p.text \in Texts
    BY ToolsAssumption
  <2> HIDE DEF p
  <2>4. \A q \in wire' : q.key = <<>> => q.text \in Texts
    BY <2>2, <2>3 DEF ToolsInv
  <2>5. /\ post' = [d \in Callers |-> post'[d]] /\ post'[c] = p
        /\ \A d \in Callers \ {c} : post'[d] = post[d]
    BY <1>0, <2>2 DEF Functions
  <2> QED
    BY <2>1, <2>2, <2>3, <2>4, <2>5, CallBegins DEF Reads
<1>16. ASSUME NEW c \in Callers, CallAgain(c)
       PROVE  ToolsInv'
  <2> DEFINE p == [by |-> c, try |-> posts[c] + 1, text |-> post[c].text,
                   key |-> IF call[c].tool = "ticket_create" THEN Key(c, post[c].text) ELSE <<>>]
  <2>1. /\ at[c] = "failed" /\ call[c].tool \in {"ticket_create", "ticket_comment"}
        /\ at' = [at EXCEPT ![c] = "posting"] /\ UNCHANGED <<call, fit, ticket>>
        /\ post' = [post EXCEPT ![c] = p] /\ wire' = wire \cup {p}
    BY <1>16 DEF CallAgain, Sends
  <2>2. p.text = post[c].text /\ (p.key = <<>> => call[c].tool = "ticket_comment")
    BY <2>1 DEF Key
  <2> HIDE DEF p
  <2>3. p.key = <<>> \/ call[c].tool = "ticket_comment" => p.text \in Texts
    BY <1>0, <2>2 DEF CallOK
  <2>4. \A q \in wire' : q.key = <<>> => q.text \in Texts
    BY <2>1, <2>3 DEF ToolsInv
  <2>5. /\ Functions' /\ at'[c] = "posting" /\ post'[c] = p
        /\ \A d \in Callers \ {c} : post'[d] = post[d]
    BY <1>0, <2>1 DEF Functions
  <2>6. fit[c] = NoFit /\ CallOK(c)'
    BY <1>0, <2>1, <2>3, <2>5 DEF CallOK, FitOK
  <2> QED
    BY <2>1, <2>4, <2>5, <2>6, CallMoves
<1>17. ASSUME NEW p \in wire, KernelTakes(p)
       PROVE  ToolsInv'
  <2>1. UNCHANGED <<call, post, fit>> /\ wire' \subseteq wire
    BY <1>17 DEF KernelTakes
  <2>2. ticket' \in TicketRecs
    <3>1. CASE p.key = <<>>
      <4>1. ticket \in TicketRecs /\ p.text \in Texts
        BY <3>1 DEF ToolsInv
      <4>2. ticket' = [ticket EXCEPT !.thread = Append(ticket.thread, p.text)]
        BY <1>17, <3>1 DEF KernelTakes, Taken
      <4>3. Append(ticket.thread, p.text) \in Seq(Texts)
        BY <4>1 DEF TicketRecs
      <4> QED
        BY <4>1, <4>2, <4>3 DEF TicketRecs
    <3>2. CASE p.key # <<>>
      BY <1>17, <3>2 DEF KernelTakes, Taken, ToolsInv
    <3> QED
      BY <3>1, <3>2
  <2>3. /\ Functions' /\ DOMAIN at' = DOMAIN at
        /\ \A c \in Callers : at'[c] = at[c] \/ (at[c] = "posting" /\ at'[c] = "answered")
    BY <1>0, <1>17, <2>1 DEF KernelTakes, Functions
  <2>4. ASSUME NEW c \in Callers
        PROVE  CallOK(c)' /\ FitOK(c)'
    <3>1. CASE at'[c] = at[c]
      BY <1>0, <2>1, <3>1 DEF CallOK, FitOK
    <3>2. CASE at[c] = "posting" /\ at'[c] = "answered"
      BY <1>0, <2>1, <3>2 DEF CallOK, FitOK
    <3> QED
      BY <2>3, <3>1, <3>2
  <2> QED
    BY <2>1, <2>2, <2>3, <2>4 DEF ToolsInv
<1> QED
  BY <1>1, <1>2, <1>3, <1>4, <1>5, <1>6, <1>7, <1>8, <1>9, <1>10, <1>11, <1>12, <1>13, <1>14, <1>15, <1>16, <1>17
     DEF Next, Serve

LEMMA ToolsInvHolds ==
  ASSUME CostsAreNumbers
  PROVE  Spec => []ToolsInv
<1>1. ToolsInv /\ [Next]_vars => ToolsInv'
  BY ToolsInvStep
<1> QED
  BY <1>1, ToolsInvInit, PTL DEF Spec

\* fitGetProjection: whatever the ticket, the budget of the mode and the cost of a text, the
\* newest comment is kept, and older ones go before it is tightened.
THEOREM NewestAlwaysSurvives ==
  ASSUME CostsAreNumbers
  PROVE  Spec => []NewestSurvives
<1>1. ToolsInv => NewestSurvives
  BY GoodKeepsNewest DEF ToolsInv, FitOK, NewestSurvives
<1> QED
  BY <1>1, ToolsInvHolds, PTL

\* fitGetProjection: an answer accounts for every comment dropped or clipped, and says when
\* the body was clipped.
THEOREM LossIsNeverSilent ==
  ASSUME CostsAreNumbers
  PROVE  Spec => []NoLossIsSilent
<1>1. ToolsInv => NoLossIsSilent
  BY GoodCountsLosses DEF ToolsInv, FitOK, NoLossIsSilent
<1> QED
  BY <1>1, ToolsInvHolds, PTL

\* shrinkToFit: a ticket is refused only with one comment left at most, and what costs most
\* at the floor.
THEOREM OversizeIsAlwaysReal ==
  ASSUME CostsAreNumbers
  PROVE  Spec => []OversizeIsReal
<1>1. ToolsInv => OversizeIsReal
  BY DEF ToolsInv, FitOK, OversizeIsReal
<1> QED
  BY <1>1, ToolsInvHolds, PTL

----------------------------------------------------------------------------
(* ticket_create, called again *)

\* The key says what is asked for, not who asks or how often.
KeyOf(r) == IF r.key # "" THEN <<r.key>> ELSE <<r.board, r.title, r.head>>
Made == [key : {KeyOf(r) : r \in Requests}, text : Requests]

\* A caller sends what it was asked for first; no two tickets have a key in common.
RetryInv ==
  /\ DOMAIN call = Callers /\ DOMAIN post = Callers
  /\ \A c \in Callers : call[c].tool = "ticket_create" => post[c].text \in Requests
  /\ \A p \in wire : p.key # <<>> => p.text \in Requests /\ p.key = KeyOf(p.text)
  /\ made \in Seq(Made) /\ \A i \in DOMAIN made : made[i].key = KeyOf(made[i].text)
  /\ \A i, j \in DOMAIN made : made[i].key = made[j].key => i = j

LEMMA SendsWhatWasAsked ==
  ASSUME RetryInv, NEW c \in Callers, NEW t, NEW text, Sends(c, t, text), DOMAIN call' = Callers,
         t = "ticket_create" => text \in Requests, call'[c].tool = t,
         \A d \in Callers \ {c} : call'[d] = call[d]
  PROVE  RetryInv'
<1> DEFINE q == [by |-> c, try |-> posts[c] + 1,
                 key |-> IF t = "ticket_create" THEN Key(c, text) ELSE <<>>, text |-> text]
<1>1. post' = [post EXCEPT ![c] = q] /\ wire' = wire \cup {q} /\ made' = made
  BY DEF Sends
<1>2. q.text = text /\ q.key = IF t = "ticket_create" THEN KeyOf(text) ELSE <<>>
  BY DEF Key, KeyOf
<1> HIDE DEF q
<1>3. DOMAIN post' = Callers /\ \A d \in Callers : post'[d] = IF d = c THEN q ELSE post[d]
  BY <1>1 DEF RetryInv
<1>4. \A d \in Callers : call'[d].tool = "ticket_create" => post'[d].text \in Requests
  BY <1>2, <1>3 DEF RetryInv
<1>5. \A p \in wire' : p.key # <<>> => p.text \in Requests /\ p.key = KeyOf(p.text)
  BY <1>1, <1>2 DEF RetryInv
<1> QED
  BY <1>1, <1>3, <1>4, <1>5 DEF RetryInv

LEMMA RetryInvStep ==
  ASSUME RetryInv, [Next]_vars
  PROVE  RetryInv'
<1>1. ASSUME UNCHANGED <<call, post, wire, made>>
      PROVE  RetryInv'
  BY <1>1 DEF RetryInv
<1>2. ASSUME NEW c \in Callers, NEW k, k.tool # "ticket_create", call' = [call EXCEPT ![c] = k],
             UNCHANGED <<post, wire, made>>
      PROVE  RetryInv'
  BY <1>2 DEF RetryInv
<1>3. CASE UNCHANGED vars
  BY <1>1, <1>3 DEF vars, callVars, postVars
<1>4. CASE \/ Clock \/ (\E b \in Archivable : FlipBoard(b)) \/ (\E k \in Cards, s \in Columns : MoveCard(k, s))
  BY <1>1, <1>4 DEF Clock, FlipBoard, MoveCard, callVars, postVars
<1>5. ASSUME NEW c \in Callers, Acquire(c) \/ Refresh(c) \/ GoesOn(c) \/ Refused(c) \/ RequestFails(c)
      PROVE  RetryInv'
  BY <1>1, <1>5 DEF Acquire, Refresh, GoesOn, Refused, RequestFails, Backend, callVars, postVars
<1>6. ASSUME NEW c \in Callers, GetTicket(c) \/ Fit(c)
      PROVE  RetryInv'
  <2>1. \E f : FitTo(c, f)
    BY <1>6 DEF GetTicket, Fit, Fitted, DropOldest, ShrinkOrGiveUp
  <2> QED
    BY <1>1, <2>1 DEF FitTo, Backend, postVars
<1>7. ASSUME NEW c \in Callers,
             \/ (\E s \in Filters : GetBoard(c, s)) \/ ListBoards(c) \/ AnswerQueue(c)
             \/ \E b \in Boards : GetQueueBoard(c, b)
      PROVE  RetryInv'
  <2>1. \E q : ListTo(c, q)
    BY <1>7 DEF GetBoard, ListBoards, AnswerQueue, GetQueueBoard
  <2> QED
    BY <1>1, <2>1 DEF ListTo, Backend, postVars
<1>8. ASSUME NEW c \in Callers, Return(c)
      PROVE  RetryInv'
  BY <1>2, <1>8 DEF Return, Backend, postVars, NoCall
<1>9. ASSUME NEW c \in Callers, NEW t \in Reads, NEW b, NEW m, CallRead(c, t, b, m)
      PROVE  RetryInv'
  BY <1>2, <1>9 DEF CallRead, Calls, Backend, postVars, Reads
<1>10. ASSUME NEW c \in Callers, CallQueue(c)
       PROVE  RetryInv'
  BY <1>2, <1>10 DEF CallQueue, Calls, Backend, postVars
<1>11. ASSUME NEW c \in Callers, NEW r \in Requests, CallCreate(c, r)
       PROVE  RetryInv'
  BY <1>11, SendsWhatWasAsked DEF CallCreate, Calls, RetryInv
<1>12. ASSUME NEW c \in Callers, NEW r \in Remarks, CallComment(c, r)
       PROVE  RetryInv'
  BY <1>12, SendsWhatWasAsked DEF CallComment, Calls, RetryInv
<1>13. ASSUME NEW c \in Callers, CallAgain(c)
       PROVE  RetryInv'
  BY <1>13, SendsWhatWasAsked DEF CallAgain, RetryInv
<1>14. ASSUME NEW p \in wire, KernelTakes(p)
       PROVE  RetryInv'
  <2>1. wire' \subseteq wire /\ UNCHANGED <<call, post>>
    BY <1>14 DEF KernelTakes
  <2>2. CASE made' = made
    BY <2>1, <2>2 DEF RetryInv
  <2>3. CASE /\ p.key # <<>> /\ ~\E i \in DOMAIN made : made[i].key = p.key
             /\ made' = Append(made, [key |-> p.key, text |-> p.text])
    <3> DEFINE e == [key |-> p.key, text |-> p.text]
    <3>1. e.key = p.key /\ e.text = p.text /\ e.key = KeyOf(e.text) /\ e \in Made
      BY <2>3 DEF RetryInv, Made
    <3> HIDE DEF e
    <3>2. made' = Append(made, e) /\ made \in Seq(Made)
      BY <2>3 DEF e, RetryInv
    <3>3. /\ made' \in Seq(Made) /\ DOMAIN made = 1..Len(made) /\ DOMAIN made' = 1..(Len(made) + 1)
          /\ Len(made) \in Nat /\ made'[Len(made) + 1] = e
          /\ \A i \in DOMAIN made : made'[i] = made[i]
      BY <3>1, <3>2
    <3>4. \A i \in DOMAIN made' : i = Len(made) + 1 \/ i \in DOMAIN made
      BY <3>3
    <3>5. \A i \in DOMAIN made : made[i].key # e.key
      BY <2>3, <3>1
    <3>6. \A i \in DOMAIN made' : made'[i].key = KeyOf(made'[i].text)
      BY <3>1, <3>3, <3>4 DEF RetryInv
    <3>7. \A i, j \in DOMAIN made' : made'[i].key = made'[j].key => i = j
      BY <3>3, <3>4, <3>5 DEF RetryInv
    <3> QED
      BY <2>1, <3>3, <3>6, <3>7 DEF RetryInv
  <2> QED
    BY <1>14, <2>2, <2>3 DEF KernelTakes, Taken
<1> QED
  BY <1>3, <1>4, <1>5, <1>6, <1>7, <1>8, <1>9, <1>10, <1>11, <1>12, <1>13, <1>14 DEF Next, Serve

\* ticket_create: a request makes one ticket, however often its clients call again and
\* whenever the kernel takes the posts of which they heard nothing.
THEOREM RetriesCreateOnce == Spec => []RetryCreatesOnce
<1>1. Init => RetryInv
  <2> SUFFICES ASSUME Init PROVE RetryInv
    OBVIOUS
  <2>1. made \in Seq(Made) /\ DOMAIN made = {}
    BY DEF Init
  <2> QED
    BY <2>1 DEF Init, RetryInv, NoCall
<1>2. RetryInv => RetryCreatesOnce
  BY DEF RetryInv, RetryCreatesOnce
<1> QED
  BY <1>1, <1>2, RetryInvStep, PTL DEF Spec
----------------------------------------------------------------------------
(* The listing of review_queue *)

\* The order is one: two cards of a set are in it one way, and it goes on.
LEMMA QueueOrders ==
  ASSUME NEW k \in Cards, NEW l \in Cards, NEW m \in Cards
  PROVE  /\ ~QueuedBefore(k, k)
         /\ k = l \/ QueuedBefore(k, l) \/ QueuedBefore(l, k)
         /\ QueuedBefore(k, l) /\ QueuedBefore(l, m) => QueuedBefore(k, m)
<1>1. \A x \in Cards : x.board \in Int /\ x.id \in Int /\ x.priority \in Int
  BY QueueAssumption
<1>2. k.board = l.board /\ k.id = l.id => k = l
  BY QueueAssumption
<1> QED
  BY <1>1, <1>2 DEF QueuedBefore

\* How many cards of a set come before one of them: a number for each, and all are used.
LEMMA RanksCount ==
  ASSUME NEW found \in SUBSET Cards
  PROVE  LET rank(k) == Cardinality({l \in found : QueuedBefore(l, k)}) IN
         /\ Cardinality(found) \in Nat
         /\ \A k \in found : rank(k) \in 0..(Cardinality(found) - 1)
         /\ \A k, l \in found : QueuedBefore(k, l) => rank(k) < rank(l)
         /\ \A n \in 0..(Cardinality(found) - 1) : \E k \in found : rank(k) = n
<1> DEFINE before(k) == {l \in found : QueuedBefore(l, k)}
           rank(k) == Cardinality(before(k))
           size == Cardinality(found)
<1>1. IsFiniteSet(found) /\ size \in Nat
  BY QueueAssumption, FS_Subset, FS_CardinalityType
<1>2. ASSUME NEW k \in found
      PROVE  /\ IsFiniteSet(before(k)) /\ rank(k) \in Nat /\ k \notin before(k)
             /\ rank(k) \in 0..(size - 1)
  <2>1. k \notin before(k) /\ before(k) \subseteq found \ {k} /\ before(k) \subseteq found
    BY QueueOrders
  <2>2. IsFiniteSet(before(k)) /\ rank(k) \in Nat
    BY <1>1, <2>1, FS_Subset, FS_CardinalityType
  <2>3. IsFiniteSet(found \ {k}) /\ Cardinality(found \ {k}) = size - 1
    BY <1>1, FS_RemoveElement
  <2>4. rank(k) <= size - 1
    BY <2>1, <2>3, FS_Subset
  <2> QED
    BY <1>1, <2>1, <2>2, <2>4
<1>3. ASSUME NEW k \in found, NEW l \in found, QueuedBefore(k, l)
      PROVE  rank(k) < rank(l)
  <2>1. before(k) \cup {k} \subseteq before(l)
    BY <1>3, QueueOrders
  <2>2. IsFiniteSet(before(k)) /\ k \notin before(k) /\ IsFiniteSet(before(l)) /\ rank(k) \in Nat /\ rank(l) \in Nat
    BY <1>2
  <2> HIDE DEF before
  <2>3. Cardinality(before(k) \cup {k}) = rank(k) + 1
    BY <2>2, FS_AddElement
  <2>4. Cardinality(before(k) \cup {k}) <= rank(l)
    BY <2>1, <2>2, FS_Subset
  <2> QED
    BY <2>2, <2>3, <2>4
<1>4. ASSUME NEW n \in 0..(size - 1)
      PROVE  \E k \in found : rank(k) = n
  <2> DEFINE places == 0..(size - 1)
             f == [k \in found |-> rank(k)]
  <2> HIDE DEF rank
  <2>1. \A k, l \in found : f[k] = f[l] => k = l
    <3> SUFFICES ASSUME NEW k \in found, NEW l \in found, rank(k) = rank(l), k # l PROVE FALSE
      OBVIOUS
    <3>1. QueuedBefore(k, l) \/ QueuedBefore(l, k)
      BY QueueOrders
    <3>2. rank(k) \in Nat /\ rank(l) \in Nat
      BY <1>2
    <3> QED
      BY <1>3, <3>1, <3>2
  <2>2. f \in [found -> places]
    BY <1>2
  <2>3. f \in Injection(found, places)
    BY <2>1, <2>2 DEF Injection, IsInjective
  <2>4. IsFiniteSet(places) /\ Cardinality(places) = size
    BY <1>1, FS_Interval
  <2>5. f \in Surjection(found, places)
    BY <1>1, <2>3, <2>4, FS_Injection
  <2>6. \E k \in found : f[k] = n
    BY <2>5 DEF Surjection
  <2> QED
    BY <2>6
<1> QED
  BY <1>1, <1>2, <1>3, <1>4

\* The sorted sequence has every card once, and in order.
LEMMA SortedIs ==
  ASSUME NEW found \in SUBSET Cards
  PROVE  LET all == Sorted(found, QueuedBefore) IN
         /\ Len(all) = Cardinality(found) /\ Len(all) \in Nat
         /\ all \in [1..Len(all) -> found]
         /\ \A k \in found : \E i \in 1..Len(all) : all[i] = k
         /\ \A i, j \in 1..Len(all) : i < j => QueuedBefore(all[i], all[j])
<1> DEFINE rank(k) == Cardinality({l \in found : QueuedBefore(l, k)})
           size == Cardinality(found)
           all == Sorted(found, QueuedBefore)
<1>1. /\ size \in Nat
      /\ \A k \in found : rank(k) \in 0..(size - 1)
      /\ \A k, l \in found : QueuedBefore(k, l) => rank(k) < rank(l)
      /\ \A n \in 0..(size - 1) : \E k \in found : rank(k) = n
  BY RanksCount
<1>2. all = [n \in 1..size |-> CHOOSE k \in found : rank(k) = n - 1]
  BY DEF Sorted
<1> HIDE DEF rank, size, all
<1>3. ASSUME NEW i \in 1..size
      PROVE  all[i] \in found /\ rank(all[i]) = i - 1
  <2>1. i - 1 \in 0..(size - 1)
    BY <1>1
  <2>2. \E k \in found : rank(k) = i - 1
    BY <1>1, <2>1
  <2> QED
    BY <1>2, <2>2
<1>4. Len(all) = size
  BY <1>1, <1>2
<1>5. ASSUME NEW k \in found, NEW l \in found, k # l
      PROVE  QueuedBefore(k, l) \/ QueuedBefore(l, k)
  BY <1>5, QueueOrders
<1>6. ASSUME NEW i \in 1..size, NEW j \in 1..size, i < j
      PROVE  QueuedBefore(all[i], all[j])
  <2>1. /\ all[i] \in found /\ all[j] \in found /\ rank(all[i]) = i - 1 /\ rank(all[j]) = j - 1
    BY <1>3
  <2>2. rank(all[i]) < rank(all[j]) /\ ~(rank(all[j]) < rank(all[i])) /\ rank(all[i]) # rank(all[j])
    BY <1>1, <1>6, <2>1
  <2> QED
    BY <1>1, <1>5, <2>1, <2>2
<1>7. ASSUME NEW k \in found
      PROVE  \E i \in 1..size : all[i] = k
  <2> DEFINE i == rank(k) + 1
  <2>1. i \in 1..size /\ rank(k) = i - 1 /\ rank(k) \in Nat
    BY <1>1
  <2>2. all[i] \in found /\ rank(all[i]) = rank(k)
    BY <1>3, <2>1
  <2>3. ~(rank(all[i]) < rank(k)) /\ ~(rank(k) < rank(all[i]))
    BY <2>1, <2>2
  <2>4. all[i] = k
    BY <1>1, <1>5, <2>2, <2>3
  <2> QED
    BY <2>1, <2>4
<1>8. all \in [1..size -> found]
  BY <1>2, <1>3
<1> QED
  BY <1>1, <1>4, <1>6, <1>7, <1>8 DEF size, all

\* A set of numbers that is not empty has a least one.
LEMMA LeastNumber ==
  ASSUME NEW T \in SUBSET Nat, T # {}
  PROVE  \E x \in T : \A y \in T : x <= y
<1> DEFINE R == OpToRel(<, Nat)
<1>1. IsWellFoundedOn(R, Nat)
  BY NatLessThanWellFounded
<1>2. \A x, y \in Nat : <<y, x>> \in R <=> y < x
  BY DEF OpToRel
<1> HIDE DEF R
<1>3. PICK x \in T : \A y \in T : ~(<<y, x>> \in R)
  BY <1>1, WFMin
<1>4. \A y \in T : ~(y < x)
  BY <1>2, <1>3
<1> QED
  BY <1>4

\* Trimming and capping leave the first rows.
LEMMA TakeIsPrefix ==
  ASSUME NEW S, NEW rows \in Seq(S), NEW n \in 0..Len(rows)
  PROVE  /\ Take(rows, n) \in Seq(S) /\ Len(Take(rows, n)) = n
         /\ \A i \in 1..n : Take(rows, n)[i] = rows[i]
BY DEF Take

\* What renderReviewQueue keeps is well-defined, and no more than there is.
LEMMA TrimmedIsPrefix ==
  ASSUME NEW S, NEW rows \in Seq(S)
  PROVE  \E n \in 0..Len(rows) : Trimmed(rows) = Take(rows, n)
<1> DEFINE size == Len(rows)
           Step(f, n) == IF ~TooLong(Take(rows, n)) THEN n ELSE IF n <= 1 THEN 0 ELSE f[(n * 3) \div 4]
           Keeps(f, m) == /\ f \in [0..m -> 0..size] /\ \A n \in 0..m : f[n] = Step(f, n)
           Kept[n \in 0..size] ==
             IF ~TooLong(Take(rows, n)) THEN n ELSE IF n <= 1 THEN 0 ELSE Kept[(n * 3) \div 4]
<1>0. size \in Nat
  OBVIOUS
<1> HIDE DEF Keeps
<1>1. \A m \in 0..size : \E f : Keeps(f, m)
  <2> DEFINE T == {m \in Nat : m <= size /\ ~\E f : Keeps(f, m)}
  <2> SUFFICES ASSUME T # {} PROVE FALSE
    BY <1>0
  <2>1. PICK m \in T : \A k \in T : m <= k
    <3>1. T \in SUBSET Nat
      OBVIOUS
    <3> HIDE DEF T
    <3> QED
      BY <3>1, LeastNumber
  <2>2. m \in Nat /\ m <= size /\ ~\E f : Keeps(f, m)
    OBVIOUS
  <2>3. CASE m = 0
    <3> DEFINE f == [n \in 0..0 |-> 0]
    <3>1. Keeps(f, 0)
      BY <1>0 DEF Keeps
    <3> QED
      BY <2>2, <2>3, <3>1
  <2>4. CASE m # 0
    <3>1. m - 1 \in Nat /\ m - 1 <= size /\ ~(m <= m - 1)
      BY <2>2, <2>4
    <3>2. m - 1 \notin T
      BY <2>1, <3>1
    <3>3. PICK f : Keeps(f, m - 1)
      BY <3>1, <3>2
    <3> DEFINE v == Step(f, m)
               g == [n \in 0..m |-> IF n = m THEN v ELSE f[n]]
    <3> HIDE DEF T
    <3>4. ASSUME NEW n \in 2..m
          PROVE  (n * 3) \div 4 \in 0..(m - 1) /\ (n * 3) \div 4 < n
      BY <2>2, <3>4
    <3>5. v \in 0..size
      BY <2>2, <2>4, <3>3, <3>4 DEF Keeps
    <3>6. g \in [0..m -> 0..size]
      BY <2>2, <3>3, <3>5 DEF Keeps
    <3>7. \A n \in 0..m : Step(g, n) = Step(f, n)
      BY <2>2, <3>4
    <3>8. ASSUME NEW n \in 0..m
          PROVE  g[n] = Step(f, n)
      <4>1. n # m => n \in 0..(m - 1)
        BY <2>2
      <4>2. n # m => f[n] = Step(f, n)
        BY <3>3, <4>1 DEF Keeps
      <4> HIDE DEF Step
      <4> QED
        BY <4>2
    <3>9. Keeps(g, m)
      <4> HIDE DEF g, Step
      <4> QED
        BY <3>6, <3>7, <3>8 DEF Keeps
    <3> QED
      BY <2>2, <3>9
  <2> QED
    BY <2>3, <2>4
<1>2. PICK f : Keeps(f, size)
  BY <1>0, <1>1
<1>3. f = [n \in 0..size |-> Step(f, n)]
  BY <1>2 DEF Keeps
<1>4. Kept = [n \in 0..size |-> Step(Kept, n)]
  BY <1>3, Zenon
<1>5. Trimmed(rows) = Take(rows, Kept[size])
  BY DEF Trimmed
<1> HIDE DEF Kept
<1>6. \A n \in 0..size : Kept[n] \in 0..size
  <2> DEFINE T == {m \in Nat : m <= size /\ Kept[m] \notin 0..size}
  <2> SUFFICES ASSUME T # {} PROVE FALSE
    BY <1>0
  <2>1. PICK m \in T : \A k \in T : m <= k
    <3>1. T \in SUBSET Nat
      OBVIOUS
    <3> HIDE DEF T
    <3> QED
      BY <3>1, LeastNumber
  <2>2. m \in Nat /\ m <= size /\ Kept[m] \notin 0..size /\ Kept[m] = Step(Kept, m)
    BY <1>0, <1>4
  <2>3. m > 1 /\ Kept[m] = Kept[(m * 3) \div 4]
    BY <1>0, <2>2
  <2>4. (m * 3) \div 4 \in Nat /\ (m * 3) \div 4 < m
    BY <2>2, <2>3
  <2>5. (m * 3) \div 4 \in T
    BY <1>0, <2>2, <2>3, <2>4
  <2> HIDE DEF T
  <2> QED
    BY <2>1, <2>2, <2>4, <2>5
<1> QED
  BY <1>0, <1>5, <1>6

\* An answer that is made of the cards found has the first ones, and tells of the rest.
Honest(q) ==
  LET left == q.found \ {q.rows[i] : i \in DOMAIN q.rows} IN
  /\ q.truncated <=> left # {}
  /\ \A i \in DOMAIN q.rows, k \in left : QueuedBefore(q.rows[i], k)

Listings == [left : SUBSET Boards, found : SUBSET Cards, steady : SUBSET Cards, rows : Seq(Cards), truncated : BOOLEAN]

LEMMA QueuedIsHonest ==
  ASSUME NEW q \in Listings
  PROVE  /\ Queued(q) \in Listings /\ Honest(Queued(q))
         /\ Queued(q).found = q.found /\ Queued(q).steady = q.steady
<1> DEFINE all == Sorted(q.found, QueuedBefore)
           capped == Capped(all, MaxQueueItems)
           rows == Trimmed(capped)
           truncated == Len(all) > MaxQueueItems \/ Len(rows) < Len(capped)
<1>0. q.found \in SUBSET Cards /\ MaxQueueItems \in Nat
  BY QueueAssumption DEF Listings
<1>1. /\ Len(all) \in Nat /\ all \in [1..Len(all) -> q.found]
      /\ \A k \in q.found : \E i \in 1..Len(all) : all[i] = k
      /\ \A i, j \in 1..Len(all) : i < j => QueuedBefore(all[i], all[j])
  BY <1>0, SortedIs
<1> HIDE DEF all
<1>2. all \in Seq(q.found)
  BY <1>1
<1>3. /\ capped \in Seq(q.found) /\ Len(capped) = IF Len(all) > MaxQueueItems THEN MaxQueueItems ELSE Len(all)
      /\ \A i \in 1..Len(capped) : capped[i] = all[i]
  <2>1. CASE Len(all) > MaxQueueItems
    <3>1. MaxQueueItems \in 0..Len(all) /\ capped = Take(all, MaxQueueItems)
      BY <1>0, <1>1, <2>1 DEF Capped
    <3> HIDE DEF capped
    <3> QED
      BY <1>2, <2>1, <3>1, TakeIsPrefix
  <2>2. CASE ~(Len(all) > MaxQueueItems)
    BY <1>2, <2>2 DEF Capped
  <2> QED
    BY <2>1, <2>2
<1> HIDE DEF capped
<1>4. PICK n \in 0..Len(capped) : rows = Take(capped, n)
  BY <1>3, TrimmedIsPrefix
<1>5. /\ rows \in Seq(q.found) /\ Len(rows) = n
      /\ \A i \in 1..n : rows[i] = capped[i]
  BY <1>3, <1>4, TakeIsPrefix
<1> HIDE DEF rows
<1>6. /\ DOMAIN rows = 1..n /\ n \in 0..Len(all) /\ \A i \in 1..n : rows[i] = all[i]
      /\ truncated <=> n < Len(all)
  <2>1. Len(capped) \in 0..Len(all) /\ n \in Nat
    BY <1>0, <1>1, <1>3, <1>4
  <2>2. n \in 0..Len(all) /\ 1..n \subseteq 1..Len(capped)
    BY <1>1, <1>4, <2>1
  <2>3. truncated <=> n < Len(all)
    BY <1>0, <1>1, <1>3, <1>4, <1>5, <2>1
  <2>4. \A i \in 1..n : rows[i] = all[i]
    BY <1>3, <1>5, <2>2
  <2>5. DOMAIN rows = 1..n
    BY <1>5, <2>1
  <2> QED
    BY <2>2, <2>3, <2>4, <2>5
<1> HIDE DEF truncated
<1>7. Queued(q) = [q EXCEPT !.rows = rows, !.truncated = truncated]
  BY DEF Queued, rows, capped, all, truncated
<1>8. /\ Queued(q) \in Listings /\ Queued(q).found = q.found /\ Queued(q).steady = q.steady
      /\ Queued(q).rows = rows /\ Queued(q).truncated = truncated
  <2>1. rows \in Seq(Cards)
    BY <1>0, <1>5
  <2>2. truncated \in BOOLEAN
    BY DEF truncated
  <2> QED
    BY <1>7, <2>1, <2>2 DEF Listings
<1> DEFINE left == q.found \ {rows[i] : i \in DOMAIN rows}
<1>9. \A k \in left : \E j \in 1..Len(all) : j > n /\ all[j] = k
  <2> TAKE k \in left
  <2>1. PICK j \in 1..Len(all) : all[j] = k
    BY <1>1
  <2>2. ~(j <= n)
    BY <1>6, <2>1
  <2> QED
    BY <1>6, <2>1, <2>2
<1>10. ASSUME NEW i \in DOMAIN rows, NEW k \in left
       PROVE  QueuedBefore(rows[i], k)
  BY <1>1, <1>6, <1>9
<1>11. ASSUME n < Len(all)
       PROVE  left # {}
  <2>1. n + 1 \in 1..Len(all) /\ all[n + 1] \in q.found /\ all[n + 1] \in Cards
    BY <1>0, <1>1, <1>6, <1>11
  <2>2. \A i \in 1..n : rows[i] # all[n + 1]
    <3> TAKE i \in 1..n
    <3>1. QueuedBefore(all[i], all[n + 1])
      BY <1>1, <1>6, <2>1
    <3>2. ~QueuedBefore(all[n + 1], all[n + 1])
      BY <2>1, QueueOrders
    <3> QED
      BY <1>6, <3>1, <3>2
  <2> QED
    BY <1>6, <2>1, <2>2
<1>12. truncated <=> left # {}
  BY <1>6, <1>9, <1>11
<1> QED
  BY <1>8, <1>10, <1>12 DEF Honest

\* What one caller has listed.  While boards are read, a card that has waited all along is
\* found, or its board is still to be read and the card waits there.
StillSeen(q) == q.steady \subseteq q.found \cup {k \in Waiting : k.board \in q.left}
QueueOK(c) ==
  /\ at[c] \in {"asking", "getting", "listing", "fitting", "posting"} => call[c].tool # "review_queue"
  /\ at[c] = "reading" => queue[c] \in Listings /\ StillSeen(queue[c])
  /\ at[c] = "answered" /\ call[c].tool = "review_queue" =>
       queue[c] \in Listings /\ queue[c].steady \subseteq queue[c].found /\ Honest(queue[c])

Callings ==
  /\ at = [c \in Callers |-> at[c]] /\ call = [c \in Callers |-> call[c]]
  /\ queue = [c \in Callers |-> queue[c]] /\ column = [k \in Cards |-> column[k]]
QueueInv == Callings /\ \A c \in Callers : QueueOK(c)

LEMMA QueueInvInit == Init => QueueInv
<1> SUFFICES ASSUME Init PROVE QueueInv
  OBVIOUS
<1>1. column \in [Cards -> Columns]
  BY ToolsAssumption DEF Init
<1>2. Callings
  BY <1>1 DEF Init, Callings
<1>3. \A c \in Callers : at[c] = "idle"
  BY DEF Init
<1> QED
  BY <1>2, <1>3 DEF QueueInv, QueueOK

\* Neither the other calls nor the boards of the backend touch a listing.
LEMMA OthersKeepListings ==
  ASSUME QueueInv, UNCHANGED <<at, call, queue, column>>
  PROVE  QueueInv'
BY DEF QueueInv, Callings, QueueOK, StillSeen, Waiting

\* One caller goes on, to where its listing is in order.
LEMMA OneListing ==
  ASSUME QueueInv, NEW c \in Callers, NEW where, NEW asked, NEW q, UNCHANGED column,
         at' = [at EXCEPT ![c] = where], call' = [call EXCEPT ![c] = asked], queue' = [queue EXCEPT ![c] = q],
         where \in {"asking", "getting", "listing", "fitting", "posting"} => asked.tool # "review_queue",
         where = "reading" => q \in Listings /\ StillSeen(q),
         where = "answered" /\ asked.tool = "review_queue" => q \in Listings /\ q.steady \subseteq q.found /\ Honest(q)
  PROVE  QueueInv'
<1>1. /\ Callings' /\ at'[c] = where /\ call'[c] = asked /\ queue'[c] = q
      /\ \A d \in Callers \ {c} : at'[d] = at[d] /\ call'[d] = call[d] /\ queue'[d] = queue[d]
  BY DEF QueueInv, Callings
<1>2. Waiting' = Waiting
  BY DEF Waiting
<1>3. QueueOK(c)'
  BY <1>1, <1>2 DEF QueueOK, StillSeen
<1>4. ASSUME NEW d \in Callers \ {c}
      PROVE  QueueOK(d)'
  <2>1. QueueOK(d)
    BY DEF QueueInv
  <2> QED
    BY <1>1, <1>2, <2>1 DEF QueueOK, StillSeen
<1> QED
  BY <1>1, <1>3, <1>4 DEF QueueInv

\* A caller's own call goes on without its listing.
LEMMA CallGoesOn ==
  ASSUME QueueInv, NEW c \in Callers, NEW where, UNCHANGED <<column, call, queue>>,
         at' = [at EXCEPT ![c] = where], where # "reading",
         where \in {"asking", "getting", "listing", "fitting", "posting", "answered"} => call[c].tool # "review_queue"
  PROVE  QueueInv'
<1>1. call' = [call EXCEPT ![c] = call[c]] /\ queue' = [queue EXCEPT ![c] = queue[c]]
  BY DEF QueueInv, Callings
<1>2. UNCHANGED column
  OBVIOUS
<1> QED
  <2> DEFINE asked == call[c]
             q == queue[c]
  <2>1. call' = [call EXCEPT ![c] = asked] /\ queue' = [queue EXCEPT ![c] = q]
    BY <1>1
  <2>2. /\ where \in {"asking", "getting", "listing", "fitting", "posting"} => asked.tool # "review_queue"
        /\ ~(where = "reading")
        /\ ~(where = "answered" /\ asked.tool = "review_queue")
    OBVIOUS
  <2> HIDE DEF asked, q
  <2> QED
    BY <1>2, <2>1, <2>2, OneListing

\* A card moves: it waits no longer, or waits anew, and counts among the steady ones of
\* nobody; the others stay where they are.
LEMMA MoveKeepsListings ==
  ASSUME QueueInv, NEW k \in Cards, NEW s \in Columns, MoveCard(k, s)
  PROVE  QueueInv'
<1>1. /\ UNCHANGED <<at, call>> /\ column' = [column EXCEPT ![k] = s]
      /\ queue' = [c \in Callers |-> Unsteady(queue[c], k)]
  BY DEF MoveCard
<1>2. Callings'
  BY <1>1 DEF QueueInv, Callings
<1>3. \A l \in Cards \ {k} : l \in Waiting => l \in Waiting'
  BY <1>1 DEF QueueInv, Callings, Waiting
<1>4. ASSUME NEW c \in Callers
      PROVE  QueueOK(c)'
  <2>1. QueueOK(c)
    BY DEF QueueInv
  <2>2. queue'[c] = [queue[c] EXCEPT !.steady = @ \ {k}]
    BY <1>1 DEF Unsteady
  <2>3. CASE ~(at[c] = "reading" \/ (at[c] = "answered" /\ call[c].tool = "review_queue"))
    BY <1>1, <2>1, <2>3 DEF QueueOK
  <2>4. CASE queue[c] \in Listings
    <3>1. /\ queue'[c] \in Listings /\ queue'[c].steady = queue[c].steady \ {k}
          /\ queue'[c].found = queue[c].found /\ queue'[c].left = queue[c].left
          /\ queue'[c].rows = queue[c].rows /\ queue'[c].truncated = queue[c].truncated
      BY <2>2, <2>4 DEF Listings
    <3>2. StillSeen(queue[c]) => StillSeen(queue[c])'
      <4> SUFFICES ASSUME StillSeen(queue[c]), NEW l \in queue'[c].steady
                   PROVE  l \in queue'[c].found \/ (l \in Waiting' /\ l.board \in queue'[c].left)
        BY DEF StillSeen
      <4>1. l # k /\ l \in queue[c].steady /\ l \in Cards
        BY <2>4, <3>1 DEF Listings
      <4>2. l \in queue[c].found \/ (l \in Waiting /\ l.board \in queue[c].left)
        BY <4>1 DEF StillSeen
      <4> QED
        BY <1>3, <3>1, <4>1, <4>2
    <3>3. Honest(queue[c]) => Honest(queue[c])'
      BY <3>1 DEF Honest
    <3> QED
      BY <1>1, <2>1, <3>1, <3>2, <3>3 DEF QueueOK
  <2> QED
    BY <2>1, <2>3, <2>4 DEF QueueOK
<1> QED
  BY <1>2, <1>4 DEF QueueInv

\* Every step keeps it.
LEMMA QueueInvStep ==
  ASSUME QueueInv, active \subseteq Boards, [Next]_vars
  PROVE  QueueInv'
<1> USE DEF Becomes, Backend
<1>1. CASE UNCHANGED vars
  BY <1>1, OthersKeepListings DEF vars, callVars
<1>2. CASE Clock \/ \E b \in Archivable : FlipBoard(b)
  BY <1>2, OthersKeepListings DEF Clock, FlipBoard, callVars
<1>3. ASSUME NEW c \in Callers, Acquire(c) \/ Refresh(c)
      PROVE  QueueInv'
  BY <1>3, OthersKeepListings DEF Acquire, Refresh, callVars
<1>4. ASSUME NEW c \in Callers, NEW t \in Reads, NEW b \in Boards, NEW m \in Modes, CallRead(c, t, b, m)
      PROVE  QueueInv'
  <2>1. /\ at' = [at EXCEPT ![c] = "asking"] /\ call' = [call EXCEPT ![c] = [tool |-> t, board |-> b, mode |-> m]]
        /\ UNCHANGED <<queue, column>> /\ t # "review_queue"
    BY <1>4 DEF CallRead, Calls, Reads
  <2>2. queue' = [queue EXCEPT ![c] = queue[c]]
    BY <2>1 DEF QueueInv, Callings
  <2> QED
    BY <2>1, <2>2, OneListing
<1>5. ASSUME NEW c \in Callers, CallQueue(c)
      PROVE  QueueInv'
  <2>1. /\ at' = [at EXCEPT ![c] = "boards"] /\ UNCHANGED <<queue, column>>
        /\ call' = [call EXCEPT ![c] = [tool |-> "review_queue", board |-> None, mode |-> None]]
    BY <1>5 DEF CallQueue, Calls
  <2>2. queue' = [queue EXCEPT ![c] = queue[c]]
    BY <2>1 DEF QueueInv, Callings
  <2> QED
    BY <2>1, <2>2, OneListing
<1>6. ASSUME NEW c \in Callers, GoesOn(c)
      PROVE  QueueInv'
  <2>1. /\ at' = [at EXCEPT ![c] = IF call[c].tool = "ticket_get" THEN "getting" ELSE "listing"]
        /\ at[c] = "asking" /\ UNCHANGED <<call, queue, column>>
    BY <1>6 DEF GoesOn
  <2>2. call[c].tool # "review_queue"
    BY <2>1 DEF QueueInv, QueueOK
  <2> QED
    BY <2>1, <2>2, CallGoesOn
<1>7. ASSUME NEW c \in Callers, Refused(c) \/ RequestFails(c)
      PROVE  QueueInv'
  <2>1. at' = [at EXCEPT ![c] = "failed"] /\ UNCHANGED <<call, queue, column>>
    BY <1>7 DEF Refused, RequestFails
  <2> QED
    BY <2>1, CallGoesOn
<1>8. ASSUME NEW c \in Callers, Return(c)
      PROVE  QueueInv'
  <2>1. /\ at' = [at EXCEPT ![c] = "idle"] /\ call' = [call EXCEPT ![c] = NoCall]
        /\ queue' = [queue EXCEPT ![c] = NoListing] /\ UNCHANGED column
    BY <1>8 DEF Return
  <2> QED
    BY <2>1, OneListing
<1>9. ASSUME NEW c \in Callers, GetTicket(c) \/ Fit(c)
      PROVE  QueueInv'
  <2>1. at[c] \in {"getting", "fitting"} /\ UNCHANGED <<call, queue, column>>
    BY <1>9 DEF GetTicket, Fit, Fitted, DropOldest, ShrinkOrGiveUp, FitTo
  <2>2. call[c].tool # "review_queue"
    BY <2>1 DEF QueueInv, QueueOK
  <2>3. at' = at \/ \E where \in {"fitting", "answered", "oversized"} : at' = [at EXCEPT ![c] = where]
    BY <1>9 DEF GetTicket, Fit, Fitted, DropOldest, ShrinkOrGiveUp
  <2>4. CASE at' = at
    BY <2>1, <2>4, OthersKeepListings
  <2> QED
    BY <2>1, <2>2, <2>3, <2>4, CallGoesOn
<1>10. ASSUME NEW c \in Callers, NEW s \in Filters, GetBoard(c, s)
       PROVE  QueueInv'
  <2> DEFINE q == ListedRows(call[c].board, s)
  <2>1. /\ at' = [at EXCEPT ![c] = "answered"] /\ at[c] = "listing" /\ queue' = [queue EXCEPT ![c] = q]
        /\ UNCHANGED <<call, column>>
    BY <1>10 DEF GetBoard, ListTo
  <2>2. call' = [call EXCEPT ![c] = call[c]] /\ call[c].tool # "review_queue"
    BY <2>1 DEF QueueInv, Callings, QueueOK
  <2> HIDE DEF q
  <2> QED
    BY <2>1, <2>2, OneListing
<1>11. ASSUME NEW c \in Callers, ListBoards(c)
       PROVE  QueueInv'
  <2> DEFINE waiting == {k \in Waiting : k.board \in active}
             q == Begun(active)
  <2>1. /\ at' = [at EXCEPT ![c] = "reading"] /\ queue' = [queue EXCEPT ![c] = q] /\ UNCHANGED <<call, column>>
    BY <1>11 DEF ListBoards, ListTo
  <2>2. q \in Listings /\ StillSeen(q)
    <3>1. waiting \subseteq Cards /\ waiting \subseteq {k \in Waiting : k.board \in active} /\ <<>> \in Seq(Cards)
      BY DEF Waiting
    <3>2. q = [NoListing EXCEPT !.left = active, !.steady = waiting]
      BY DEF Begun
    <3> HIDE DEF q, waiting
    <3>3. q \in Listings /\ q.left = active /\ q.steady = waiting
      BY <3>1, <3>2 DEF Listings, NoListing
    <3> QED
      BY <3>1, <3>3 DEF StillSeen
  <2>3. call' = [call EXCEPT ![c] = call[c]]
    BY <2>1 DEF QueueInv, Callings
  <2> HIDE DEF q
  <2> QED
    BY <2>1, <2>2, <2>3, OneListing
<1>12. ASSUME NEW c \in Callers, NEW b \in Boards, GetQueueBoard(c, b)
       PROVE  QueueInv'
  <2> DEFINE q == ReadBoard(queue[c], b)
  <2>1. /\ at[c] = "reading" /\ at' = at /\ queue' = [queue EXCEPT ![c] = q] /\ UNCHANGED <<call, column>>
    BY <1>12 DEF GetQueueBoard, ListTo
  <2>2. queue[c] \in Listings /\ StillSeen(queue[c])
    BY <2>1 DEF QueueInv, QueueOK
  <2>3. /\ q \in Listings /\ q.left = queue[c].left \ {b} /\ q.steady = queue[c].steady
        /\ q.found = queue[c].found \cup {k \in Waiting : k.board = b}
    BY <2>2 DEF ReadBoard, Listings, Waiting
  <2>4. StillSeen(q)
    BY <2>2, <2>3 DEF StillSeen
  <2>5. at' = [at EXCEPT ![c] = "reading"] /\ call' = [call EXCEPT ![c] = call[c]]
    BY <2>1 DEF QueueInv, Callings
  <2> HIDE DEF q
  <2> QED
    BY <2>1, <2>3, <2>4, <2>5, OneListing
<1>13. ASSUME NEW c \in Callers, AnswerQueue(c)
       PROVE  QueueInv'
  <2> DEFINE q == Queued(queue[c])
  <2>1. /\ at[c] = "reading" /\ queue[c].left = {} /\ at' = [at EXCEPT ![c] = "answered"]
        /\ queue' = [queue EXCEPT ![c] = q] /\ UNCHANGED <<call, column>>
    BY <1>13 DEF AnswerQueue, ListTo
  <2>2. queue[c] \in Listings /\ queue[c].steady \subseteq queue[c].found
    BY <2>1 DEF QueueInv, QueueOK, StillSeen
  <2>3. q \in Listings /\ Honest(q) /\ q.steady \subseteq q.found
    BY <2>2, QueuedIsHonest
  <2>4. call' = [call EXCEPT ![c] = call[c]]
    BY <2>1 DEF QueueInv, Callings
  <2> HIDE DEF q
  <2> QED
    BY <2>1, <2>3, <2>4, OneListing
<1>14. ASSUME NEW c \in Callers, NEW t \in {"ticket_create", "ticket_comment"}, NEW text,
              Sends(c, t, text), call' = [call EXCEPT ![c] = [tool |-> t, board |-> None, mode |-> None]]
       PROVE  QueueInv'
  <2>1. at' = [at EXCEPT ![c] = "posting"] /\ UNCHANGED <<queue, column>>
    BY <1>14 DEF Sends
  <2>2. queue' = [queue EXCEPT ![c] = queue[c]]
    BY <2>1 DEF QueueInv, Callings, QueueOK
  <2> QED
    BY <1>14, <2>1, <2>2, OneListing
<1>15. ASSUME NEW c \in Callers, CallAgain(c)
       PROVE  QueueInv'
  <2>1. /\ at' = [at EXCEPT ![c] = "posting"] /\ call[c].tool \in {"ticket_create", "ticket_comment"}
        /\ UNCHANGED <<call, queue, column>>
    BY <1>15 DEF CallAgain, Sends
  <2> QED
    BY <2>1, CallGoesOn
<1>16. ASSUME NEW p \in wire, KernelTakes(p)
       PROVE  QueueInv'
  <2>1. UNCHANGED <<call, queue, column>>
    BY <1>16 DEF KernelTakes
  <2>2. CASE at' = at
    BY <2>1, <2>2, OthersKeepListings
  <2>3. CASE at[p.by] = "posting" /\ at' = [at EXCEPT ![p.by] = "answered"]
    <3>1. CASE p.by \in Callers
      <4>1. call[p.by].tool # "review_queue"
        BY <2>3, <3>1 DEF QueueInv, QueueOK
      <4> QED
        BY <2>1, <2>3, <3>1, <4>1, CallGoesOn
    <3>2. CASE p.by \notin Callers
      <4>1. at' = at
        BY <2>3, <3>2 DEF QueueInv, Callings
      <4> QED
        BY <2>1, <4>1, OthersKeepListings
    <3> QED
      BY <3>1, <3>2
  <2> QED
    BY <1>16, <2>2, <2>3 DEF KernelTakes
<1> QED
  BY <1>1, <1>2, <1>3, <1>4, <1>5, <1>6, <1>7, <1>8, <1>9, <1>10, <1>11, <1>12, <1>13, <1>14, <1>15, <1>16,
     MoveKeepsListings
     DEF Next, Serve, CallCreate, CallComment, Calls

\* review_queue: however the cards move while its boards are read one after the other, and
\* whichever boards come and go, an answer has every card that waited for a review all along
\* or says that rows are left out, and those it leaves out are the last in the order.
THEOREM QueueIsAlwaysHonest == Spec => []QueueIsHonest
<1>1. QueueInv => QueueIsHonest
  BY DEF QueueInv, QueueOK, Honest, QueueIsHonest
<1>2. QueueInv /\ active \subseteq Boards /\ [Next]_vars => QueueInv'
  BY QueueInvStep
<1>3. CacheInv => active \subseteq Boards
  BY DEF CacheInv, CacheTypeOK
<1>4. CacheInv /\ [CacheNext]_cacheVars => CacheInv'
  BY CacheInvStep
<1> QED
  BY <1>1, <1>2, <1>3, <1>4, CacheInvInit, QueueInvInit, ToolsKeepTheCache, PTL DEF Spec, CacheSpec
=============================================================================
