----------------------------- MODULE SlugCache -----------------------------
(***************************************************************************)
(* The cached set of board slugs (internal/mcptools/readplumbing.go):      *)
(* ticket_get, ticket_list and ticket_events ask it whether a board exists *)
(* before they send a request.  One mutex covers the look and the refresh; *)
(* boards come and go at the backend meanwhile, and time passes.           *)
(***************************************************************************)
EXTENDS Integers

CONSTANTS
  Callers,    \* tool calls that may run at once
  Boards,     \* boards: numbers, in the order of their slugs
  Archivable, \* boards that come and go
  None,       \* no caller, no board
  TTL,        \* boardSlugCacheTTL, in ticks
  MaxFetch    \* the timeout of a backend request, in ticks

ASSUME CacheAssumption ==
  /\ Boards \subseteq Nat /\ Archivable \subseteq Boards
  /\ TTL \in Nat \ {0} /\ MaxFetch \in Nat
  /\ None \notin Callers \cup Boards

VARIABLES
  active, \* boards the backend lists
  since,  \* history: ticks since a board was created or archived, up to Long
  cache,  \* defaultSlugCache: slugs, and ticks since they were fetched, up to TTL
  mutex,  \* the caller that holds its mu
  ask     \* ensure, of each caller: its board, the answer of its ListBoards, the ticks that took

cacheVars == <<active, since, cache, mutex, ask>>

Long == TTL + MaxFetch
NoAsk == [at |-> "none", board |-> None, reply |-> {}, took |-> 0]
Verdicts == {"known", "unknown", "failed"}
Asks == [at : {"none", "waiting", "listing", "listed"} \cup Verdicts,
         board : Boards \cup {None}, reply : SUBSET Boards, took : 0..MaxFetch]

CacheTypeOK ==
  /\ active \subseteq Boards /\ since \in [Boards -> 0..Long]
  /\ cache \in [loaded : BOOLEAN, slugs : SUBSET Boards, age : 0..TTL]
  /\ mutex \in Callers \cup {None}
  /\ ask \in [Callers -> Asks]

CacheInit ==
  /\ active = Boards /\ since = [b \in Boards |-> Long]
  /\ cache = [loaded |-> FALSE, slugs |-> {}, age |-> TTL]
  /\ mutex = None
  /\ ask = [c \in Callers |-> NoAsk]

----------------------------------------------------------------------------
(* The backend's boards, and time. *)

Flip(b) ==
  /\ active' = IF b \in active THEN active \ {b} ELSE active \cup {b}
  /\ since' = [since EXCEPT ![b] = 0]
  /\ UNCHANGED <<cache, mutex, ask>>

Fetching(c) == ask[c].at \in {"listing", "listed"}
UpTo(n, most) == IF n < most THEN n + 1 ELSE n

\* No request outlives its timeout.
Tick ==
  /\ \A c \in Callers : Fetching(c) => ask[c].took < MaxFetch
  /\ since' = [b \in Boards |-> UpTo(since[b], Long)]
  /\ cache' = [cache EXCEPT !.age = UpTo(@, TTL)]
  /\ ask' = [c \in Callers |-> IF Fetching(c) THEN [ask[c] EXCEPT !.took = @ + 1] ELSE ask[c]]
  /\ UNCHANGED <<active, mutex>>

----------------------------------------------------------------------------
(* ensure and known *)

World == UNCHANGED <<active, since>>
Fresh == cache.loaded /\ cache.age < TTL
Verdict(b, slugs) == IF b \in slugs THEN "known" ELSE "unknown"

Ensure(c, b) ==
  /\ ask[c].at = "none"
  /\ ask' = [ask EXCEPT ![c] = [at |-> "waiting", board |-> b, reply |-> {}, took |-> 0]]
  /\ World /\ UNCHANGED <<cache, mutex>>

\* A fresh set is looked at under the mutex, without a request.
Hit(c) ==
  /\ ask[c].at = "waiting" /\ mutex = None /\ Fresh
  /\ ask' = [ask EXCEPT ![c].at = Verdict(ask[c].board, cache.slugs)]
  /\ World /\ UNCHANGED <<cache, mutex>>

\* Mutant of Miss: the mutex is not held across the fetch.
MissUnlocked(c) ==
  /\ ask[c].at = "waiting" /\ mutex = None /\ ~Fresh
  /\ ask' = [ask EXCEPT ![c].at = "listing"]
  /\ World /\ UNCHANGED <<cache, mutex>>

Miss(c) ==
  /\ ask[c].at = "waiting" /\ mutex = None /\ ~Fresh
  /\ mutex' = c
  /\ ask' = [ask EXCEPT ![c].at = "listing"]
  /\ World /\ UNCHANGED cache

\* The backend takes the list; the answer is still on its way.
Listed(c) ==
  /\ ask[c].at = "listing"
  /\ ask' = [ask EXCEPT ![c].at = "listed", ![c].reply = active]
  /\ World /\ UNCHANGED <<cache, mutex>>

Stored(c) ==
  /\ ask[c].at = "listed"
  /\ cache' = [loaded |-> TRUE, slugs |-> ask[c].reply, age |-> 0]
  /\ mutex' = None
  /\ ask' = [ask EXCEPT ![c].at = Verdict(ask[c].board, ask[c].reply)]
  /\ World

\* Mutant of ListFails: what was cached is still served.
ListFailsStale(c) ==
  /\ Fetching(c)
  /\ mutex' = None
  /\ ask' = [ask EXCEPT ![c].at = IF cache.loaded THEN Verdict(ask[c].board, cache.slugs) ELSE "failed"]
  /\ World /\ UNCHANGED cache

\* A failed refresh caches nothing and fails the call.
ListFails(c) ==
  /\ Fetching(c)
  /\ mutex' = None
  /\ ask' = [ask EXCEPT ![c].at = "failed"]
  /\ World /\ UNCHANGED cache

\* The tool goes on with the verdict.
Settled(c, verdicts) ==
  /\ ask[c].at \in verdicts
  /\ ask' = [ask EXCEPT ![c] = NoAsk]
  /\ World /\ UNCHANGED <<cache, mutex>>

CacheNext ==
  \/ Tick \/ \E b \in Archivable : Flip(b)
  \/ \E c \in Callers :
       \/ Hit(c) \/ Miss(c) \/ Listed(c) \/ Stored(c) \/ ListFails(c)
       \/ (\E b \in Boards : Ensure(c, b)) \/ Settled(c, {"known"}) \/ Settled(c, {"unknown", "failed"})

CacheSpec == CacheInit /\ [][CacheNext]_cacheVars

----------------------------------------------------------------------------
(* What the cache promises. *)

Decides(c, verdict) == ask[c].at # verdict /\ ask'[c].at = verdict

\* A board is let through, or refused, on a list at most one lifetime and one request old:
\* it is listed (or is not) now, or that has changed within that time.
SlugsAreRecent ==
  [][ \A c \in Callers :
        LET b == ask[c].board IN
        /\ Decides(c, "known") => b \in active \/ since[b] < Long
        /\ Decides(c, "unknown") => b \notin active \/ since[b] < Long ]_cacheVars

\* Callers share a refresh: at most one asks for the list, and none while the cached set
\* is fresh.
RefreshIsShared ==
  \A c \in Callers : Fetching(c) => ~Fresh /\ \A d \in Callers \ {c} : ~Fetching(d)
=============================================================================
