---------------------------- MODULE RateLimiter ----------------------------
(***************************************************************************)
(* The per-client token buckets in front of /mcp                           *)
(* (internal/httpauth/ratelimit.go).  A request reads the clock first and  *)
(* takes the mutex afterwards, so requests reach their bucket out of the   *)
(* order of their clock readings.  Tokens are floats: a token is worth     *)
(* Cost units, a tick of the clock accrues Rate of them, and every sum or  *)
(* quotient may be Slip units off.                                         *)
(***************************************************************************)
EXTENDS Integers

CONSTANTS
  Requests, \* requests being served, one per goroutine
  IPs,      \* client addresses
  Cost,     \* units per token
  Rate,     \* units that accrue in a tick (callsPerMin)
  Slip,     \* units that one rounding may add or take
  Capacity, \* burst, in units
  Second,   \* ticks per second
  MaxClock  \* bound: the clock stops

ASSUME LimiterAssumption ==
  /\ Cost \in Nat \ {0} /\ Second \in Nat \ {0} /\ Rate \in Nat \ {0}
  /\ Slip \in 0..Rate
  /\ Capacity \in Nat /\ Capacity >= Cost
  /\ MaxClock \in Nat

VARIABLES
  clock,
  bucket,  \* RateLimiter.buckets, by key: made or not, its units, its refill clock
  request, \* per request: waiting for the mutex with the clock it read, idle, or refused
  from,    \* history: when an observer last opened a window, at any moment
  spent,   \* history: units granted to each client's requests that came in since
  total,   \* history: units granted to each client
  promise, \* history: the earliest retry offered to each client since it was last
           \* granted; -1 when none was
  rounded  \* history: per client, the accruals of refused requests since its first offer

vars == <<clock, bucket, request, from, spent, total, promise, rounded>>

Bucket  == [made : BOOLEAN, units : 0..Capacity, last : Nat]
Request == [at : {"idle", "lock", "refused"}, ip : IPs, now : Nat]

\* The state is well typed: no bucket holds more than its burst or owes units, and
\* neither a request nor a bucket has a clock reading of a time that has not come.
TypeOK ==
  /\ clock \in Nat /\ from \in Nat
  /\ bucket \in [IPs -> Bucket]
  /\ request \in [Requests -> Request]
  /\ spent \in [IPs -> Nat] /\ total \in [IPs -> Nat]
  /\ promise \in [IPs -> Int] /\ rounded \in [IPs -> Nat]
  /\ \A r \in Requests : request[r].now <= clock
  /\ \A ip \in IPs : bucket[ip].last <= clock

Init ==
  /\ clock = 0 /\ from = 0
  /\ bucket = [ip \in IPs |-> [made |-> FALSE, units |-> 0, last |-> 0]]
  /\ request \in [Requests -> [at : {"idle"}, ip : IPs, now : {0}]]
  /\ spent = [ip \in IPs |-> 0] /\ total = [ip \in IPs |-> 0]
  /\ promise = [ip \in IPs |-> -1] /\ rounded = [ip \in IPs |-> 0]

----------------------------------------------------------------------------

AtMost(n, limit) == IF n > limit THEN limit ELSE n

\* What a span of time accrues, as rounded.
Accrued(elapsed) == (elapsed * Rate - Slip)..(elapsed * Rate + Slip)

\* Mutant of Refill: the refill clock follows every reading, the late ones too.
RefillRewinds(b, now) ==
  IF now > b.last
  THEN {[b EXCEPT !.units = AtMost(b.units + n, Capacity), !.last = now] : n \in Accrued(now - b.last)}
  ELSE {[b EXCEPT !.last = now]}

\* The buckets that a refill may leave.  A reading earlier than the bucket's refill
\* clock adds nothing and moves nothing.
Refill(b, now) ==
  IF now > b.last
  THEN {[b EXCEPT !.units = AtMost(b.units + n, Capacity), !.last = now] : n \in Accrued(now - b.last)}
  ELSE {b}

\* Mutant of Key: every client in one bucket.
KeyShared(ip) == CHOOSE k \in IPs : TRUE

\* clientIP: the peer address, nothing the client sends.
Key(ip) == ip

\* The buckets a request may find: a client's first one is full.
Found(ip, now) ==
  LET b == bucket[Key(ip)] IN
  IF b.made THEN Refill(b, now) ELSE {[made |-> TRUE, units |-> Capacity, last |-> now]}

\* Mutant of RetryAfter: rounded to the nearest second below.
RetryAfterFloor(missing, secs) ==
  \E exact \in (missing - Slip)..(missing + Slip) :
    secs * Second * Rate <= exact /\ exact < (secs + 1) * Second * Rate

\* The header: the wait for one token, itself rounded, then up to seconds, one at least.
RetryAfter(missing, secs) ==
  /\ secs >= 1
  /\ missing - Slip <= secs * Second * Rate
  /\ secs = 1 \/ (secs - 1) * Second * Rate < missing + Slip

\* A request comes in and reads the clock.
Arrive(r) ==
  /\ request[r].at # "lock"
  /\ \E ip \in IPs : request' = [request EXCEPT ![r] = [at |-> "lock", ip |-> ip, now |-> clock]]
  /\ UNCHANGED <<clock, bucket, from, spent, total, promise, rounded>>

Grant(r) ==
  LET ip == request[r].ip IN
  /\ request[r].at = "lock"
  /\ \E b \in Found(ip, request[r].now) :
       b.units >= Cost /\ bucket' = [bucket EXCEPT ![Key(ip)] = [b EXCEPT !.units = b.units - Cost]]
  /\ request' = [request EXCEPT ![r].at = "idle", ![r].now = 0]
  /\ spent' = [spent EXCEPT ![ip] = IF request[r].now >= from THEN @ + Cost ELSE @]
  /\ total' = [total EXCEPT ![ip] = @ + Cost]
  /\ promise' = [promise EXCEPT ![ip] = -1] /\ rounded' = [rounded EXCEPT ![ip] = 0]
  /\ UNCHANGED <<clock, from>>

\* A refusal takes nothing and answers 429 with a Retry-After.  The refill clock of the
\* bucket has moved all the same.
Refuse(r) ==
  LET ip == request[r].ip IN
  /\ request[r].at = "lock"
  /\ \E b \in Found(ip, request[r].now), secs \in 0..(Cost + Slip) :
       /\ b.units < Cost
       /\ bucket' = [bucket EXCEPT ![Key(ip)] = b]
       /\ RetryAfter(Cost - b.units, secs)
       /\ promise' = [promise EXCEPT ![ip] =
            IF @ = -1 THEN clock + secs * Second ELSE AtMost(@, clock + secs * Second)]
       /\ rounded' = [rounded EXCEPT ![ip] =
            IF promise[ip] # -1 /\ b.last > bucket[Key(ip)].last THEN @ + 1 ELSE @]
  /\ request' = [request EXCEPT ![r].at = "refused", ![r].now = 0]
  /\ UNCHANGED <<clock, from, spent, total>>

Tick ==
  /\ clock < MaxClock
  /\ clock' = clock + 1
  /\ UNCHANGED <<bucket, request, from, spent, total, promise, rounded>>

OpenWindow ==
  /\ from' = clock
  /\ spent' = [ip \in IPs |-> 0]
  /\ UNCHANGED <<clock, bucket, request, total, promise, rounded>>

Next == Tick \/ OpenWindow \/ \E r \in Requests : Arrive(r) \/ Grant(r) \/ Refuse(r)

Spec == Init /\ [][Next]_vars

----------------------------------------------------------------------------
(* What the limiter promises. *)

\* Of the requests that come in during a window, whenever it opens, a client is
\* granted at most its burst and what accrues meanwhile, rounded at most once a tick,
\* however its requests overtake each other at the mutex.
RateIsBounded == \A ip \in IPs : spent[ip] <= Capacity + (Rate + Slip) * (clock - from)

Refused(r) == request[r].at = "lock" /\ request'[r].at = "refused"

\* Retry-After is honest up to rounding: a client that was granted nothing since an
\* offer is refused again only before the time it was told, or as long after it as
\* makes up for the roundings, one of the offer and one of each accrual since.
RetryIsHonoured ==
  [][ \A r \in Requests :
        Refused(r) =>
          LET ip == request[r].ip IN
          promise[ip] = -1 \/ (request[r].now - promise[ip]) * Rate < Slip * (rounded'[ip] + 1) ]_vars

\* Only its own traffic costs a client its burst.
BurstIsOwn ==
  [][ \A r \in Requests : Refused(r) => total[request[r].ip] > Capacity - Cost ]_vars
=============================================================================
