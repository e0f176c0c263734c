------------------------- MODULE RateLimiterProofs --------------------------
(* RateLimiter keeps its promises for any rate, burst and number of clients. *)
EXTENDS RateLimiter, TLAPS

\* The window does not open in the future.
PastInv == from <= clock

\* What is left in a bucket is what the window allows and has not been spent; until
\* the refill clock reaches the window, nothing is.
WindowInv ==
  \A ip \in IPs :
    /\ ~bucket[ip].made \/ bucket[ip].last < from => spent[ip] = 0
    /\ bucket[ip].last >= from =>
         spent[ip] + bucket[ip].units <= Capacity + (Rate + Slip) * (bucket[ip].last - from)

\* By the time a retry was offered for, the bucket holds a token but for the roundings.
RetryInv ==
  \A ip \in IPs :
    promise[ip] # -1 =>
      /\ bucket[ip].made
      /\ bucket[ip].units + Rate * (promise[ip] - bucket[ip].last) + Slip * (rounded[ip] + 1) >= Cost

\* What a bucket lacks of a burst, its own client was granted.
OwnInv == \A ip \in IPs : bucket[ip].made => bucket[ip].units + total[ip] >= Capacity

LimiterInv == TypeOK /\ PastInv /\ WindowInv /\ RetryInv /\ OwnInv

\* The invariant holds at the start.
LEMMA LimiterInvInit == Init => LimiterInv
  BY LimiterAssumption DEF Init, LimiterInv, TypeOK, Bucket, Request, PastInv, WindowInv, RetryInv, OwnInv

\* The accrual from z to x is that from z to y and that from y to x.
LEMMA Spread ==
  ASSUME NEW k \in Int, NEW x \in Int, NEW y \in Int, NEW z \in Int
  PROVE  k * (x - z) = k * (x - y) + k * (y - z)
  OBVIOUS

\* More time accrues no less, and at least one rounding's worth in a tick.
LEMMA Longer ==
  ASSUME NEW k \in Nat, NEW x \in Int, NEW y \in Int, x <= y
  PROVE  k * x <= k * y
<1> DEFINE d == y - x
<1>1. d \in Nat /\ k * d \in Nat
  OBVIOUS
<1>2. k * y = k * x + k * d
  BY DEF d
<1> HIDE DEF d
<1>3. k * x \in Int /\ k * y \in Int
  OBVIOUS
<1> QED
  BY <1>1, <1>2, <1>3

\* An accrual is of the time it spans, up to one rounding, and never negative.
LEMMA AccruedIs ==
  ASSUME NEW e \in Nat \ {0}, NEW n \in Accrued(e)
  PROVE  /\ n \in Nat
         /\ n <= (Rate + Slip) * e
         /\ n + Slip >= Rate * e
<1>1. Rate \in Nat /\ Slip \in Nat /\ Slip <= Rate
  BY LimiterAssumption
<1>2. /\ n \in Int /\ n <= e * Rate + Slip /\ n + Slip >= e * Rate
      /\ e * Rate = Rate * e /\ (Rate + Slip) * e = Rate * e + Slip * e
      /\ Rate * e \in Int /\ Slip * e \in Int
  BY <1>1 DEF Accrued
<1>3. Rate * 1 <= Rate * e /\ Slip * 1 <= Slip * e
  BY <1>1, Longer
<1> QED
  BY <1>1, <1>2, <1>3

\* The accruals counted against the offer once a request has found bucket b.
Rounds(ip, b) ==
  IF promise[ip] # -1 /\ b.last > bucket[ip].last THEN rounded[ip] + 1 ELSE rounded[ip]

\* What a request finds in its bucket, whatever clock reading it brings.
LEMMA FoundBucket ==
  ASSUME LimiterInv, NEW r \in Requests, request[r].at = "lock",
         NEW ip, ip = request[r].ip, NEW b \in Found(ip, request[r].now)
  PROVE  /\ ip \in IPs /\ Key(ip) = ip /\ request[r].now \in Nat /\ request[r].now <= clock
         /\ b \in Bucket /\ b.made /\ b.last <= clock /\ b.last >= request[r].now
         /\ Rounds(ip, b) \in Nat
         /\ b.last >= from => spent[ip] + b.units <= Capacity + (Rate + Slip) * (b.last - from)
         /\ b.last < from => spent[ip] = 0
         /\ promise[ip] # -1 /\ b.units < Cost =>
              b.units + Rate * (promise[ip] - b.last) + Slip * (Rounds(ip, b) + 1) >= Cost
         /\ b.units + total[ip] >= Capacity
<1> DEFINE now == request[r].now
<1>1. /\ ip \in IPs /\ Key(ip) = ip /\ now \in Nat /\ now <= clock /\ clock \in Nat /\ from \in Nat
      /\ spent[ip] \in Nat /\ total[ip] \in Nat /\ promise[ip] \in Int /\ rounded[ip] \in Nat
      /\ bucket[ip] \in Bucket /\ bucket[ip].last <= clock
      /\ Capacity \in Nat /\ Cost \in Nat /\ Cost <= Capacity /\ Rate \in Nat /\ Slip \in Nat
  BY LimiterAssumption DEF LimiterInv, TypeOK, Request, Key
<1>2. b \in Found(ip, now)
  OBVIOUS
<1>0. Rounds(ip, b) \in Nat
  BY <1>1 DEF Rounds
<1> HIDE DEF now
<1>3. CASE ~bucket[ip].made
  <2>1. b = [made |-> TRUE, units |-> Capacity, last |-> now]
    BY <1>1, <1>2, <1>3 DEF Found
  <2>2. spent[ip] = 0 /\ promise[ip] = -1 /\ total[ip] >= 0
    BY <1>1, <1>3 DEF LimiterInv, WindowInv, RetryInv
  <2>3. b.last >= from => (Rate + Slip) * 0 <= (Rate + Slip) * (b.last - from)
    BY <1>1, <2>1, Longer
  <2> QED
    BY <1>0, <1>1, <2>1, <2>2, <2>3 DEF Bucket, now
<1>4. CASE bucket[ip].made /\ ~(now > bucket[ip].last)
  <2>1. b = bucket[ip]
    BY <1>1, <1>2, <1>4 DEF Found, Refill
  <2>2. bucket[ip].last \in Nat
    BY <1>1 DEF Bucket
  <2>3. Rounds(ip, b) = rounded[ip]
    BY <2>1, <2>2 DEF Rounds
  <2> QED
    BY <1>0, <1>1, <1>4, <2>1, <2>2, <2>3 DEF LimiterInv, WindowInv, RetryInv, OwnInv, now
<1>5. CASE bucket[ip].made /\ now > bucket[ip].last
  <2> DEFINE last == bucket[ip].last
             had  == bucket[ip].units
  <2>1. last \in Nat /\ had \in 0..Capacity /\ now - last \in Nat \ {0}
    BY <1>1, <1>5 DEF Bucket
  <2>2. PICK n \in Accrued(now - last) :
          b = [bucket[ip] EXCEPT !.units = AtMost(had + n, Capacity), !.last = now]
    <3>1. b \in Refill(bucket[ip], now)
      BY <1>1, <1>2, <1>5 DEF Found
    <3>2. Refill(bucket[ip], now) =
            {[bucket[ip] EXCEPT !.units = AtMost(had + n, Capacity), !.last = now] :
               n \in Accrued(now - last)}
      BY <1>5 DEF Refill
    <3> QED
      BY <3>1, <3>2
  <2>3. n \in Nat /\ n <= (Rate + Slip) * (now - last) /\ n + Slip >= Rate * (now - last)
    BY <2>1, <2>2, AccruedIs
  <2>4. /\ AtMost(had + n, Capacity) \in 0..Capacity
        /\ AtMost(had + n, Capacity) \in {had + n, Capacity}
        /\ AtMost(had + n, Capacity) <= had + n
    BY <1>1, <2>1, <2>3 DEF AtMost
  <2>5. b \in Bucket /\ b.made /\ b.last = now /\ b.units = AtMost(had + n, Capacity)
    BY <1>1, <1>5, <2>2, <2>4 DEF Bucket
  <2>6. /\ last >= from => spent[ip] + had <= Capacity + (Rate + Slip) * (last - from)
        /\ last < from => spent[ip] = 0
        /\ promise[ip] # -1 => had + Rate * (promise[ip] - last) + Slip * (rounded[ip] + 1) >= Cost
        /\ had + total[ip] >= Capacity
    BY <1>1, <1>5 DEF LimiterInv, WindowInv, RetryInv, OwnInv
  <2>7. promise[ip] # -1 => Rounds(ip, b) = rounded[ip] + 1
    BY <1>5, <2>5 DEF Rounds
  <2> HIDE DEF last, had
  <2>8. now >= from => spent[ip] + b.units <= Capacity + (Rate + Slip) * (now - from)
    <3>1. CASE last >= from
      <4>1. (Rate + Slip) * (now - from) = (Rate + Slip) * (now - last) + (Rate + Slip) * (last - from)
        BY <1>1, <2>1, Spread
      <4>2. /\ (Rate + Slip) * (now - from) \in Int /\ (Rate + Slip) * (now - last) \in Int
            /\ (Rate + Slip) * (last - from) \in Int
        BY <1>1, <2>1
      <4> QED
        BY <1>1, <2>1, <2>3, <2>4, <2>5, <2>6, <3>1, <4>1, <4>2
    <3>2. CASE last < from
      <4>1. now >= from => (Rate + Slip) * 0 <= (Rate + Slip) * (now - from)
        BY <1>1, Longer
      <4> QED
        BY <1>1, <2>4, <2>5, <2>6, <3>2, <4>1
    <3> QED
      BY <1>1, <2>1, <3>1, <3>2
  <2>9. promise[ip] # -1 /\ b.units < Cost =>
          b.units + Rate * (promise[ip] - now) + Slip * (Rounds(ip, b) + 1) >= Cost
    <3> SUFFICES ASSUME promise[ip] # -1, b.units < Cost
                 PROVE  b.units + Rate * (promise[ip] - now) + Slip * (rounded[ip] + 2) >= Cost
      BY <1>1, <2>7
    <3>1. b.units = had + n
      BY <1>1, <2>1, <2>3, <2>4, <2>5
    <3>2. Rate * (promise[ip] - last) = Rate * (promise[ip] - now) + Rate * (now - last)
      BY <1>1, <2>1, Spread
    <3>3. Slip * (rounded[ip] + 2) = Slip * (rounded[ip] + 1) + Slip
      BY <1>1
    <3>4. /\ Rate * (promise[ip] - last) \in Int /\ Rate * (promise[ip] - now) \in Int
          /\ Rate * (now - last) \in Int /\ Slip * (rounded[ip] + 1) \in Int
      BY <1>1, <2>1
    <3> QED
      BY <1>1, <2>1, <2>3, <2>6, <3>1, <3>2, <3>3, <3>4
  <2>10. b.units + total[ip] >= Capacity
    BY <1>1, <2>1, <2>3, <2>4, <2>5, <2>6
  <2> QED
    BY <1>0, <1>1, <1>5, <2>1, <2>5, <2>6, <2>8, <2>9, <2>10 DEF now, last
<1> QED
  BY <1>3, <1>4, <1>5

\* Every step keeps the invariant.
LEMMA LimiterInvStep ==
  ASSUME LimiterInv, [Next]_vars
  PROVE  LimiterInv'
<1> USE LimiterAssumption
<1>1. CASE UNCHANGED vars
  BY <1>1 DEF vars, LimiterInv, TypeOK, PastInv, WindowInv, RetryInv, OwnInv
<1>2. CASE Tick
  BY <1>2 DEF Tick, LimiterInv, TypeOK, Request, Bucket, PastInv, WindowInv, RetryInv, OwnInv
<1>3. CASE OpenWindow
  <2>1. TypeOK' /\ PastInv' /\ RetryInv' /\ OwnInv'
    BY <1>3 DEF OpenWindow, LimiterInv, TypeOK, PastInv, RetryInv, OwnInv
  <2>2. ASSUME NEW ip \in IPs
        PROVE  /\ ~bucket'[ip].made \/ bucket'[ip].last < from' => spent'[ip] = 0
               /\ bucket'[ip].last >= from' =>
                    spent'[ip] + bucket'[ip].units
                      <= Capacity + (Rate + Slip) * (bucket'[ip].last - from')
    <3>1. spent'[ip] = 0 /\ bucket' = bucket /\ from' = clock
      BY <1>3 DEF OpenWindow
    <3>2. /\ bucket[ip].units \in 0..Capacity /\ bucket[ip].last \in Nat
          /\ bucket[ip].last <= clock /\ clock \in Nat
      BY DEF LimiterInv, TypeOK, Bucket
    <3>3. bucket[ip].last >= clock => (Rate + Slip) * (bucket[ip].last - clock) = 0
      BY <3>2
    <3> QED
      BY <3>1, <3>2, <3>3
  <2>3. WindowInv'
    BY <2>2 DEF WindowInv
  <2> QED
    BY <2>1, <2>3 DEF LimiterInv
<1>4. ASSUME NEW r \in Requests, Arrive(r)
      PROVE  LimiterInv'
  BY <1>4 DEF Arrive, LimiterInv, TypeOK, Request, PastInv, WindowInv, RetryInv, OwnInv
<1>5. ASSUME NEW r \in Requests, Grant(r)
      PROVE  LimiterInv'
  <2> DEFINE ip == request[r].ip
  <2>1. PICK b \in Found(ip, request[r].now) :
          b.units >= Cost /\ bucket' = [bucket EXCEPT ![Key(ip)] = [b EXCEPT !.units = b.units - Cost]]
    BY <1>5 DEF Grant
  <2>2. /\ request[r].at = "lock" /\ clock' = clock /\ from' = from
        /\ request' = [request EXCEPT ![r].at = "idle", ![r].now = 0]
        /\ spent' = [spent EXCEPT ![ip] = IF request[r].now >= from THEN @ + Cost ELSE @]
        /\ total' = [total EXCEPT ![ip] = @ + Cost]
        /\ promise' = [promise EXCEPT ![ip] = -1] /\ rounded' = [rounded EXCEPT ![ip] = 0]
    BY <1>5 DEF Grant
  <2>3. /\ ip \in IPs /\ Key(ip) = ip /\ request[r].now \in Nat /\ request[r].now <= clock
        /\ b \in Bucket /\ b.made /\ b.last <= clock /\ b.last >= request[r].now
        /\ b.last >= from => spent[ip] + b.units <= Capacity + (Rate + Slip) * (b.last - from)
        /\ b.last < from => spent[ip] = 0
        /\ b.units + total[ip] >= Capacity
    BY <2>1, <2>2, FoundBucket
  <2>4. PICK left \in Bucket :
          /\ bucket' = [bucket EXCEPT ![ip] = left]
          /\ left.made /\ left.last = b.last /\ left.units = b.units - Cost
    <3>1. [b EXCEPT !.units = b.units - Cost] \in Bucket
      BY <2>1, <2>3 DEF Bucket
    <3>2. /\ [b EXCEPT !.units = b.units - Cost].made = b.made
          /\ [b EXCEPT !.units = b.units - Cost].last = b.last
          /\ [b EXCEPT !.units = b.units - Cost].units = b.units - Cost
      BY <2>3 DEF Bucket
    <3> QED
      BY <2>1, <2>3, <3>1, <3>2
  <2> HIDE DEF ip
  <2>5. TypeOK' /\ PastInv'
    <3>1. request' \in [Requests -> Request] /\ \A q \in Requests : request'[q].now <= clock
      <4>1. [request[r] EXCEPT !.at = "idle", !.now = 0] \in Request
        BY DEF LimiterInv, TypeOK, Request
      <4> QED
        BY <2>2, <4>1 DEF LimiterInv, TypeOK, Request
    <3>2. bucket' \in [IPs -> Bucket] /\ \A k \in IPs : bucket'[k].last <= clock
      BY <2>3, <2>4 DEF LimiterInv, TypeOK
    <3>3. /\ spent' \in [IPs -> Nat] /\ total' \in [IPs -> Nat]
          /\ promise' \in [IPs -> Int] /\ rounded' \in [IPs -> Nat]
      BY <2>2, <2>3 DEF LimiterInv, TypeOK
    <3> QED
      BY <2>2, <3>1, <3>2, <3>3 DEF LimiterInv, TypeOK, PastInv
  <2>6. WindowInv'
    <3>1. ASSUME NEW k \in IPs, k # ip
          PROVE  bucket'[k] = bucket[k] /\ spent'[k] = spent[k]
      BY <2>2, <2>4, <3>1 DEF LimiterInv, TypeOK
    <3>2. /\ bucket'[ip] = left
          /\ spent'[ip] = IF request[r].now >= from THEN spent[ip] + Cost ELSE spent[ip]
      BY <2>2, <2>3, <2>4 DEF LimiterInv, TypeOK
    <3>3. /\ left.last >= from =>
               spent'[ip] + left.units <= Capacity + (Rate + Slip) * (left.last - from)
          /\ left.last < from => spent'[ip] = 0
      <4>1. spent[ip] \in Nat /\ from \in Nat /\ b.units \in Nat /\ b.last \in Nat
        BY <2>3 DEF LimiterInv, TypeOK, Bucket
      <4>2. (Rate + Slip) * (b.last - from) \in Int
        BY <4>1
      <4> QED
        BY <2>3, <2>4, <3>2, <4>1, <4>2
    <3> QED
      BY <2>2, <2>4, <3>1, <3>2, <3>3 DEF LimiterInv, WindowInv
  <2>7. RetryInv' /\ OwnInv'
    <3>1. ASSUME NEW k \in IPs, k # ip
          PROVE  /\ bucket'[k] = bucket[k] /\ promise'[k] = promise[k]
                 /\ rounded'[k] = rounded[k] /\ total'[k] = total[k]
      BY <2>2, <2>4, <3>1 DEF LimiterInv, TypeOK
    <3>2. promise'[ip] = -1 /\ bucket'[ip] = left /\ total'[ip] = total[ip] + Cost
      BY <2>2, <2>3, <2>4 DEF LimiterInv, TypeOK
    <3>3. left.units + total'[ip] >= Capacity
      BY <2>3, <2>4, <3>2 DEF LimiterInv, TypeOK, Bucket
    <3> QED
      BY <3>1, <3>2, <3>3 DEF LimiterInv, RetryInv, OwnInv
  <2> QED
    BY <2>5, <2>6, <2>7 DEF LimiterInv
<1>6. ASSUME NEW r \in Requests, Refuse(r)
      PROVE  LimiterInv'
  <2> DEFINE ip == request[r].ip
  <2>1. PICK b \in Found(ip, request[r].now), secs \in 0..(Cost + Slip) :
          /\ b.units < Cost
          /\ bucket' = [bucket EXCEPT ![Key(ip)] = b]
          /\ RetryAfter(Cost - b.units, secs)
          /\ promise' = [promise EXCEPT ![ip] =
               IF @ = -1 THEN clock + secs * Second ELSE AtMost(@, clock + secs * Second)]
          /\ rounded' = [rounded EXCEPT ![ip] =
               IF promise[ip] # -1 /\ b.last > bucket[Key(ip)].last THEN @ + 1 ELSE @]
    BY <1>6 DEF Refuse
  <2>2. /\ request[r].at = "lock" /\ clock' = clock /\ from' = from
        /\ request' = [request EXCEPT ![r].at = "refused", ![r].now = 0]
        /\ spent' = spent /\ total' = total
    BY <1>6 DEF Refuse
  <2>3. /\ ip \in IPs /\ Key(ip) = ip /\ request[r].now \in Nat /\ request[r].now <= clock
        /\ b \in Bucket /\ b.made /\ b.last <= clock /\ b.last >= request[r].now
        /\ Rounds(ip, b) \in Nat
        /\ b.last >= from => spent[ip] + b.units <= Capacity + (Rate + Slip) * (b.last - from)
        /\ b.last < from => spent[ip] = 0
        /\ promise[ip] # -1 =>
             b.units + Rate * (promise[ip] - b.last) + Slip * (Rounds(ip, b) + 1) >= Cost
        /\ b.units + total[ip] >= Capacity
    BY <2>1, <2>2, FoundBucket
  <2>4. PICK wait \in Nat : wait = secs * Second
    BY <2>1
  <2>5. /\ bucket' = [bucket EXCEPT ![ip] = b]
        /\ rounded' = [rounded EXCEPT ![ip] = Rounds(ip, b)]
        /\ promise' = [promise EXCEPT ![ip] =
             IF promise[ip] = -1 THEN clock + wait ELSE AtMost(promise[ip], clock + wait)]
    <3>1. bucket' = [bucket EXCEPT ![ip] = b]
      BY <2>1, <2>3
    <3>2. rounded' = [rounded EXCEPT ![ip] = Rounds(ip, b)]
      BY <2>1, <2>3 DEF Rounds
    <3>3. promise' = [promise EXCEPT ![ip] =
            IF promise[ip] = -1 THEN clock + wait ELSE AtMost(promise[ip], clock + wait)]
      BY <2>1, <2>4
    <3> QED
      BY <3>1, <3>2, <3>3
  <2>6. Cost - b.units - Slip <= Rate * wait
    BY <2>1, <2>3, <2>4 DEF RetryAfter, Bucket
  <2> HIDE DEF ip
  <2>7. TypeOK' /\ PastInv'
    <3>1. request' \in [Requests -> Request] /\ \A q \in Requests : request'[q].now <= clock
      <4>1. [request[r] EXCEPT !.at = "refused", !.now = 0] \in Request
        BY DEF LimiterInv, TypeOK, Request
      <4> QED
        BY <2>2, <4>1 DEF LimiterInv, TypeOK, Request
    <3>2. bucket' \in [IPs -> Bucket] /\ \A k \in IPs : bucket'[k].last <= clock
      BY <2>3, <2>5 DEF LimiterInv, TypeOK
    <3>3. promise' \in [IPs -> Int] /\ rounded' \in [IPs -> Nat]
      BY <2>3, <2>5 DEF LimiterInv, TypeOK, AtMost
    <3> QED
      BY <2>2, <3>1, <3>2, <3>3 DEF LimiterInv, TypeOK, PastInv
  <2>8. WindowInv' /\ OwnInv'
    <3>1. ASSUME NEW k \in IPs, k # ip
          PROVE  bucket'[k] = bucket[k]
      BY <2>5, <3>1 DEF LimiterInv, TypeOK
    <3>2. bucket'[ip] = b
      BY <2>3, <2>5 DEF LimiterInv, TypeOK
    <3> QED
      BY <2>2, <2>3, <3>1, <3>2 DEF LimiterInv, WindowInv, OwnInv
  <2>9. RetryInv'
    <3>1. ASSUME NEW k \in IPs, k # ip
          PROVE  bucket'[k] = bucket[k] /\ promise'[k] = promise[k] /\ rounded'[k] = rounded[k]
      BY <2>5, <3>1 DEF LimiterInv, TypeOK
    <3>2. /\ bucket'[ip] = b /\ rounded'[ip] = Rounds(ip, b)
          /\ \/ promise[ip] # -1 /\ promise'[ip] = promise[ip]
             \/ promise'[ip] = clock + wait
      BY <2>3, <2>5 DEF LimiterInv, TypeOK, AtMost
    <3>3. CASE promise[ip] # -1 /\ promise'[ip] = promise[ip]
      BY <2>3, <3>1, <3>2, <3>3 DEF LimiterInv, RetryInv
    <3>4. CASE promise'[ip] = clock + wait
      <4>1. clock \in Nat /\ b.units \in Nat /\ b.last \in Nat
        BY <2>3 DEF LimiterInv, TypeOK, Bucket
      <4>2. Rate * wait <= Rate * (clock + wait - b.last) /\ Slip * 1 <= Slip * (Rounds(ip, b) + 1)
        BY <2>3, <4>1, Longer
      <4>3. /\ Rate * wait \in Int /\ Rate * (clock + wait - b.last) \in Int
            /\ Slip * (Rounds(ip, b) + 1) \in Int /\ Slip * 1 = Slip /\ Cost \in Int /\ Slip \in Int
        BY <2>3, <4>1
      <4>4. b.units + Rate * (clock + wait - b.last) + Slip * (Rounds(ip, b) + 1) >= Cost
        BY <2>6, <4>1, <4>2, <4>3
      <4>5. bucket'[ip].units + Rate * (promise'[ip] - bucket'[ip].last)
              + Slip * (rounded'[ip] + 1) >= Cost
        <5> DEFINE span == clock + wait - b.last
        <5>1. promise'[ip] - bucket'[ip].last = span /\ bucket'[ip].units = b.units
          <6>1. bucket'[ip].last = b.last /\ bucket'[ip].units = b.units
            BY <3>2
          <6> QED
            BY <3>4, <4>1, <6>1
        <5>2. b.units + Rate * span + Slip * (Rounds(ip, b) + 1) >= Cost
          BY <4>4
        <5> HIDE DEF span
        <5> QED
          BY <3>2, <5>1, <5>2
      <4>6. bucket'[ip].made
        BY <2>3, <3>2
      <4> QED
        BY <3>1, <4>5, <4>6 DEF LimiterInv, RetryInv
    <3> QED
      BY <3>2, <3>3, <3>4
  <2> QED
    BY <2>7, <2>8, <2>9 DEF LimiterInv
<1> QED
  BY <1>1, <1>2, <1>3, <1>4, <1>5, <1>6 DEF Next

\* The invariant holds of every behaviour.
LEMMA LimiterInvariance == Spec => []LimiterInv
<1>1. LimiterInv /\ [Next]_vars => LimiterInv'
  BY LimiterInvStep
<1> QED
  BY LimiterInvInit, <1>1, PTL DEF Spec

\* The state is well typed: a bucket holds no more than its burst and never less than 0,
\* and no request or bucket has a reading of a time that has not come.
THEOREM TypeCorrect == Spec => []TypeOK
<1>1. LimiterInv => TypeOK
  BY DEF LimiterInv
<1> QED
  BY <1>1, LimiterInvariance, PTL

\* Of the requests that come in during any window a client is granted at most its
\* burst and what accrues meanwhile (RateLimiter.allow), for every rate, burst and
\* rounding.
THEOREM RateBound == Spec => []RateIsBounded
<1>1. ASSUME LimiterInv, NEW ip \in IPs
      PROVE  spent[ip] <= Capacity + (Rate + Slip) * (clock - from)
  <2>1. /\ spent[ip] \in Nat /\ clock \in Nat /\ from \in Nat /\ from <= clock
        /\ bucket[ip].last \in Nat /\ bucket[ip].units \in Nat /\ bucket[ip].last <= clock
        /\ Capacity \in Nat /\ Rate \in Nat /\ Slip \in Nat
    BY <1>1, LimiterAssumption DEF LimiterInv, TypeOK, Bucket, PastInv
  <2>2. (Rate + Slip) * 0 <= (Rate + Slip) * (clock - from)
    BY <2>1, Longer
  <2>3. CASE bucket[ip].last < from
    BY <1>1, <2>1, <2>2, <2>3 DEF LimiterInv, WindowInv
  <2>4. CASE bucket[ip].last >= from
    <3>1. (Rate + Slip) * (bucket[ip].last - from) <= (Rate + Slip) * (clock - from)
      BY <2>1, Longer
    <3>2. /\ (Rate + Slip) * (bucket[ip].last - from) \in Int
          /\ (Rate + Slip) * (clock - from) \in Int
      BY <2>1
    <3>3. spent[ip] + bucket[ip].units <= Capacity + (Rate + Slip) * (bucket[ip].last - from)
      BY <1>1, <2>4 DEF LimiterInv, WindowInv
    <3> QED
      BY <2>1, <3>1, <3>2, <3>3
  <2> QED
    BY <2>1, <2>3, <2>4
<1>2. LimiterInv => RateIsBounded
  BY <1>1 DEF RateIsBounded
<1> QED
  BY <1>2, LimiterInvariance, PTL

\* A request that ends refused was refused by its own step, and found less than a
\* token in its bucket.
LEMMA RefusedFound ==
  ASSUME LimiterInv, [Next]_vars, NEW r \in Requests, Refused(r)
  PROVE  /\ request[r].at = "lock"
         /\ \E b \in Found(request[r].ip, request[r].now) :
              b.units < Cost /\ rounded'[request[r].ip] = Rounds(request[r].ip, b)
<1>1. ASSUME NEW s \in Requests, Arrive(s) \/ Grant(s)
      PROVE  FALSE
  BY <1>1 DEF Refused, LimiterInv, TypeOK, Request, Arrive, Grant
<1>2. ASSUME NEW s \in Requests, Refuse(s)
      PROVE  s = r
  BY <1>2 DEF Refused, LimiterInv, TypeOK, Refuse
<1>3. Refuse(r)
  BY <1>1, <1>2 DEF Refused, Next, vars, Tick, OpenWindow
<1>4. request[r].ip \in IPs /\ Key(request[r].ip) = request[r].ip
  BY DEF LimiterInv, TypeOK, Request, Key
<1>5. rounded \in [IPs -> Nat]
  BY DEF LimiterInv, TypeOK
<1> QED
  BY <1>3, <1>4, <1>5 DEF Refuse, Rounds

\* A client that waits as long as Retry-After told it to, and makes up for what rounding
\* took, is not refused again (RateLimiter.allow, writeRateLimitExceeded).
THEOREM RetryAfterIsHonest == Spec => RetryIsHonoured
<1>1. ASSUME LimiterInv, [Next]_vars, NEW r \in Requests, Refused(r)
      PROVE  LET ip == request[r].ip IN
             promise[ip] = -1 \/ (request[r].now - promise[ip]) * Rate < Slip * (rounded'[ip] + 1)
  <2> DEFINE ip == request[r].ip
             now == request[r].now
  <2>1. PICK b \in Found(ip, now) :
          request[r].at = "lock" /\ b.units < Cost /\ rounded'[ip] = Rounds(ip, b)
    BY <1>1, RefusedFound
  <2>2. /\ ip \in IPs /\ now \in Nat /\ b \in Bucket /\ b.last >= now /\ Rounds(ip, b) \in Nat
        /\ promise[ip] # -1 =>
             b.units + Rate * (promise[ip] - b.last) + Slip * (Rounds(ip, b) + 1) >= Cost
    BY <1>1, <2>1, FoundBucket
  <2>3. promise[ip] \in Int /\ Rate \in Nat /\ Slip \in Nat /\ Cost \in Nat
    BY <1>1, <2>2, LimiterAssumption DEF LimiterInv, TypeOK
  <2> HIDE DEF ip, now
  <2>4. b.units \in Nat /\ b.last \in Nat
    BY <2>2 DEF Bucket
  <2>5. Rate * (now - promise[ip]) <= Rate * (b.last - promise[ip])
    BY <2>2, <2>3, <2>4, Longer
  <2>6. /\ Rate * (promise[ip] - b.last) = 0 - Rate * (b.last - promise[ip])
        /\ (now - promise[ip]) * Rate = Rate * (now - promise[ip])
        /\ Rate * (b.last - promise[ip]) \in Int /\ Rate * (now - promise[ip]) \in Int
        /\ Slip * (Rounds(ip, b) + 1) \in Int
    BY <2>2, <2>3, <2>4
  <2>7. promise[ip] # -1 => (now - promise[ip]) * Rate < Slip * (rounded'[ip] + 1)
    BY <2>1, <2>2, <2>3, <2>4, <2>5, <2>6
  <2> QED
    BY <2>7 DEF ip, now
<1>2. LimiterInv /\ [Next]_vars =>
        [ \A r \in Requests :
            Refused(r) =>
              LET ip == request[r].ip IN
              promise[ip] = -1
                \/ (request[r].now - promise[ip]) * Rate < Slip * (rounded'[ip] + 1) ]_vars
  BY <1>1
<1> QED
  BY <1>2, LimiterInvariance, PTL DEF Spec, RetryIsHonoured

\* Whatever the other clients send, a client is refused only once it has used its
\* own burst (RateLimiter.buckets, clientIP).
THEOREM BurstIsItsOwn == Spec => BurstIsOwn
<1>1. ASSUME LimiterInv, [Next]_vars, NEW r \in Requests, Refused(r)
      PROVE  total[request[r].ip] > Capacity - Cost
  <2> DEFINE ip == request[r].ip
  <2>1. PICK b \in Found(ip, request[r].now) : request[r].at = "lock" /\ b.units < Cost
    BY <1>1, RefusedFound
  <2>2. ip \in IPs /\ b \in Bucket /\ b.units + total[ip] >= Capacity
    BY <1>1, <2>1, FoundBucket
  <2>3. total[ip] \in Nat
    BY <1>1, <2>2 DEF LimiterInv, TypeOK
  <2> QED
    BY <2>1, <2>2, <2>3, LimiterAssumption DEF Bucket
<1>2. LimiterInv /\ [Next]_vars =>
        [ \A r \in Requests : Refused(r) => total[request[r].ip] > Capacity - Cost ]_vars
  BY <1>1
<1> QED
  BY <1>2, LimiterInvariance, PTL DEF Spec, BurstIsOwn
=============================================================================
