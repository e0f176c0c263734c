------------------------ MODULE SessionClientProofs -------------------------
(* SessionClient implements SessionService, its state is well typed and it   *)
(* logs in only when it has to, for any number of callers.                   *)
EXTENDS SessionClient, TLAPS

\* A call that is past its first ensureSession.
Underway(c) == call[c].at \in {"sentAt", "attach", "serve"} \/ (call[c].at # "idle" /\ call[c].retry)

\* A call that has read sentAt, or is on its retry.
Sent(c) == call[c].at \in {"attach", "serve"} \/ (call[c].at # "idle" /\ call[c].retry)

\* The jar's session is honoured, or the server dropped one on this call's watch.
JarIsGood(c) == jar \in valid \/ call[c].dropped

Calls ==
  [at : Steps, retry : BOOLEAN, sentAt : Nat, used : Nat, dropped : BOOLEAN,
   result : {"idle", "pending", "answered", "failed", "permanent"}]

\* Clock readings are in the past; the mutex is held by whoever is logging in.
ClockInv ==
  /\ clock \in Nat /\ lastLoginAt \in 0..clock /\ sessions \in Nat
  /\ jar \in Nat
  /\ call \in [Callers -> Calls]
  /\ \A c \in Callers : call[c].sentAt <= clock
  /\ \A c \in Callers : mu = c <=> call[c].at \in {"login", "record"}
  /\ \A c \in Callers : call[c].at = "idle" <=> call[c].result # "pending"

\* A login that has its cookie but not its time yet replaced the session of every
\* call under way: none of those can have begun after it.
RecordingInv ==
  \A c, d \in Callers : call[d].at = "record" /\ Underway(c) => JarIsGood(c)

\* A login recorded after a call sent its request replaced the session it used.
RefreshInv ==
  \A c \in Callers : Sent(c) /\ lastLoginAt > call[c].sentAt => JarIsGood(c)

\* So a retry is sent under a good session.
RetryInv ==
  \A c \in Callers :
    call[c].retry =>
      /\ call[c].at = "attach" => JarIsGood(c)
      /\ call[c].at = "serve" => call[c].used \in valid \/ call[c].dropped

ClientInv == ClockInv /\ RecordingInv /\ RefreshInv /\ RetryInv

\* Nobody has called yet and the jar is empty.
LEMMA ClientInvInit == Init => ClientInv
<1> SUFFICES ASSUME Init PROVE ClientInv
  OBVIOUS
<1> DEFINE resting == [NewCall EXCEPT !.at = "idle", !.result = "idle"]
<1>1. /\ resting \in Calls /\ resting.at = "idle" /\ resting.result = "idle"
      /\ ~resting.retry /\ resting.sentAt = 0
  BY DEF NewCall, Calls, Steps
<1>2. /\ call \in [Callers -> Calls]
      /\ \A c \in Callers : /\ call[c].at = "idle" /\ call[c].result = "idle"
                            /\ ~call[c].retry /\ call[c].sentAt = 0
  BY <1>1 DEF Init
<1>3. ClockInv
  BY <1>2, ClientAssumption DEF Init, ClockInv
<1>4. RecordingInv
  BY <1>2 DEF RecordingInv
<1>5. RefreshInv
  BY <1>2 DEF RefreshInv, Sent
<1>6. RetryInv
  BY <1>2 DEF RetryInv
<1> QED
  BY <1>3, <1>4, <1>5, <1>6 DEF ClientInv

\* Every step of every goroutine, a drop and the passing of time keep the invariant.
LEMMA ClientInvStep ==
  ASSUME ClientInv, [Next]_vars
  PROVE  ClientInv'
<1> USE ClientAssumption DEF ClientInv, ClockInv, RecordingInv, RefreshInv, RetryInv, Underway, Sent, JarIsGood,
        At, Goto, Return, Steps, Calls
<1>1. CASE UNCHANGED vars
  BY <1>1 DEF vars
<1>2. CASE Drop
  <2>1. /\ clock' = clock /\ lastLoginAt' = lastLoginAt /\ sessions' = sessions /\ jar' = jar
        /\ mu' = mu
    BY <1>2 DEF Drop
  <2>2. ASSUME NEW c \in Callers
        PROVE  /\ call'[c] \in Calls
               /\ call'[c].dropped /\ call'[c].at = call[c].at /\ call'[c].result = call[c].result
               /\ call'[c].retry = call[c].retry /\ call'[c].sentAt = call[c].sentAt
    <3>1. call[c] \in Calls
      OBVIOUS
    <3>2. call'[c] = [call[c] EXCEPT !.dropped = TRUE]
      BY <1>2 DEF Drop
    <3> QED
      BY <3>1, <3>2
  <2>3. call' = [c \in Callers |-> call'[c]]
    BY <1>2 DEF Drop
  <2> QED
    BY <2>1, <2>2, <2>3
<1>3. CASE Age
  BY <1>3 DEF Age
<1>4. ASSUME NEW c \in Callers, Begin(c)
      PROVE  ClientInv'
  BY <1>4 DEF Begin, NewCall
<1>5. ASSUME NEW c \in Callers, EnsureSession(c)
      PROVE  ClientInv'
  BY <1>5 DEF EnsureSession, Fresh, Baseline, NextSend
<1>6. ASSUME NEW c \in Callers, LoginReply(c)
      PROVE  ClientInv'
  BY <1>6 DEF LoginReply, LoginLost, Established
<1>7. ASSUME NEW c \in Callers, RecordLogin(c)
      PROVE  ClientInv'
  BY <1>7 DEF RecordLogin, NextSend
<1>8. ASSUME NEW c \in Callers, ReadClock(c)
      PROVE  ClientInv'
  BY <1>8 DEF ReadClock
<1>9. ASSUME NEW c \in Callers, Attach(c)
      PROVE  ClientInv'
  <2> DEFINE next == [call[c] EXCEPT !.at = "serve", !.used = jar]
  <2>1. /\ clock' = clock /\ lastLoginAt' = lastLoginAt /\ sessions' = sessions /\ jar' = jar
        /\ mu' = mu /\ valid' = valid
        /\ call[c].at = "attach" /\ call' = [call EXCEPT ![c] = next]
    BY <1>9 DEF Attach
  <2>2. call[c] \in Calls
    OBVIOUS
  <2>3. /\ next \in Calls
        /\ next.at = "serve" /\ next.used = jar /\ next.retry = call[c].retry
        /\ next.sentAt = call[c].sentAt /\ next.dropped = call[c].dropped
        /\ next.result = call[c].result
    BY <2>2
  <2> HIDE DEF next
  <2>4. ClockInv'
    BY <2>1, <2>3
  <2>5. RecordingInv' /\ RefreshInv' /\ RetryInv'
    BY <2>1, <2>3
  <2> QED
    BY <2>4, <2>5
<1>10. ASSUME NEW c \in Callers, Serve(c)
       PROVE  ClientInv'
  <2>1. CASE \E res \in {"answered", "failed", "permanent"} : Return(c, res)
    BY <1>10, <2>1 DEF Serve
  <2>2. CASE /\ call[c].used \notin valid /\ ~call[c].retry
             /\ call' = [call EXCEPT ![c].at = "ensure", ![c].retry = TRUE]
    BY <1>10, <2>2 DEF Serve
  <2> QED
    BY <1>10, <2>1, <2>2 DEF Serve
<1> QED
  BY <1>1, <1>2, <1>3, <1>4, <1>5, <1>6, <1>7, <1>8, <1>9, <1>10 DEF Next, CallStep

\* The invariant holds of every behaviour.
LEMMA ClientInvariance == Spec => []ClientInv
<1>1. Init => ClientInv
  BY ClientInvInit
<1>2. ClientInv /\ [Next]_vars => ClientInv'
  BY ClientInvStep
<1> QED
  BY <1>1, <1>2, PTL DEF Spec

\* Every step of the client is a step of the service, or one it does not see.
LEMMA StepRefines ==
  ASSUME ClientInv, [Next]_vars
  PROVE  [Service!ServiceNext]_(Service!serviceVars)
<1> DEFINE phase   == [c \in Callers |-> call[c].result]
           dropped == [c \in Callers |-> call[c].dropped]
<1>1. /\ call \in [Callers -> Calls]
      /\ \A c \in Callers : call[c].at = "idle" <=> call[c].result # "pending"
  BY DEF ClientInv, ClockInv
<1>2. ASSUME NEW c \in Callers, NEW next, call' = [call EXCEPT ![c] = next],
             next.result = call[c].result, next.dropped = call[c].dropped
      PROVE  phase' = phase /\ dropped' = dropped
  BY <1>1, <1>2
<1>3. CASE UNCHANGED vars
  BY <1>3 DEF vars, Service!serviceVars
<1>4. CASE Drop
  <2>1. ASSUME NEW c \in Callers
        PROVE  call'[c].result = call[c].result /\ call'[c].dropped
    BY <1>1, <1>4 DEF Drop, Calls
  <2>2. Service!ServerDrops
    BY <2>1 DEF Service!ServerDrops
  <2> QED
    BY <2>2 DEF Service!ServiceNext
<1>5. CASE Age
  BY <1>5 DEF Age, Service!serviceVars
<1>6. ASSUME NEW c \in Callers, Begin(c)
      PROVE  Service!ServiceNext
  <2>1. Service!Request(c)
    BY <1>1, <1>6 DEF Begin, At, NewCall, Service!Request
  <2> QED
    BY <2>1 DEF Service!ServiceNext
<1>7. ASSUME NEW c \in Callers, NEW res \in {"answered", "failed", "permanent"},
             call[c].at # "idle", Return(c, res), res = "permanent" => call[c].dropped
      PROVE  Service!ServiceNext
  <2>1. /\ call[c].result = "pending"
        /\ call' = [call EXCEPT ![c] = [call[c] EXCEPT !.at = "idle", !.result = res]]
    BY <1>1, <1>7 DEF Return
  <2>2. phase' = [phase EXCEPT ![c] = res] /\ dropped' = dropped
    BY <1>1, <2>1 DEF Calls
  <2>3. Service!Respond(c, res)
    BY <1>7, <2>1, <2>2 DEF Service!Respond
  <2> QED
    BY <2>3 DEF Service!ServiceNext, Service!Outcomes
<1>8. ASSUME NEW c \in Callers, NEW step \in Steps, Goto(c, step)
      PROVE  UNCHANGED Service!serviceVars
  BY <1>1, <1>8 DEF Goto, Calls, Service!serviceVars
<1>9. ASSUME NEW c \in Callers, CallStep(c)
      PROVE  [Service!ServiceNext]_(Service!serviceVars)
  <2>1. CASE EnsureSession(c) \/ RecordLogin(c)
    BY <2>1, <1>8 DEF EnsureSession, RecordLogin, NextSend, Steps
  <2>2. CASE LoginReply(c)
    BY <2>2, <1>7, <1>8 DEF LoginReply, At, Steps
  <2>3. CASE ReadClock(c) \/ Attach(c)
    BY <2>3, <1>1 DEF ReadClock, Attach, Calls, Service!serviceVars
  <2>4. CASE Serve(c)
    <3>1. CASE call' = [call EXCEPT ![c].at = "ensure", ![c].retry = TRUE]
      BY <3>1, <1>1 DEF Calls, Service!serviceVars
    <3>2. call[c].used \notin valid /\ call[c].retry => call[c].dropped
      BY <2>4 DEF Serve, At, ClientInv, RetryInv
    <3> QED
      BY <2>4, <3>1, <3>2, <1>7 DEF Serve, At
  <2> QED
    BY <1>9, <2>1, <2>2, <2>3, <2>4 DEF CallStep
<1> QED
  BY <1>3, <1>4, <1>5, <1>6, <1>9 DEF Next

\* The client implements the service: with credentials the server takes, a request
\* fails for good only if the server dropped a session while it was under way,
\* however callers, logins and expiries interleave (ErrPermanentAuth).
THEOREM ClientImplementsService == Spec => ImplementsService
<1>1. Init => Service!ServiceInit
  BY DEF Init, NewCall, Service!ServiceInit
<1>2. ClientInv /\ [Next]_vars => [Service!ServiceNext]_(Service!serviceVars)
  BY StepRefines
<1> QED
  BY <1>1, <1>2, ClientInvariance, PTL DEF Spec, ImplementsService, Service!ServiceSpec

----------------------------------------------------------------------------
\* What ClientInv leaves out of the types.
RestOK ==
  /\ mu \in Callers \cup {Nobody} /\ aged \in BOOLEAN
  /\ valid \subseteq 1..sessions /\ drops \in Nat
  /\ jar \in 0..sessions /\ recorded \in 0..sessions

\* No login has its cookie but not its time yet.
Recorded == \A d \in Callers : call[d].at # "record"

\* While the jar's login is the recorded one: without a login the jar is empty; and the
\* session a request was refused under is still the jar's, and still refused, unless
\* somebody logged in after it was sent.
NeedInv ==
  Recorded /\ jar = recorded =>
    /\ lastLoginAt = 0 => jar = 0
    /\ \A c \in Callers :
         lastLoginAt <= call[c].sentAt =>
           /\ call[c].at = "serve" /\ ~call[c].retry => call[c].used = jar
           /\ call[c].at = "ensure" /\ call[c].retry => jar \notin valid

TypedInv == ClientInv /\ RestOK /\ NeedInv

LEMMA TypedInvInit == Init => TypedInv
<1> SUFFICES ASSUME Init PROVE TypedInv
  OBVIOUS
<1>1. ClientInv
  BY ClientInvInit
<1>2. RestOK
  <2>1. jar \in 0..sessions /\ recorded \in 0..sessions /\ drops \in Nat
    BY DEF Init
  <2> QED
    BY <2>1 DEF Init, RestOK
<1>3. NeedInv
  BY DEF Init, NeedInv, NewCall
<1> QED
  BY <1>1, <1>2, <1>3 DEF TypedInv

LEMMA RestOKStep ==
  ASSUME ClientInv, RestOK, [Next]_vars
  PROVE  RestOK'
<1> USE DEF RestOK
<1>0. sessions \in Nat
  BY DEF ClientInv, ClockInv
<1>1. CASE UNCHANGED vars
  BY <1>1 DEF vars
<1>2. CASE Drop
  BY <1>2 DEF Drop
<1>a. CASE Age
  BY <1>a DEF Age
<1>3. ASSUME NEW c \in Callers, Begin(c) \/ EnsureSession(c) \/ RecordLogin(c)
      PROVE  RestOK'
  BY <1>3 DEF Begin, EnsureSession, RecordLogin
<1>4. ASSUME NEW c \in Callers, LoginReply(c)
      PROVE  RestOK'
  <2>1. mu' \in {mu, Nobody} /\ aged' = aged /\ drops' = drops /\ recorded' = recorded
    BY <1>4 DEF LoginReply
  <2>2. CASE UNCHANGED <<sessions, valid, jar>>
    BY <2>1, <2>2
  <2>3. CASE Established
    <3>1. valid' \subseteq 1..sessions' /\ jar' \in 0..sessions' /\ recorded \in 0..sessions'
      BY <1>0, <2>3 DEF Established
    <3> QED
      BY <2>1, <3>1
  <2> QED
    BY <1>4, <2>2, <2>3 DEF LoginReply, LoginLost
<1>5. ASSUME NEW c \in Callers, ReadClock(c) \/ Attach(c) \/ Serve(c)
      PROVE  RestOK'
  BY <1>5 DEF ReadClock, Attach, Serve
<1> QED
  BY <1>1, <1>2, <1>a, <1>3, <1>4, <1>5 DEF Next, CallStep

LEMMA NeedInvStep ==
  ASSUME ClientInv, RestOK, NeedInv, [Next]_vars
  PROVE  NeedInv'
<1>0. /\ clock \in Nat /\ lastLoginAt \in 0..clock /\ sessions \in Nat /\ call \in [Callers -> Calls]
      /\ \A c \in Callers : call[c].sentAt <= clock /\ call[c].sentAt \in Nat
      /\ \A c \in Callers : mu = c <=> call[c].at \in {"login", "record"}
  BY DEF ClientInv, ClockInv, Calls
<1>1. CASE UNCHANGED vars
  BY <1>1 DEF vars, NeedInv, Recorded
<1>2. CASE Drop
  BY <1>0, <1>2 DEF Drop, NeedInv, Recorded, Calls
<1>3. CASE Age
  BY <1>3 DEF Age, NeedInv, Recorded
<1>4. ASSUME NEW c \in Callers, Begin(c)
      PROVE  NeedInv'
  BY <1>0, <1>4 DEF Begin, NewCall, At, NeedInv, Recorded, Calls
<1>5. ASSUME NEW c \in Callers, EnsureSession(c)
      PROVE  NeedInv'
  BY <1>0, <1>5 DEF EnsureSession, NextSend, Goto, At, NeedInv, Recorded, Calls
<1>6. ASSUME NEW c \in Callers, LoginReply(c)
      PROVE  NeedInv'
  <2>1. CASE Established /\ Goto(c, "record")
    BY <1>0, <2>1 DEF Goto, NeedInv, Recorded, Calls
  <2>2. CASE Established /\ Return(c, "failed")
    <3>1. jar' # recorded'
      BY <1>0, <1>6, <2>2 DEF Established, LoginReply, RestOK
    <3> QED
      BY <3>1 DEF NeedInv
  <2>3. CASE UNCHANGED <<sessions, valid, jar>> /\ Return(c, "failed")
    BY <1>0, <1>6, <2>3 DEF LoginReply, Return, At, NeedInv, Recorded, Calls
  <2> QED
    BY <1>6, <2>1, <2>2, <2>3 DEF LoginReply, LoginLost
<1>7. ASSUME NEW c \in Callers, RecordLogin(c)
      PROVE  NeedInv'
  <2>1. lastLoginAt' = clock + 1 /\ \A d \in Callers : call'[d].sentAt = call[d].sentAt
    BY <1>0, <1>7 DEF RecordLogin, Goto, Calls
  <2> QED
    BY <1>0, <2>1 DEF NeedInv
<1>8. ASSUME NEW c \in Callers, ReadClock(c)
      PROVE  NeedInv'
  BY <1>0, <1>8 DEF ReadClock, At, NeedInv, Recorded, Calls
<1>9. ASSUME NEW c \in Callers, Attach(c)
      PROVE  NeedInv'
  BY <1>0, <1>9 DEF Attach, At, NeedInv, Recorded, Calls
<1>10. ASSUME NEW c \in Callers, Serve(c)
       PROVE  NeedInv'
  BY <1>0, <1>10 DEF Serve, Return, At, NeedInv, Recorded, Calls
<1> QED
  BY <1>1, <1>2, <1>3, <1>4, <1>5, <1>6, <1>7, <1>8, <1>9, <1>10 DEF Next, CallStep

LEMMA TypedInvariance == Spec => []TypedInv
<1>1. TypedInv /\ [Next]_vars => TypedInv'
  BY ClientInvStep, RestOKStep, NeedInvStep DEF TypedInv
<1> QED
  BY <1>1, TypedInvInit, PTL DEF Spec

\* The state is well typed, and a caller holds the mutex exactly while it logs in.
THEOREM TypeCorrect == Spec => []TypeOK
<1>1. TypedInv => TypeOK
  BY DEF TypedInv, ClientInv, ClockInv, RestOK, TypeOK, Calls
<1> QED
  BY <1>1, TypedInvariance, PTL

\* A login is sent only when the jar's session is old or refused, or came with a login
\* that failed after its cookies (ensureSession, doOnce), also by the callers that were
\* refused together and queue for the mutex.
THEOREM LoginOnlyWhenNeeded == Spec => LoginIsNeeded
<1>1. ASSUME TypedInv, [Next]_vars, NEW c \in Callers, ~At(c, "login"), call'[c].at = "login"
      PROVE  aged \/ jar \notin valid \/ jar # recorded
  <2>0. call \in [Callers -> Calls]
    BY <1>1 DEF TypedInv, ClientInv, ClockInv
  <2>1. EnsureSession(c) /\ ~Fresh(c)
    <3>1. ~UNCHANGED vars /\ ~Drop /\ ~Age
      BY <1>1, <2>0 DEF vars, Drop, Age, At, Calls
    <3>2. \A d \in Callers : ~Begin(d) /\ ~ReadClock(d) /\ ~Attach(d)
      BY <1>1, <2>0 DEF Begin, ReadClock, Attach, At, NewCall, Calls
    <3>3. \A d \in Callers : ~LoginReply(d) /\ ~RecordLogin(d)
      BY <1>1, <2>0 DEF LoginReply, RecordLogin, Goto, Return, NextSend, At, Calls
    <3>4. \A d \in Callers : ~Serve(d)
      BY <1>1, <2>0 DEF Serve, Return, At, Calls
    <3>5. PICK d \in Callers : EnsureSession(d)
      BY <1>1, <3>1, <3>2, <3>3, <3>4 DEF Next, CallStep
    <3>6. d = c
      BY <1>1, <2>0, <3>5 DEF EnsureSession, Goto, At, Calls
    <3>7. ~Fresh(c)
      BY <1>1, <2>0, <3>5, <3>6 DEF EnsureSession, Goto, NextSend, At, Calls
    <3> QED
      BY <3>5, <3>6, <3>7
  <2>2. Recorded
    BY <1>1, <2>1, ClientAssumption DEF EnsureSession, TypedInv, ClientInv, ClockInv, Recorded
  <2>3. CASE lastLoginAt = 0
    BY <1>1, <2>2, <2>3 DEF TypedInv, NeedInv, RestOK
  <2>4. CASE lastLoginAt <= Baseline(c) /\ lastLoginAt # 0
    <3>1. call[c].retry /\ lastLoginAt <= call[c].sentAt
      BY <1>1, <2>4 DEF Baseline, TypedInv, ClientInv, ClockInv
    <3> QED
      BY <1>1, <2>1, <2>2, <3>1 DEF EnsureSession, At, TypedInv, NeedInv
  <2>5. lastLoginAt \in Nat /\ Baseline(c) \in Nat
    BY <1>1, <2>0 DEF TypedInv, ClientInv, ClockInv, Baseline, Calls
  <2> QED
    BY <2>1, <2>3, <2>4, <2>5 DEF Fresh
<1>2. TypedInv /\ [Next]_vars =>
        [\A c \in Callers : ~At(c, "login") /\ call'[c].at = "login" =>
           aged \/ jar \notin valid \/ jar # recorded]_vars
  BY <1>1
<1> QED
  BY <1>2, TypedInvariance, PTL DEF Spec, LoginIsNeeded
=============================================================================
