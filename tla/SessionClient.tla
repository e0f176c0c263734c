--------------------------- MODULE SessionClient ----------------------------
(***************************************************************************)
(* The HTTP/session core of the bridge (internal/kanban/client.go): one    *)
(* cookie jar and one login timestamp shared by every request, a login     *)
(* serialised by a mutex, one refresh and one retry after a request the    *)
(* server refuses.  A clock read, the moment the cookie is attached, the   *)
(* moment the server looks at it, the arrival of a login's cookie and the  *)
(* moment its time is recorded are steps of their own.                     *)
(***************************************************************************)
EXTENDS Naturals

CONSTANTS
  Callers,     \* goroutines using the client
  Nobody,      \* the mutex is free
  LoginsFail,  \* whether a login may be refused or lost
  MaxSessions, \* bound: sessions the server establishes
  MaxDrops,    \* bound: times the server drops its sessions, or they expire
  MaxClock     \* bound: clock reads after which no request begins

ASSUME ClientAssumption ==
  /\ Nobody \notin Callers
  /\ LoginsFail \in BOOLEAN
  /\ MaxSessions \in Nat
  /\ {MaxDrops, MaxClock} \subseteq Nat

VARIABLES
  clock,       \* reads of the clock so far: every read is later than the one before
  mu,          \* Client.mu: who is logging in
  lastLoginAt, \* Client.lastLoginAt; 0 is the zero time
  aged,        \* lastLoginAt is more than sessionTTL ago
  jar,         \* the session whose cookies the jar holds; 0 when none
  sessions,    \* sessions the server has established, numbered in order
  valid,       \* the sessions it still honours
  drops,       \* times it dropped them so far
  call,        \* per goroutine: where its do() is
  recorded     \* history: the session whose login lastLoginAt tells the time of

vars == <<clock, mu, lastLoginAt, aged, jar, sessions, valid, drops, call, recorded>>

Steps == {"idle", "ensure", "login", "record", "sentAt", "attach", "serve"}

\* retry: this is the second attempt; sentAt: when the first one was sent; used:
\* the session on the wire.  dropped is history: the server dropped a session
\* during this call.
NewCall == [at |-> "ensure", retry |-> FALSE, sentAt |-> 0, used |-> 0,
            dropped |-> FALSE, result |-> "pending"]

\* The state is well typed, and the mutex is held by whoever is logging in: every
\* way out of a login releases it.
TypeOK ==
  /\ {clock, lastLoginAt, jar, sessions, drops} \subseteq Nat
  /\ mu \in Callers \cup {Nobody}
  /\ aged \in BOOLEAN
  /\ valid \subseteq 1..sessions /\ recorded \in 0..sessions
  /\ call \in [Callers ->
       [at : Steps, retry : BOOLEAN, sentAt : Nat, used : Nat, dropped : BOOLEAN,
        result : {"idle", "pending", "answered", "failed", "permanent"}]]
  /\ \A c \in Callers : mu = c <=> call[c].at \in {"login", "record"}

Init ==
  /\ clock = 0 /\ mu = Nobody
  /\ lastLoginAt = 0 /\ aged = FALSE
  /\ jar = 0 /\ sessions = 0 /\ valid = {} /\ drops = 0 /\ recorded = 0
  /\ call = [c \in Callers |-> [NewCall EXCEPT !.at = "idle", !.result = "idle"]]

----------------------------------------------------------------------------

At(c, step)     == call[c].at = step
Goto(c, step)   == call' = [call EXCEPT ![c].at = step]
Return(c, res)  == call' = [call EXCEPT ![c].at = "idle", ![c].result = res]

Begin(c) ==
  /\ At(c, "idle") /\ clock < MaxClock
  /\ call' = [call EXCEPT ![c] = NewCall]
  /\ UNCHANGED <<clock, mu, lastLoginAt, aged, jar, sessions, valid, drops, recorded>>

\* After the first attempt only a session recorded later than its sending counts.
Baseline(c) == IF call[c].retry THEN call[c].sentAt ELSE 0

\* Mutants of Fresh: any session younger than the TTL satisfies a retry too; a
\* retry never accepts the login of another caller.
FreshAnyway(c) == lastLoginAt # 0 /\ ~aged
FreshNever(c)  == lastLoginAt # 0 /\ ~aged /\ ~call[c].retry

Fresh(c) == lastLoginAt # 0 /\ lastLoginAt > Baseline(c) /\ ~aged

\* A fresh session sends the request; the retry reads no new sentAt.
NextSend(c) == IF call[c].retry THEN "attach" ELSE "sentAt"

\* ensureSession: take the mutex; fresh releases it, anything else logs in under it.
EnsureSession(c) ==
  /\ At(c, "ensure") /\ mu = Nobody
  /\ \/ Fresh(c) /\ Goto(c, NextSend(c)) /\ UNCHANGED mu
     \/ ~Fresh(c) /\ Goto(c, "login") /\ mu' = c
  /\ UNCHANGED <<clock, lastLoginAt, aged, jar, sessions, valid, drops, recorded>>

\* The server opens a session and its cookies land in the jar.
Established ==
  /\ sessions < MaxSessions
  /\ sessions' = sessions + 1 /\ valid' = valid \cup {sessions + 1} /\ jar' = sessions + 1

\* The login is refused or lost, or only the body of its answer is: http.Client.Do has
\* stored the cookies of the headers by then, and nobody records when.
LoginLost ==
  \/ (LoginsFail \/ sessions = MaxSessions) /\ UNCHANGED <<sessions, valid, jar>>
  \/ LoginsFail /\ Established

\* Mutant of LoginReply: a failed login returns without releasing the mutex.
LoginReplyKeepsLock(c) ==
  /\ At(c, "login")
  /\ \/ Established /\ Goto(c, "record")
     \/ LoginLost /\ Return(c, "failed")
  /\ UNCHANGED <<clock, mu, lastLoginAt, aged, drops, recorded>>

\* The login POST and what comes back of it.
LoginReply(c) ==
  /\ At(c, "login")
  /\ \/ Established /\ Goto(c, "record") /\ UNCHANGED mu
     \/ LoginLost /\ Return(c, "failed") /\ mu' = Nobody
  /\ UNCHANGED <<clock, lastLoginAt, aged, drops, recorded>>

\* lastLoginAt = time.Now(), and the mutex is released.
RecordLogin(c) ==
  /\ At(c, "record")
  /\ clock' = clock + 1 /\ lastLoginAt' = clock + 1 /\ aged' = FALSE /\ recorded' = jar
  /\ Goto(c, NextSend(c)) /\ mu' = Nobody
  /\ UNCHANGED <<jar, sessions, valid, drops>>

\* sentAt := time.Now(), before the request is built.
ReadClock(c) ==
  /\ At(c, "sentAt")
  /\ clock' = clock + 1
  /\ call' = [call EXCEPT ![c].at = "attach", ![c].sentAt = clock + 1]
  /\ UNCHANGED <<mu, lastLoginAt, aged, jar, sessions, valid, drops, recorded>>

\* The transport puts whatever cookie the jar holds by now on the request.
Attach(c) ==
  /\ At(c, "attach")
  /\ call' = [call EXCEPT ![c].at = "serve", ![c].used = jar]
  /\ UNCHANGED <<clock, mu, lastLoginAt, aged, jar, sessions, valid, drops, recorded>>

\* The server answers, or refuses a session it does not honour: once to a refresh
\* and a retry, twice to ErrPermanentAuth.  The exchange may also be lost.
Serve(c) ==
  /\ At(c, "serve")
  /\ \/ call[c].used \in valid /\ Return(c, "answered")
     \/ /\ call[c].used \notin valid /\ ~call[c].retry
        /\ call' = [call EXCEPT ![c].at = "ensure", ![c].retry = TRUE]
     \/ call[c].used \notin valid /\ call[c].retry /\ Return(c, "permanent")
     \/ Return(c, "failed")
  /\ UNCHANGED <<clock, mu, lastLoginAt, aged, jar, sessions, valid, drops, recorded>>

\* The gateway restarts, or its sessions expire before sessionTTL says so.
Drop ==
  /\ drops < MaxDrops
  /\ drops' = drops + 1
  /\ valid' = {}
  /\ call' = [c \in Callers |-> [call[c] EXCEPT !.dropped = TRUE]]
  /\ UNCHANGED <<clock, mu, lastLoginAt, aged, jar, sessions, recorded>>

\* sessionTTL passes.
Age ==
  /\ lastLoginAt # 0 /\ aged' = TRUE
  /\ UNCHANGED <<clock, mu, lastLoginAt, jar, sessions, valid, drops, call, recorded>>

CallStep(c) ==
  EnsureSession(c) \/ LoginReply(c) \/ RecordLogin(c) \/ ReadClock(c) \/ Attach(c) \/ Serve(c)

Next == Drop \/ Age \/ \E c \in Callers : Begin(c) \/ CallStep(c)

Spec == Init /\ [][Next]_vars

\* Every exchange ends (the transport's 20 s timeout) and Go's mutex starves nobody.
FairSpec ==
  /\ Spec
  /\ \A c \in Callers : WF_vars(CallStep(c)) /\ SF_vars(EnsureSession(c))

----------------------------------------------------------------------------
(* What the client promises. *)

\* do() implements the service: in particular ErrPermanentAuth is never about a
\* session the client merely failed to refresh.
Service == INSTANCE SessionService WITH
  phase   <- [c \in Callers |-> call[c].result],
  dropped <- [c \in Callers |-> call[c].dropped]

ImplementsService == Service!ServiceSpec

\* Single flight: a login is sent only when the jar's session is gone or old, or the
\* login that brought it returned an error and its time was never recorded.  Callers
\* that find the same session expired share one login among them.
LoginIsNeeded ==
  [][ \A c \in Callers :
        ~At(c, "login") /\ call'[c].at = "login" =>
          aged \/ jar \notin valid \/ jar # recorded ]_vars

\* Every request is answered or fails, however many wait for the mutex.
EveryRequestReturns == \A c \in Callers : (call[c].result = "pending") ~> (call[c].result # "pending")
=============================================================================
