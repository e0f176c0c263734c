-------------------------- MODULE EventsPollProofs --------------------------
(* What the long poll promises for any timeout, caps and number of events:  *)
(* its bookkeeping stays within bounds, and a caller that follows its       *)
(* cursor never skips an event unawares.                                    *)
EXTENDS EventsPoll, FiniteSetTheorems, WellFoundedInduction, TLAPS

----------------------------------------------------------------------------
\* A set of numbers that is not empty has a least one.
LEMMA LeastOfNats ==
  ASSUME NEW T \in SUBSET Nat, T # {}
  PROVE  \E x \in T : \A y \in T : x <= y
<1> DEFINE R == OpToRel(<, Nat)
<1>1. IsWellFoundedOn(R, Nat)
  BY NatLessThanWellFounded
<1>2. \A x, y \in Nat : <<y, x>> \in R <=> y < x
  BY DEF OpToRel
<1> HIDE DEF R
<1>3. PICK x \in T : \A y \in T : ~ (<<y, x>> \in R)
  BY <1>1, WFMin
<1>4. \A y \in T : ~(y < x)
  BY <1>2, <1>3
<1> QED
  BY <1>4

\* Max of a bounded set that is not empty is its greatest member.
LEMMA MaxIsGreatest ==
  ASSUME NEW n \in Nat, NEW T \in SUBSET (1..n), T # {}
  PROVE  Max(T) \in T /\ \A y \in T : y <= Max(T)
<1> DEFINE D == {n - y : y \in T}
<1>1. D \in SUBSET Nat /\ D # {}
  <2>1. \A y \in T : n - y \in Nat
    OBVIOUS
  <2>2. PICK y \in T : TRUE
    OBVIOUS
  <2>3. n - y \in D
    BY <2>2
  <2> QED
    BY <2>1, <2>3
<1>2. PICK d \in D : \A e \in D : d <= e
  <2> HIDE DEF D
  <2> QED
    BY <1>1, LeastOfNats
<1>3. PICK x \in T : d = n - x
  BY <1>2
<1>4. \A y \in T : n - x <= n - y
  BY <1>2, <1>3
<1>5. \A y \in T : x >= y
  BY <1>3, <1>4
<1>6. \E z \in T : \A y \in T : z >= y
  BY <1>5
<1>7. Max(T) \in T /\ \A y \in T : Max(T) >= y
  BY <1>6 DEF Max
<1> QED
  BY <1>7

----------------------------------------------------------------------------
Waits == [at : {"idle", "first", "wait", "poll"}, elapsed : 0..Timeout, ticked : BOOLEAN,
          baseline : Statuses \cup {Unread}, last : Statuses \cup {Unread},
          errors : 0..(MaxPollErrors - 1), streak : Nat, news : BOOLEAN, result : Results]

\* A wait goes on only without news, and counts the failures in a row.
Patient(w) == w \in Waits /\ w.news = FALSE /\ w.errors = w.streak

\* What the log, the call and the caller's cursor can be.
PollInv ==
  /\ events \in 0..MaxEvents /\ status \in Statuses /\ moves \in 0..MaxMoves
  /\ Patient(wait)
  /\ cursor \in 0..events /\ garbled \cup given \cup warned \subseteq 1..events
  /\ CursorIsHonest

LEMMA IdleIsPatient == Patient(Idle)
BY PollAssumption DEF Patient, Waits, Idle, Results

LEMMA PollInvInit == Init => PollInv
BY PollAssumption, IdleIsPatient DEF Init, PollInv, CursorIsHonest

\* A returned call is idle, with its result.
LEMMA ReturnIsPatient ==
  ASSUME NEW r \in Results, Return(r)
  PROVE  Patient(wait')
BY IdleIsPatient DEF Return, Patient, Waits

\* What is shown of the new events is some of them.
LEMMA FitsAreSome ==
  ASSUME NEW ids, NEW shown \in Fits(ids)
  PROVE  shown \subseteq ids
<1>1. \A n : Newest(ids, n) \subseteq ids
  BY DEF Newest
<1>2. shown = ids \/ shown = {} \/ \E n : shown = Newest(ids, n)
  BY DEF Fits
<1> QED
  BY <1>1, <1>2

\* The new events are among those on the ticket.
LEMMA NewIsFinite ==
  ASSUME PollInv
  PROVE  New \subseteq 1..events /\ IsFiniteSet(New)
<1>1. events \in Nat /\ cursor \in Nat
  BY PollAssumption DEF PollInv
<1>2. New \subseteq 1..events
  BY <1>1 DEF New
<1>3. IsFiniteSet(1..events)
  BY <1>1, FS_Interval
<1> QED
  BY <1>2, <1>3, FS_Subset

\* Unless it says so, a result keeps every new event.
LEMMA UnflaggedIsAll ==
  ASSUME PollInv, ~Kept.flagged
  PROVE  Kept.ids = New
<1>1. /\ Cardinality(New) \in Nat /\ MaxReturned \in Nat
      /\ ~(Cardinality(New) > MaxReturned)
  BY NewIsFinite, FS_CardinalityType, PollAssumption DEF Kept
<1>2. ASSUME NEW i \in New
      PROVE  Cardinality({j \in New : j >= i}) <= MaxReturned
  <2>1. {j \in New : j >= i} \subseteq New
    OBVIOUS
  <2>2. Cardinality({j \in New : j >= i}) \in Nat
          /\ Cardinality({j \in New : j >= i}) <= Cardinality(New)
    BY <2>1, NewIsFinite, FS_Subset, FS_CardinalityType
  <2> QED
    BY <1>1, <2>2
<1> QED
  BY <1>2 DEF Kept, Newest

\* Returned events move the cursor no further than what was shown or warned of.
LEMMA ReturnEventsKeeps ==
  ASSUME PollInv, ReturnEvents, UNCHANGED <<events, garbled, status, moves>>
  PROVE  PollInv'
<1>0. events \in Nat /\ cursor \in Nat /\ cursor <= events /\ New \subseteq 1..events
  BY PollAssumption, NewIsFinite DEF PollInv
<1>2. PICK shown \in Fits(Kept.ids), clipped \in BOOLEAN :
        /\ shown # Kept.ids => clipped
        /\ given' = given \cup shown
        /\ cursor' = IF shown = {} THEN cursor ELSE Max(shown)
        /\ warned' = IF Kept.flagged \/ clipped THEN warned \cup New ELSE warned
  BY DEF ReturnEvents
<1>1. Kept.ids \subseteq New
  BY DEF Kept, Newest
<1>3. shown \subseteq New
  BY <1>1, FitsAreSome
<1>4. cursor' \in cursor..events
  <2>1. CASE shown = {}
    BY <1>0, <1>2, <2>1
  <2>2. CASE shown # {}
    <3>1. Max(shown) \in shown
      BY <1>0, <1>3, <2>2, MaxIsGreatest
    <3> QED
      BY <1>0, <1>2, <1>3, <2>2, <3>1 DEF New
  <2> QED
    BY <2>1, <2>2
<1>5. New \subseteq given' \cup warned'
  <2>1. CASE Kept.flagged \/ clipped
    BY <1>2, <2>1
  <2>2. CASE ~Kept.flagged /\ ~clipped
    <3>1. shown = New
      BY <1>2, <2>2, UnflaggedIsAll
    <3> QED
      BY <1>2, <3>1
  <2> QED
    BY <2>1, <2>2
<1>6. \A i \in 1..cursor' : i \in 1..cursor \/ i \in New \/ i \in garbled
  BY <1>0, <1>4 DEF New
<1>7. given \cup warned \subseteq given' \cup warned' /\ given' \cup warned' \subseteq 1..events
  BY <1>0, <1>2, <1>3 DEF PollInv
<1>8. CursorIsHonest'
  BY <1>5, <1>6, <1>7 DEF PollInv, CursorIsHonest
<1>9. Patient(wait')
  <2>1. Return("events")
    BY DEF ReturnEvents
  <2> QED
    BY <2>1, ReturnIsPatient DEF Results
<1>10. cursor' \in 0..events'
  BY <1>0, <1>4
<1> QED
  BY <1>7, <1>8, <1>9, <1>10 DEF PollInv

\* Every step of the ticket, of time and of the server keeps the invariant.
LEMMA PollInvStep ==
  ASSUME PollInv, [Next]_vars
  PROVE  PollInv'
<1> USE PollAssumption
<1>0. Patient(wait) /\ wait \in Waits
  BY DEF PollInv, Patient
<1>1. CASE UNCHANGED vars
  BY <1>1 DEF vars, PollInv, CursorIsHonest
<1>2. CASE World
  BY <1>2 DEF World, Comment, Move, Append, PollInv, CursorIsHonest
<1>3. ASSUME UNCHANGED <<events, garbled, status, moves, cursor, given, warned>>, Patient(wait')
      PROVE  PollInv'
  BY <1>3 DEF PollInv, CursorIsHonest
<1>4. CASE PassTime
  <2>1. Saturating(wait.elapsed) \in 0..Timeout
    BY <1>0 DEF Waits, Saturating
  <2>2. Patient(wait')
    BY <1>0, <1>4, <2>1 DEF PassTime, Patient, Waits
  <2> QED
    BY <1>3, <1>4, <2>2 DEF PassTime
<1>5. CASE Call
  <2>1. Patient(wait')
    BY <1>5, IdleIsPatient DEF Call, Patient, Waits
  <2> QED
    BY <1>3, <1>5, <2>1 DEF Call, Server, Quiet
<1>6. ASSUME NEW baseline \in Statuses \cup {Unread}, NEW read \in Statuses \cup {Unread},
             baseline = Unread \/ read \in {Unread, baseline}
      PROVE  Patient(Showing(baseline, read))
  <2> DEFINE r == [wait EXCEPT !.at = "wait", !.baseline = baseline, !.errors = 0, !.streak = 0,
                     !.last = IF read = Unread THEN wait.last ELSE read, !.news = FALSE]
  <2>1. Showing(baseline, read) = r
    <3>1. (wait.news \/ (baseline # Unread /\ read \notin {Unread, baseline})) = FALSE
      BY <1>0, <1>6 DEF Patient
    <3> QED
      BY <1>0, <3>1 DEF Showing
  <2>2. Patient(r)
    <3> DEFINE l == IF read = Unread THEN wait.last ELSE read
    <3>1. l \in Statuses \cup {Unread} /\ 0 \in 0..(MaxPollErrors - 1)
      BY <1>0 DEF Waits
    <3> HIDE DEF l
    <3>2. r = [wait EXCEPT !.at = "wait", !.baseline = baseline, !.errors = 0, !.streak = 0, !.last = l, !.news = FALSE]
      BY DEF l
    <3>3. r \in Waits
      BY <1>0, <3>1, <3>2 DEF Waits
    <3>4. r.news = FALSE /\ r.errors = 0 /\ r.streak = 0
      BY <1>0, <3>2 DEF Waits
    <3> QED
      BY <3>3, <3>4 DEF Patient
  <2> QED
    BY <2>1, <2>2
<1>7. status \in Statuses /\ wait.baseline \in Statuses \cup {Unread}
  BY <1>0 DEF PollInv, Waits
<1>8. CASE FirstFetch
  <2>1. CASE ReturnEvents
    BY <1>8, <2>1, ReturnEventsKeeps DEF FirstFetch, Server
  <2>2. CASE Quiet /\ \E read \in {status, Unread} : wait' = Showing(read, read)
    BY <1>3, <1>6, <1>7, <1>8, <2>2 DEF FirstFetch, Server, Quiet
  <2>3. CASE Quiet /\ Return("failed")
    BY <1>3, <1>8, <2>3, ReturnIsPatient DEF FirstFetch, Server, Quiet, Results
  <2> QED
    BY <1>8, <2>1, <2>2, <2>3 DEF FirstFetch
<1>9. CASE TickerFires
  <2>1. Patient(wait')
    <3>1. CASE \E r \in {"timed_out", "cancelled"} : Return(r)
      BY <3>1, ReturnIsPatient DEF Results
    <3>2. CASE wait' = [wait EXCEPT !.at = "poll", !.ticked = FALSE]
      BY <1>0, <3>2 DEF Patient, Waits
    <3> QED
      BY <1>9, <3>1, <3>2 DEF TickerFires
  <2> QED
    BY <1>3, <1>9, <2>1 DEF TickerFires, Server, Quiet
<1>10. CASE PollShows
  <2>1. CASE ReturnEvents
    BY <1>10, <2>1, ReturnEventsKeeps DEF PollShows, Server
  <2>2. CASE Quiet /\ \E read \in {status, Unread} : ~StatusChanged(read) /\ wait' = Showing(wait.baseline, read)
    <3>1. PICK read \in {status, Unread} : ~StatusChanged(read) /\ wait' = Showing(wait.baseline, read)
      BY <2>2
    <3>2. wait.baseline = Unread \/ read \in {Unread, wait.baseline}
      BY <3>1 DEF StatusChanged
    <3>3. Patient(wait')
      BY <1>6, <1>7, <3>1, <3>2
    <3> QED
      BY <1>3, <1>10, <2>2, <3>3 DEF PollShows, Server, Quiet
  <2>3. CASE Quiet /\ Return("moved")
    BY <1>3, <1>10, <2>3, ReturnIsPatient DEF PollShows, Server, Quiet, Results
  <2> QED
    BY <1>10, <2>1, <2>2, <2>3 DEF PollShows
<1>11. CASE PollFails
  <2>1. Patient(wait')
    <3>1. CASE \E r \in {"aborted", "failed"} : Return(r)
      BY <3>1, ReturnIsPatient DEF Results
    <3>2. CASE /\ wait.errors + 1 < MaxPollErrors
               /\ wait' = [wait EXCEPT !.at = "wait", !.errors = @ + 1, !.streak = @ + 1]
      <4>1. wait.errors + 1 \in 0..(MaxPollErrors - 1) /\ wait.streak + 1 \in Nat
        BY <1>0, <3>2 DEF Waits
      <4> QED
        BY <1>0, <3>2, <4>1 DEF Patient, Waits
    <3> QED
      BY <1>11, <3>1, <3>2 DEF PollFails
  <2> QED
    BY <1>3, <1>11, <2>1 DEF PollFails, Server, Quiet
<1> QED
  BY <1>1, <1>2, <1>4, <1>5, <1>8, <1>9, <1>10, <1>11 DEF Next, Step

LEMMA PollInvHolds == Spec => []PollInv
  BY PollInvInit, PollInvStep, PTL DEF Spec

\* The state is well typed, the failures counted by a waiting call below the limit.
THEOREM TypeCorrect == Spec => []TypeOK
<1>1. PollInv => TypeOK
  BY DEF PollInv, TypeOK, Patient, Waits
<1> QED
  BY <1>1, PollInvHolds, PTL

\* since_event_id: each event up to the cursor that decodes was given to the caller, or a
\* result that said "truncated" stands for it, whatever the caps and however many events
\* there are.
THEOREM CursorIsAlwaysHonest == Spec => []CursorIsHonest
<1>1. PollInv => CursorIsHonest
  BY DEF PollInv
<1> QED
  BY <1>1, PollInvHolds, PTL

\* A wait that was shown a new status never times out.
THEOREM NewsAlwaysEndsTheWait == Spec => NewsEndsTheWait
<1>1. PollInv => (Ends("timed_out") => ~wait.news)
  BY DEF PollInv, Patient
<1> QED
  BY <1>1, PollInvHolds, PTL DEF NewsEndsTheWait

\* A wait is aborted by a fetch that fails after MaxPollErrors - 1 failures in a row.
THEOREM BlipsAreAlwaysTolerated == Spec => BlipsAreTolerated
<1>1. PollInv /\ [Next]_vars => [Ends("aborted") => wait.streak + 1 >= MaxPollErrors]_vars
  <2> SUFFICES ASSUME PollInv, [Next]_vars, Ends("aborted")
               PROVE  wait.streak + 1 >= MaxPollErrors
    OBVIOUS
  <2>0. wait.errors = wait.streak
    BY DEF PollInv, Patient
  <2>1. wait.at # "idle" /\ wait'.at = "idle" /\ wait'.result = "aborted"
    BY DEF Ends
  <2>2. \A r : Return(r) => wait'.result = r
    BY DEF Return, Idle
  <2>3. ~UNCHANGED vars /\ ~World /\ ~PassTime /\ ~Call
    BY <2>1 DEF vars, World, PassTime, Call, PollInv, Patient, Waits
  <2>4. ~ReturnEvents
    BY <2>1, <2>2 DEF ReturnEvents
  <2>5. ~FirstFetch /\ ~TickerFires /\ ~PollShows
    BY <2>1, <2>2, <2>4 DEF FirstFetch, TickerFires, PollShows, Showing, PollInv, Patient, Waits
  <2>6. PollFails
    BY <2>3, <2>5 DEF Next, Step
  <2> QED
    BY <2>0, <2>1, <2>2, <2>6 DEF PollFails, PollInv, Patient, Waits
<1> QED
  BY <1>1, PollInvHolds, PTL DEF Spec, BlipsAreTolerated
=============================================================================
