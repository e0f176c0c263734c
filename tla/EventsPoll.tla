----------------------------- MODULE EventsPoll -----------------------------
(***************************************************************************)
(* The ticket_events long poll (internal/mcptools/events_tool.go): one     *)
(* caller that follows its cursor through call after call, the server's    *)
(* fetch loop with its deadline, its ticker and its tolerance for backend  *)
(* failures, and a ticket that moves meanwhile.  Time is counted in poll   *)
(* intervals.                                                              *)
(***************************************************************************)
EXTENDS Naturals, FiniteSets, FiniteSetsExt

CONSTANTS
  Statuses,      \* statuses a ticket can have
  Unread,        \* what a degraded fetch serves for one
  Timeout,       \* timeout_seconds, in poll intervals
  MaxReturned,   \* maxReturnedEvents
  MaxPollErrors, \* maxConsecutivePollErrors
  MaxEvents,     \* bound: events on the ticket
  MaxMoves       \* bound: status changes

ASSUME PollAssumption ==
  /\ Unread \notin Statuses
  /\ {Timeout, MaxReturned, MaxPollErrors} \subseteq Nat \ {0}
  /\ {MaxEvents, MaxMoves} \subseteq Nat

VARIABLES
  events,  \* events on the ticket: their ids are 1..events
  garbled, \* those whose JSON is not an event of rawEvent's shape
  status,  \* its status
  moves,   \* status changes so far
  wait,    \* the call under way
  cursor,  \* since_event_id of the caller: the newest id it was given
  given,   \* history: ids the caller was given
  warned   \* history: ids a result flagged truncated may have skipped

vars == <<events, garbled, status, moves, wait, cursor, given, warned>>

\* elapsed: intervals since the deadline was set, up to the deadline; ticked: a tick
\* is in the ticker's channel.  streak (fetches failed in a row) and news (a fetch showed something new) are history.
Idle == [at |-> "idle", elapsed |-> 0, ticked |-> FALSE, baseline |-> Unread, last |-> Unread,
         errors |-> 0, streak |-> 0, news |-> FALSE, result |-> "none"]

Results == {"none", "events", "moved", "timed_out", "aborted", "failed", "cancelled"}

\* The state is well typed: a call that is still waiting has seen fewer failures in a
\* row than end it.
TypeOK ==
  /\ events \in 0..MaxEvents /\ status \in Statuses /\ moves \in 0..MaxMoves
  /\ wait.at \in {"idle", "first", "wait", "poll"}
  /\ wait.elapsed \in 0..Timeout
  /\ {wait.baseline, wait.last} \subseteq Statuses \cup {Unread}
  /\ wait.errors \in 0..(MaxPollErrors - 1)
  /\ wait.result \in Results
  /\ cursor \in 0..events /\ garbled \cup given \cup warned \subseteq 1..events

Init ==
  /\ events = 0 /\ garbled = {} /\ status \in Statuses /\ moves = 0
  /\ wait = Idle /\ cursor = 0
  /\ given = {} /\ warned = {}

----------------------------------------------------------------------------
(* The ticket meanwhile, and time. *)

Append ==
  /\ events < MaxEvents /\ events' = events + 1
  /\ garbled' \in {garbled, garbled \cup {events + 1}}

Comment == Append /\ UNCHANGED <<status, moves>>

\* A transition writes its event with it, or (a write past the kernel) none.
Move ==
  /\ moves < MaxMoves /\ moves' = moves + 1
  /\ status' \in Statuses \ {status}
  /\ Append \/ UNCHANGED <<events, garbled>>

World == (Comment \/ Move) /\ UNCHANGED <<wait, cursor, given, warned>>

Saturating(n) == IF n = Timeout THEN n ELSE n + 1

PassTime ==
  /\ wait.at # "idle"
  /\ wait' = [wait EXCEPT !.elapsed = Saturating(@), !.ticked = TRUE]
  /\ UNCHANGED <<events, garbled, status, moves, cursor, given, warned>>

----------------------------------------------------------------------------
(* TicketEvents *)

Server == UNCHANGED <<events, garbled, status, moves>>
Quiet  == UNCHANGED <<cursor, given, warned>>

\* The deadline is set and the ticker started before the first fetch.
Call ==
  /\ wait.at = "idle"
  /\ wait' = [Idle EXCEPT !.at = "first"]
  /\ Server /\ Quiet

Return(result) == wait' = [Idle EXCEPT !.result = result]

\* The events after the cursor; one that does not decode is passed over.
New == (cursor + 1)..events \ garbled

Newest(ids, n) == {i \in ids : Cardinality({j \in ids : j >= i}) <= n}

\* Mutant of Kept: drops the oldest without saying so.
KeptSilently == [ids |-> Newest(New, MaxReturned), flagged |-> FALSE]

\* collectEvents keeps the newest MaxReturned, and says when it dropped any.
Kept == [ids |-> Newest(New, MaxReturned), flagged |-> Cardinality(New) > MaxReturned]

\* What is left of n events when the older half is dropped k times.
Halved(n, k) == (n + 2^k - 1) \div 2^k

\* Rendered as they are when they fit; else notes are shortened, then the older half
\* is dropped again and again, in the end the last event, and the result is flagged.
Fits(ids) == {ids, {}} \cup {Newest(ids, Halved(Cardinality(ids), k)) : k \in 1..Cardinality(ids)}

ReturnEvents ==
  /\ \E shown \in Fits(Kept.ids), clipped \in BOOLEAN :
       /\ shown # Kept.ids => clipped
       /\ given' = given \cup shown
       /\ cursor' = IF shown = {} THEN cursor ELSE Max(shown)
       /\ warned' = IF Kept.flagged \/ clipped THEN warned \cup New ELSE warned
  /\ Return("events")

\* Mutant of Showing: an answer does not forgive the failures before it.
ShowingStillCounts(baseline, read) ==
  [wait EXCEPT !.at = "wait", !.baseline = baseline, !.streak = 0,
     !.last = IF read = Unread THEN @ ELSE read,
     !.news = @ \/ (baseline # Unread /\ read \notin {Unread, baseline})]

\* A fetch that shows no events, and a status unless it is degraded.
Showing(baseline, read) ==
  [wait EXCEPT !.at = "wait", !.baseline = baseline, !.errors = 0, !.streak = 0,
     !.last = IF read = Unread THEN @ ELSE read,
     !.news = @ \/ (baseline # Unread /\ read \notin {Unread, baseline})]

\* Any error of the first fetch ends the call.  A degraded fetch, this one or a later
\* one, may leave out the status, and events that are there.
FirstFetch ==
  /\ wait.at = "first"
  /\ \/ New # {} /\ ReturnEvents
     \/ \E read \in {status, Unread} : wait' = Showing(read, read) /\ Quiet
     \/ Return("failed") /\ Quiet
  /\ Server

\* Mutant of TickerFires: the deadline is not looked at.
TickerFiresOn ==
  /\ wait.at = "wait" /\ wait.ticked
  /\ \/ wait' = [wait EXCEPT !.at = "poll", !.ticked = FALSE]
     \/ Return("cancelled")
  /\ Server /\ Quiet

\* A tick: past the deadline the call times out without another fetch.
TickerFires ==
  /\ wait.at = "wait" /\ wait.ticked
  /\ \/ wait.elapsed = Timeout /\ Return("timed_out")
     \/ wait.elapsed < Timeout /\ wait' = [wait EXCEPT !.at = "poll", !.ticked = FALSE]
     \/ Return("cancelled")
  /\ Server /\ Quiet

StatusChanged(read) ==
  LET last == IF read = Unread THEN wait.last ELSE read IN
  wait.baseline # Unread /\ last \notin {Unread, wait.baseline}

\* Mutant of PollShows: compares with the status of the last fetch, not of the first.
PollShowsStep ==
  /\ wait.at = "poll"
  /\ \/ New # {} /\ ReturnEvents
     \/ \E read \in {status, Unread} :
          /\ wait' = [Showing(wait.baseline, read) EXCEPT !.baseline = IF read = Unread THEN @ ELSE read]
          /\ Quiet
  /\ Server

PollShows ==
  /\ wait.at = "poll"
  /\ \/ New # {} /\ ReturnEvents
     \/ \E read \in {status, Unread} :
          /\ \/ StatusChanged(read) /\ Return("moved")
             \/ ~StatusChanged(read) /\ wait' = Showing(wait.baseline, read)
          /\ Quiet
  /\ Server

\* A transient failure is waited out unless it is the last tolerated in a row; a
\* definitive one (4xx) ends the call.
PollFails ==
  /\ wait.at = "poll"
  /\ \/ wait.errors + 1 < MaxPollErrors
          /\ wait' = [wait EXCEPT !.at = "wait", !.errors = @ + 1, !.streak = @ + 1]
     \/ wait.errors + 1 >= MaxPollErrors /\ Return("aborted")
     \/ Return("failed")
  /\ Server /\ Quiet

Step == FirstFetch \/ TickerFires \/ PollShows \/ PollFails

Next == World \/ PassTime \/ Call \/ Step

Spec == Init /\ [][Next]_vars

\* Time passes and the server takes its steps (every request has a deadline).
FairSpec == Spec /\ WF_vars(PassTime) /\ WF_vars(Step)

----------------------------------------------------------------------------
(* What the tool promises. *)

Ends(result) == wait.at # "idle" /\ wait'.at = "idle" /\ wait'.result = result

\* A caller that follows its cursor never skips an event that decodes unawares: each one
\* up to the cursor was given to it, or a result flagged truncated stands for it.
CursorIsHonest == 1..cursor \ garbled \subseteq given \cup warned

\* A wait that was shown a status other than the one the caller found does not time
\* out, even when every later fetch leaves the status out.
NewsEndsTheWait == [][ Ends("timed_out") => ~wait.news ]_vars

\* Only persistent failures end a wait: a blip, or blips with an answer between them,
\* do not discard it.
BlipsAreTolerated == [][ Ends("aborted") => wait.streak + 1 >= MaxPollErrors ]_vars

\* Every call returns.
EveryWaitEnds == (wait.at # "idle") ~> (wait.at = "idle")
=============================================================================
