---------------------------- MODULE BridgeTools ----------------------------
(***************************************************************************)
(* The tools of the bridge that read tickets and that write new text       *)
(* (internal/mcptools): ticket_get, ticket_list and review_queue, which    *)
(* look at boards that move meanwhile, and ticket_create and               *)
(* ticket_comment, whose clients call again when an answer is lost.        *)
(* Requests the handlers refuse before they send anything leave no trace   *)
(* and are left out.                                                       *)
(***************************************************************************)
EXTENDS SlugCache, TicketFit, ReviewQueue

CONSTANTS
  Modes,     \* sizing policies: partial and full
  Tickets,   \* tickets to be read: board, body, thread, summary, and the rest (bytes of its other fields)
  Remarks,   \* comments to be posted
  Requests,  \* tickets to be created: board, title, head and tail (of the body), key
  Filters,   \* status filters of a ticket_list
  Workloads, \* which tools each caller uses on which tickets, and what moves meanwhile
  MaxPosts   \* bound: posts of a caller

ASSUME ToolsAssumption ==
  /\ Tickets \subseteq [board : Boards, body : Texts, thread : Seq(Texts), summary : Texts, rest : Nat]
  /\ Remarks \subseteq Texts
  /\ Modes \subseteq [budget : Nat, window : Nat, bodyCap : Nat, commentCap : Nat]
  /\ \A l \in Workloads : l.tickets \subseteq Tickets /\ l.columns \subseteq [Cards -> Columns]
  /\ MaxPosts \in Nat

VARIABLES
  load,   \* the workload
  at,     \* of each caller: how far its call has come
  call,   \* the tool it calls, with which board and mode
  fit,    \* the ticket it was served, being fitted
  queue,  \* the listing it collects
  ticket, \* the ticket that is read and commented, at the backend
  wire,   \* posts that the backend has not taken yet
  posts,  \* posts each caller has sent
  post,   \* the post it waits on, or waited on last
  made    \* tickets created, with their idempotency keys

callVars == <<at, call, fit, queue>>
postVars == <<ticket, wire, posts, post, made>>
vars == <<load, column, callVars, postVars, cacheVars>>

NoFit == [at |-> "no fit"]
NoPost == [at |-> "no post"]
NoCall == [tool |-> "none", board |-> None, mode |-> None]
Reads == {"ticket_get", "ticket_list"}

Init ==
  /\ load \in Workloads
  /\ column \in load.columns
  /\ at = [c \in Callers |-> "idle"] /\ call = [c \in Callers |-> NoCall]
  /\ fit = [c \in Callers |-> NoFit]
  /\ queue = [c \in Callers |-> NoListing]
  /\ ticket \in load.tickets
  /\ wire = {} /\ posts = [c \in Callers |-> 0] /\ post = [c \in Callers |-> NoPost]
  /\ made = <<>>
  /\ CacheInit

----------------------------------------------------------------------------
(* What moves at the backend. *)

MoveCard(k, s) ==
  /\ "cards" \in load.world /\ column[k] # s
  /\ column' = [column EXCEPT ![k] = s]
  /\ queue' = [c \in Callers |-> Unsteady(queue[c], k)]
  /\ UNCHANGED <<load, at, call, fit, postVars, cacheVars>>

Clock == "time" \in load.world /\ Tick /\ UNCHANGED <<load, column, callVars, postVars>>

FlipBoard(b) ==
  /\ "boards" \in load.world /\ Flip(b)
  /\ UNCHANGED <<load, column, callVars, postVars>>

----------------------------------------------------------------------------
(* Calls *)

Becomes(c, where) == at[c] # where /\ at' = [at EXCEPT ![c] = where]
Backend == UNCHANGED <<load, column, postVars>>
Calls(c, t, b, m) ==
  /\ at[c] = "idle" /\ t \in load.tools[c]
  /\ call' = [call EXCEPT ![c] = [tool |-> t, board |-> b, mode |-> m]]

CallRead(c, t, b, m) ==
  /\ t \in Reads /\ Calls(c, t, b, m) /\ Becomes(c, "asking") /\ Ensure(c, b)
  /\ Backend /\ UNCHANGED <<fit, queue>>

\* Looking at the cache needs its mutex.
Acquire(c) == (Hit(c) \/ Miss(c)) /\ Backend /\ UNCHANGED callVars
Refresh(c) == (Listed(c) \/ Stored(c) \/ ListFails(c)) /\ Backend /\ UNCHANGED callVars

GoesOn(c) ==
  /\ at[c] = "asking" /\ Settled(c, {"known"})
  /\ Becomes(c, IF call[c].tool = "ticket_get" THEN "getting" ELSE "listing")
  /\ Backend /\ UNCHANGED <<call, fit, queue>>

Refused(c) ==
  /\ at[c] = "asking" /\ Settled(c, {"unknown", "failed"}) /\ Becomes(c, "failed")
  /\ Backend /\ UNCHANGED <<call, fit, queue>>

\* A request without an answer, or refused by the backend, fails the call.
RequestFails(c) ==
  /\ at[c] \in {"getting", "listing", "boards", "reading", "posting"} /\ Becomes(c, "failed")
  /\ Backend /\ UNCHANGED <<call, fit, queue, cacheVars>>

Return(c) ==
  /\ at[c] \in {"answered", "oversized", "failed"} /\ Becomes(c, "idle")
  /\ call' = [call EXCEPT ![c] = NoCall] /\ fit' = [fit EXCEPT ![c] = NoFit]
  /\ queue' = [queue EXCEPT ![c] = NoListing]
  /\ Backend /\ UNCHANGED cacheVars

----------------------------------------------------------------------------
(* TicketGet *)

FitTo(c, f) == fit' = [fit EXCEPT ![c] = f] /\ Backend /\ UNCHANGED <<call, queue, cacheVars>>

GetTicket(c) ==
  /\ at[c] = "getting" /\ call[c].board = ticket.board
  /\ Becomes(c, "fitting") /\ FitTo(c, Fitting(ticket, call[c].mode))

\* fitGetProjection, one pass of its loop at a time.
Fitted(c) ==
  /\ at[c] = "fitting" /\ Becomes(c, "answered")
  /\ \E f \in {Rendered(fit[c])} : Fits(f) /\ FitTo(c, f)

\* Mutant of DropOldest: the last comment is dropped too.
DropAny(c) ==
  /\ at[c] = "fitting" /\ UNCHANGED at
  /\ \E f \in {Rendered(fit[c])} : ~Fits(f) /\ f.from <= f.to /\ FitTo(c, WithoutOldest(f))

DropOldest(c) ==
  /\ at[c] = "fitting" /\ UNCHANGED at
  /\ \E f \in {Rendered(fit[c])} : ~Fits(f) /\ f.from < f.to /\ FitTo(c, WithoutOldest(f))

\* Text is shrunk when one comment is left; the sizes are measured once in a pass.
ShrinkOrGiveUp(c) ==
  /\ at[c] = "fitting"
  /\ \E f \in {Rendered(fit[c])} :
       /\ ~Fits(f) /\ f.from >= f.to
       /\ \E m \in {Measured(f)} : \E caps \in {Caps(f, m)} :
            \/ ~Stuck(caps) /\ FitTo(c, Shrunk(f, caps)) /\ UNCHANGED at
            \/ Stuck(caps) /\ FitTo(c, f) /\ Becomes(c, "oversized")

----------------------------------------------------------------------------
(* TicketList and ReviewQueue *)

ListTo(c, q) == queue' = [queue EXCEPT ![c] = q] /\ Backend /\ UNCHANGED <<call, fit, cacheVars>>

GetBoard(c, statuses) ==
  at[c] = "listing" /\ Becomes(c, "answered") /\ ListTo(c, ListedRows(call[c].board, statuses))

CallQueue(c) ==
  /\ Calls(c, "review_queue", None, None) /\ Becomes(c, "boards")
  /\ Backend /\ UNCHANGED <<fit, queue, cacheVars>>

ListBoards(c) == at[c] = "boards" /\ Becomes(c, "reading") /\ ListTo(c, Begun(active))

\* Mutant of GetQueueBoard: a board that cannot be read is skipped.
GetQueueBoardOrSkip(c, b) ==
  /\ at[c] = "reading" /\ b \in queue[c].left
  /\ ListTo(c, ReadBoard(queue[c], b)) \/ ListTo(c, [queue[c] EXCEPT !.left = @ \ {b}])
  /\ UNCHANGED at

GetQueueBoard(c, b) ==
  at[c] = "reading" /\ b \in queue[c].left /\ ListTo(c, ReadBoard(queue[c], b)) /\ UNCHANGED at

AnswerQueue(c) ==
  at[c] = "reading" /\ queue[c].left = {} /\ Becomes(c, "answered") /\ ListTo(c, Queued(queue[c]))

----------------------------------------------------------------------------
(* TicketCreate and TicketComment *)

\* Mutant of Key: every call has a key of its own.
KeyPerCall(c, r) == <<r.key, posts[c]>>

\* The caller's key, or one made of what the request says up to 200 runes of the body.
Key(c, r) == IF r.key # "" THEN <<r.key>> ELSE <<r.board, r.title, r.head>>

Sends(c, t, text) ==
  LET p == [by |-> c, try |-> posts[c] + 1, key |-> IF t = "ticket_create" THEN Key(c, text) ELSE <<>>, text |-> text] IN
  /\ posts[c] < MaxPosts /\ posts' = [posts EXCEPT ![c] = @ + 1]
  /\ post' = [post EXCEPT ![c] = p] /\ wire' = wire \cup {p}
  /\ Becomes(c, "posting")
  /\ UNCHANGED <<load, column, ticket, made, fit, queue, cacheVars>>

CallCreate(c, r) == Calls(c, "ticket_create", None, None) /\ Sends(c, "ticket_create", r)
CallComment(c, r) == Calls(c, "ticket_comment", None, None) /\ Sends(c, "ticket_comment", r)

\* The client calls again with the same arguments.
CallAgain(c) ==
  /\ at[c] = "failed" /\ call[c].tool \in {"ticket_create", "ticket_comment"}
  /\ Sends(c, call[c].tool, post[c].text) /\ UNCHANGED call

\* The kernel, once per post and possibly after the caller gave up: a known key makes no
\* second ticket, a comment is appended.
Taken(p) ==
  \/ /\ p.key = <<>>
     /\ ticket' = [ticket EXCEPT !.thread = Append(@, p.text)] /\ UNCHANGED made
  \/ /\ p.key # <<>> /\ UNCHANGED ticket
     /\ made' = IF \E i \in DOMAIN made : made[i].key = p.key THEN made
                ELSE Append(made, [key |-> p.key, text |-> p.text])

KernelTakes(p) ==
  /\ wire' = wire \ {p} /\ Taken(p)
  /\ \/ at[p.by] = "posting" /\ posts[p.by] = p.try /\ Becomes(p.by, "answered")
     \/ UNCHANGED at
  /\ UNCHANGED <<load, column, posts, post, call, fit, queue, cacheVars>>

----------------------------------------------------------------------------

Fit(c) == Fitted(c) \/ DropOldest(c) \/ ShrinkOrGiveUp(c)

\* What a call does by itself once it has begun.
Serve(c) ==
  \/ Refresh(c) \/ GoesOn(c) \/ Refused(c) \/ RequestFails(c) \/ Return(c)
  \/ GetTicket(c) \/ Fit(c)
  \/ \E s \in Filters : GetBoard(c, s)
  \/ ListBoards(c) \/ AnswerQueue(c) \/ \E b \in Boards : GetQueueBoard(c, b)

Next ==
  \/ \E c \in Callers :
       \/ Acquire(c) \/ Serve(c) \/ CallQueue(c) \/ CallAgain(c)
       \/ \E t \in Reads, b \in Boards, m \in Modes : CallRead(c, t, b, m)
       \/ \E r \in Requests : CallCreate(c, r)
       \/ \E r \in Remarks : CallComment(c, r)
  \/ \E p \in wire : KernelTakes(p)
  \/ \E k \in Cards, s \in Columns : MoveCard(k, s)
  \/ \E b \in Archivable : FlipBoard(b)
  \/ Clock

Spec == Init /\ [][Next]_vars

\* Handlers run and every request is answered or times out; a Go mutex is handed to a
\* goroutine that has waited too long, so each waiter gets it.
FairSpec == Spec /\ \A c \in Callers : WF_vars(Serve(c)) /\ SF_vars(Acquire(c))

----------------------------------------------------------------------------
(* What the tools promise. *)

\* ticket_get drops and clips from the old end: see KeepsNewest.
NewestSurvives == \A c \in Callers : at[c] \in {"fitting", "answered"} /\ fit[c] # NoFit => KeepsNewest(fit[c])

\* An answered ticket_get accounts for what it leaves out of the body and the thread: see
\* CountsLosses.
NoLossIsSilent == \A c \in Callers : at[c] = "answered" /\ fit[c] # NoFit => CountsLosses(fit[c])

\* ticket_get refuses a ticket as oversized only when what weighs most is down to the
\* floor: see IsOversized.
OversizeIsReal == \A c \in Callers : at[c] = "oversized" => IsOversized(fit[c])

\* An answered review_queue has every card that waited for a review all along, although
\* the boards were read one after the other, says so when rows are left out, and leaves out
\* the last ones.
QueueIsHonest ==
  \A c \in Callers : at[c] = "answered" /\ call[c].tool = "review_queue" =>
    LET q == queue[c]
        left == q.found \ {q.rows[i] : i \in DOMAIN q.rows}
    IN /\ q.steady \subseteq q.found
       /\ q.truncated <=> left # {}
       /\ \A i \in DOMAIN q.rows, k \in left : QueuedBefore(q.rows[i], k)

\* However often a ticket_create is called again, with the first post taken late or not at
\* all, it makes one ticket.
RetryCreatesOnce == \A i, j \in DOMAIN made : made[i].text = made[j].text => i = j

\* Every call ends: the cache's mutex is always released, the fit comes to an end.
EveryCallEnds == \A c \in Callers : (at[c] # "idle") ~> (at[c] = "idle")
=============================================================================
