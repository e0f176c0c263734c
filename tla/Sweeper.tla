------------------------------ MODULE Sweeper ------------------------------
(***************************************************************************)
(* The review sweeper (sweeper/review_sweeper.py): cron ticks and --scan   *)
(* runs that list the blocked cards, take a lock per card, spawn a         *)
(* reviewer, apply its verdict over two APIs and write a ledger; people    *)
(* and workers who move the cards meanwhile; and a host that kills         *)
(* processes.  The singleton is SweeperLock, system call by system call;   *)
(* taking the lock file of a card is one step.                             *)
(***************************************************************************)
EXTENDS SweeperLock

CONSTANTS
  Scans,          \* --scan runs
  Tickets,        \* cards of the board, numbers in the order of the queue
  Texts, Plain,   \* block texts that say review-required; one that does not
  MaxTickets,     \* MAX_TICKETS_PER_RUN
  StallThreshold, \* STALL_THRESHOLD
  Skills,         \* what the skill probe may find: TRUE, one skill or none named
  Faults,         \* what may fail: "connect", "read" and "apply", calls of the bridge and the
                  \* dashboard; "branch", the lookup on GitHub; "review"; "disk", writes of lock
                  \* files and of the ledger; "stall", those of stall.json
  Signals,        \* what the host sends: "kill", "term"
  MaxBlocks,      \* bound: times a card is blocked
  MaxSignals      \* bound: signals sent

Procs == Sweeps \cup Scans

ASSUME SweeperAssumption ==
  /\ Tickets \subseteq Nat \ {0} /\ Sweeps \cap Scans = {}
  /\ {Free, Dead} \cap Procs = {} /\ Plain \notin Texts
  /\ Skills \subseteq BOOLEAN
  /\ Faults \subseteq {"connect", "read", "apply", "branch", "review", "disk", "stall"}
  /\ Signals \subseteq {"kill", "term"}
  /\ {MaxTickets, StallThreshold} \subseteq Nat \ {0} /\ {MaxBlocks, MaxSignals} \subseteq Nat

VARIABLES
  card,      \* the cards, with the sweeper's marks on them
  live,      \* reviewer sessions alive, per card
  lock,      \* the lock file of each card: its owner, and the reviewer it records
  ledger,    \* ledger.jsonl: cards and the block texts that were dealt with
  stall,     \* stall.json: the count it reads as, and whether one was not written into it
  proc,      \* the processes
  signals,   \* signals sent so far
  history    \* what the properties need of the past

vars == <<file, at, card, live, lock, ledger, stall, proc, signals, history>>

NoLock == [owner |-> Free, reviewer |-> "none"]

NoDetail == [text |-> Plain, skipped |-> FALSE]

Asleep == [at |-> "off", queue |-> {}, seen |-> NoDetail, verdict |-> "none",
           processed |-> 0, warned |-> FALSE, found |-> FALSE, prev |-> 0]

\* card.block counts the card's blocks, patches the sweeper's moves since the last one, skips
\* the SKIPPED comments among those that ticket_get shows.  Verdict comments are not kept:
\* they decide of nothing but whether an escalation posts another.
\* history: texts whose verdict was carried out; blind runs in a row, and whether a count
\* was lost since the last run that was not blind: "torn" with the file's content, or
\* "kept" out of a file that could not be opened.
Init ==
  /\ card = [t \in Tickets |-> [status |-> "open", text |-> Plain, block |-> 0, pushed |-> FALSE,
                                skips |-> 0, patches |-> 0]]
  /\ live = [t \in Tickets |-> 0]
  /\ LockInit /\ lock = [t \in Tickets |-> NoLock]
  /\ ledger = {} /\ stall = [count |-> 0, torn |-> FALSE]
  /\ proc = [p \in Procs |-> Asleep]
  /\ signals = 0
  /\ history = [done |-> {}, blind |-> 0, lost |-> "no"]

Locked == {"report", "prep", "reviewing", "comment", "patch", "append", "release"}
Guarded == Locked \cup {"list", "next", "ledger", "lock"}

\* The state is well typed: a run never takes on more cards than its bound.
TypeOK ==
  /\ LockTypeOK
  /\ \A t \in Tickets :
       /\ card[t].status \in {"open", "blocked", "done"} /\ card[t].text \in Texts \cup {Plain}
       /\ card[t].block \in 0..MaxBlocks /\ card[t].skips \in Nat /\ card[t].patches \in Nat
       /\ live[t] \in Nat
       /\ lock[t].owner \in Procs \cup {Free, Dead} /\ lock[t].reviewer \in {"none", "ended"}
  /\ ledger \subseteq Tickets \X Texts /\ stall \in [count : Nat, torn : BOOLEAN]
  /\ \A p \in Procs :
       /\ proc[p].at \in Guarded \cup {"off", "init", "stall", "count"}
       /\ proc[p].processed \in 0..MaxTickets
       /\ proc[p].verdict \in {"none", "approve", "changes", "escalate", "unparsed", "failed"}
       /\ proc[p].at \in Locked \cup {"ledger", "lock"} => proc[p].queue # {}

----------------------------------------------------------------------------
(* Workers, people and the host. *)

Sweeper == UNCHANGED <<file, at, lock, ledger, stall, proc, signals>>

Block(t) ==
  /\ card[t].status = "open" /\ card[t].block < MaxBlocks
  /\ \E text \in Texts \cup {Plain}, pushed \in BOOLEAN :
       /\ pushed => text # Plain
       /\ card' = [card EXCEPT ![t].status = "blocked", ![t].text = text, ![t].pushed = pushed,
                               ![t].block = @ + 1, ![t].patches = 0]
  /\ UNCHANGED <<live, history>> /\ Sweeper

\* Nobody looks at the branch of a card that asks for no review.
Push(t) ==
  /\ ~card[t].pushed /\ card[t].text # Plain /\ card' = [card EXCEPT ![t].pushed = TRUE]
  /\ UNCHANGED <<live, history>> /\ Sweeper

PersonMoves(t) ==
  /\ card[t].status = "blocked"
  /\ \E status \in {"open", "done"} : card' = [card EXCEPT ![t].status = status]
  /\ UNCHANGED <<live, history>> /\ Sweeper

\* The card a run is at: the first that is left of its queue.
Card(p) == CHOOSE t \in proc[p].queue : \A u \in proc[p].queue : t <= u

AtWork(t) == {p \in Procs : proc[p].at = "reviewing" /\ Card(p) = t}

\* A reviewer nobody waits for any more ends on its own.
OrphanEnds(t) ==
  /\ live[t] > Cardinality(AtWork(t)) /\ live' = [live EXCEPT ![t] = @ - 1]
  /\ UNCHANGED <<card, history>> /\ Sweeper

\* People and workers comment: of the thread, ticket_get shows the last 50 comments and no
\* more than 32 KB, so the sweeper's own may drop out at the old end.
ThreadGrows(t) ==
  /\ \E skips \in 0..card[t].skips - 1 : card' = [card EXCEPT ![t].skips = skips]
  /\ UNCHANGED <<live, history>> /\ Sweeper

World == \E t \in Tickets : Block(t) \/ Push(t) \/ PersonMoves(t) \/ ThreadGrows(t) \/ OrphanEnds(t)

----------------------------------------------------------------------------
(* Steps of a run. *)

At(p, here) == proc[p].at = here
Goto(p, there) == proc' = [proc EXCEPT ![p].at = there]
Outside == UNCHANGED <<card, live, history, signals>>
Files == UNCHANGED <<file, at, lock, ledger, stall>>

\* main: a scan takes no singleton.
Start(p) ==
  /\ At(p, "off")
  /\ \/ p \in Sweeps /\ Begin(p) /\ UNCHANGED proc
     \/ p \in Scans /\ proc' = [proc EXCEPT ![p].at = "init"] /\ UNCHANGED <<file, at>>
  /\ Outside /\ UNCHANGED <<lock, ledger, stall>>

\* singleton_acquire, a system call at a time; a run that is refused or raises is over.
SingletonAcquire(p) ==
  /\ p \in Sweeps /\ Acquire(p)
  /\ proc' = IF at'[p] = "holds" THEN [proc EXCEPT ![p].at = "init"] ELSE proc
  /\ Outside /\ UNCHANGED <<lock, ledger, stall>>

SingletonRelease(p) == IF p \in Sweeps THEN Leave(p) ELSE UNCHANGED <<file, at>>

\* The calls of singleton_release.
Releasing(p) ==
  /\ p \in Sweeps /\ LetGo(p)
  /\ Outside /\ UNCHANGED <<lock, ledger, stall, proc>>

\* A process that ends without releasing.
Vanishes(p) == IF p \in Sweeps THEN Dies(p) ELSE UNCHANGED <<file, at>>

\* mcp.initialize; then the stall counter is read.  Before the finally clauses an exception
\* that is not caught leaves the singleton behind.
Initialize(p) ==
  /\ At(p, "init")
  /\ \/ proc' = [proc EXCEPT ![p].at = "list", ![p].prev = stall.count] /\ UNCHANGED <<file, at>>
     \/ "connect" \in Faults /\ (SingletonRelease(p) \/ Vanishes(p)) /\ Goto(p, "off")
  /\ Outside /\ UNCHANGED <<lock, ledger, stall>>

\* Mutant of ListQueue: cards that were moved already are listed too.
ListQueueMoved(p) ==
  LET queue == {t \in Tickets : card[t].text \in Texts} IN
  /\ At(p, "list")
  /\ proc' = [proc EXCEPT ![p].at = "next", ![p].queue = queue]
  /\ Outside /\ Files

\* review_queue: the blocked cards whose text asks for a review, in the stable order;
\* a failed or truncated answer is a prefix and a warning.
ListQueue(p) ==
  LET queue == {t \in Tickets : card[t].status = "blocked" /\ card[t].text \in Texts} IN
  /\ At(p, "list")
  /\ \/ proc' = [proc EXCEPT ![p].at = "next", ![p].queue = queue]
     \/ /\ "read" \in Faults
        /\ \E n \in Tickets \cup {0} :
             proc' = [proc EXCEPT ![p].at = "next", ![p].queue = {t \in queue : t <= n},
                                  ![p].warned = TRUE]
  /\ Outside /\ Files

Passed(p) == [proc[p] EXCEPT !.at = "next", !.queue = @ \ {Card(p)}, !.seen = NoDetail, !.verdict = "none"]
PassOver(p) == proc' = [proc EXCEPT ![p] = Passed(p)]

Detail(t) == [text |-> card[t].text, skipped |-> card[t].skips > 0]

\* Mutant of ReadDetail: the bound on the cards of a run is not looked at.
ReadDetailUnbounded(p) ==
  /\ At(p, "next") /\ proc[p].queue # {}
  /\ proc' = [proc EXCEPT ![p].at = "ledger", ![p].seen = Detail(Card(p)), ![p].found = TRUE]
  /\ Outside /\ Files

\* ticket_detail and is_review_required: whatever status the card has by now.
ReadDetail(p) ==
  /\ At(p, "next") /\ proc[p].queue # {} /\ proc[p].processed < MaxTickets
  /\ \/ card[Card(p)].text = Plain /\ PassOver(p)
     \/ /\ card[Card(p)].text # Plain
        /\ proc' = [proc EXCEPT ![p].at = "ledger", ![p].seen = Detail(Card(p)), ![p].found = TRUE]
     \/ /\ "read" \in Faults
        /\ proc' = [proc EXCEPT ![p] = [Passed(p) EXCEPT !.warned = TRUE]]
  /\ Outside /\ Files

\* ledger_has of the block's fingerprint.
LedgerHas(p) ==
  /\ At(p, "ledger")
  /\ IF <<Card(p), proc[p].seen.text>> \in ledger THEN PassOver(p) ELSE Goto(p, "lock")
  /\ Outside /\ Files

\* lock_acquire: a dead owner is replaced.  Its recorded reviewer would be killed, but
\* a recorded one has always ended.
LockAcquire(p) ==
  /\ At(p, "lock")
  /\ \/ /\ lock[Card(p)].owner \in {Free, Dead}
        /\ lock' = [lock EXCEPT ![Card(p)] = [owner |-> p, reviewer |-> "none"]]
        /\ Goto(p, IF p \in Scans THEN "report" ELSE "prep")
     \/ lock[Card(p)].owner \notin {Free, Dead} /\ PassOver(p) /\ UNCHANGED lock
  /\ Outside /\ UNCHANGED <<file, at, ledger, stall>>

\* lock_release removes the file, whoever's it is.
LockRelease(p) == lock' = [lock EXCEPT ![Card(p)] = NoLock]

\* A scan releases the lock by itself, and again in the finally clause.
ScanReports(p) ==
  /\ At(p, "report") /\ LockRelease(p) /\ Goto(p, "release")
  /\ Outside /\ UNCHANGED <<file, at, ledger, stall>>

Processed(p) == [proc[p] EXCEPT !.at = "release", !.processed = @ + 1]

\* An exception the loop does not catch, or SIGTERM: the finally clauses release what
\* this run holds.
Unwind(p) ==
  /\ lock' = IF proc[p].at \in Locked THEN [lock EXCEPT ![Card(p)] = NoLock] ELSE lock
  /\ IF proc[p].at \in Guarded THEN SingletonRelease(p) ELSE Vanishes(p)
  /\ proc' = [proc EXCEPT ![p] = Asleep]
  /\ UNCHANGED <<ledger, stall>>

\* Calls that may raise what the loop does not catch: an answer that breaks off or never
\* comes (only URLError is caught), a lock or a ledger line that cannot be written.
Uncaught ==
  (IF "read" \in Faults THEN {"list", "next"} ELSE {})
    \cup (IF "apply" \in Faults THEN {"comment", "patch"} ELSE {})
    \cup (IF "disk" \in Faults THEN {"lock", "append"} ELSE {})

\* The end of a run by such an exception.  A comment or a PATCH whose answer breaks off is
\* a step of Comment or Patch and then this one.
Raises(p) ==
  /\ proc[p].at \in Uncaught
  /\ At(p, "next") => proc[p].queue # {} /\ proc[p].processed < MaxTickets
  /\ Unwind(p) /\ UNCHANGED <<card, live, history, signals>>

\* process_one, branch_on_github: a branch that is not pushed yet, or whose lookup failed,
\* counts as processed.
PushPending(p) ==
  /\ At(p, "prep") /\ (card[Card(p)].pushed => "branch" \in Faults)
  /\ proc' = [proc EXCEPT ![p] = Processed(p)]
  /\ Outside /\ Files

\* Mutant of SkillSkip: comments whatever is there already.
SkillSkipAgain(p) ==
  /\ At(p, "prep") /\ card[Card(p)].pushed /\ FALSE \in Skills
  /\ card' = [card EXCEPT ![Card(p)].skips = @ + 1]
  /\ proc' = [proc EXCEPT ![p] = Processed(p)] /\ Files
  /\ UNCHANGED <<live, history, signals>>

\* skill_status, comment_skill_skip: one SKIPPED comment per card; an error of the
\* comment ends the whole run.
SkillSkip(p) ==
  /\ At(p, "prep") /\ card[Card(p)].pushed /\ FALSE \in Skills
  /\ \/ proc[p].seen.skipped /\ UNCHANGED card /\ proc' = [proc EXCEPT ![p] = Processed(p)] /\ Files
     \/ /\ ~proc[p].seen.skipped
        /\ \/ card' = [card EXCEPT ![Card(p)].skips = @ + 1]
              /\ proc' = [proc EXCEPT ![p] = Processed(p)] /\ Files
           \/ /\ "apply" \in Faults /\ Unwind(p)
              /\ card' \in {card, [card EXCEPT ![Card(p)].skips = @ + 1]}
  /\ UNCHANGED <<live, history, signals>>

Spawn(p) ==
  /\ At(p, "prep") /\ card[Card(p)].pushed /\ TRUE \in Skills
  /\ live' = [live EXCEPT ![Card(p)] = @ + 1] /\ Goto(p, "reviewing")
  /\ UNCHANGED <<card, history, signals>> /\ Files

\* Mutant of ReviewEnds: a reviewer that timed out is left running.
ReviewEndsUnkilled(p) ==
  /\ At(p, "reviewing")
  /\ lock' = IF lock[Card(p)] = NoLock THEN lock ELSE [lock EXCEPT ![Card(p)].reviewer = "ended"]
  /\ \/ /\ \E v \in {"approve", "changes", "escalate", "unparsed"} :
             proc' = [proc EXCEPT ![p].at = "comment", ![p].verdict = v]
        /\ live' = [live EXCEPT ![Card(p)] = @ - 1]
     \/ /\ "review" \in Faults /\ UNCHANGED live
        /\ proc' = [proc EXCEPT ![p] = [Processed(p) EXCEPT !.verdict = "failed"]]
  /\ UNCHANGED <<card, history, signals, file, at, ledger, stall>>

\* spawn_reviewer returns, lock_set_reviewer, parse_verdict: a reviewer that failed or
\* was killed at its timeout leaves the card for the next tick.
ReviewEnds(p) ==
  /\ At(p, "reviewing")
  /\ lock' = IF lock[Card(p)] = NoLock THEN lock ELSE [lock EXCEPT ![Card(p)].reviewer = "ended"]
  /\ live' = [live EXCEPT ![Card(p)] = @ - 1]
  /\ \/ \E v \in {"approve", "changes", "escalate", "unparsed"} :
          proc' = [proc EXCEPT ![p].at = "comment", ![p].verdict = v]
     \/ /\ "review" \in Faults
        /\ proc' = [proc EXCEPT ![p] = [Processed(p) EXCEPT !.verdict = "failed"]]
  /\ UNCHANGED <<card, history, signals, file, at, ledger, stall>>

Escalates(p) == proc[p].verdict \in {"escalate", "unparsed"}

\* "apply failed": a warning, and the card is left; for an unparsable verdict nobody
\* catches the error.
ApplyFails(p) ==
  IF proc[p].verdict = "unparsed" THEN Unwind(p)
  ELSE proc' = [proc EXCEPT ![p] = [Processed(p) EXCEPT !.warned = TRUE]] /\ Files

\* The verdict on the block the run read is carried out.
Settled(p) == [history EXCEPT !.done = @ \cup {<<Card(p), proc[p].seen.text>>}]

\* Mutant of Comment: an error of the call is taken for success.
CommentForgives(p) ==
  /\ At(p, "comment")
  /\ \/ ~Escalates(p) /\ Goto(p, "patch") /\ UNCHANGED history
     \/ Escalates(p) /\ Goto(p, "append") /\ history' = Settled(p)
     \/ "apply" \in Faults /\ Goto(p, "append") /\ UNCHANGED history
  /\ UNCHANGED <<card, live, signals>> /\ Files

\* apply_verdict, the comment: of an escalation only if ticket_get shows no verdict.  The
\* login of RestClient, before it, may fail too.
Comment(p) ==
  /\ At(p, "comment")
  /\ \/ ~Escalates(p) /\ Goto(p, "patch") /\ UNCHANGED history /\ Files
     \/ Escalates(p) /\ Goto(p, "append") /\ history' = Settled(p) /\ Files
     \/ "apply" \in Faults /\ ApplyFails(p) /\ UNCHANGED history
  /\ UNCHANGED <<card, live, signals>>

\* patch_task: the kernel takes done from any open card, ready from a blocked one.
Patched(p) ==
  [card EXCEPT ![Card(p)].status = IF proc[p].verdict = "approve" THEN "done" ELSE "open",
               ![Card(p)].patches = @ + 1]
Accepts(p) ==
  \/ card[Card(p)].status = "blocked"
  \/ card[Card(p)].status = "open" /\ proc[p].verdict = "approve"

Patch(p) ==
  /\ At(p, "patch")
  /\ \/ /\ Accepts(p) /\ card' = Patched(p) /\ Goto(p, "append") /\ Files
        /\ history' = Settled(p)
     \/ ~Accepts(p) /\ UNCHANGED <<card, history>> /\ ApplyFails(p)
     \/ /\ "apply" \in Faults /\ Accepts(p) /\ ApplyFails(p)
        /\ card' \in {card, Patched(p)} /\ UNCHANGED history
  /\ UNCHANGED <<live, signals>>

LedgerAppend(p) ==
  /\ At(p, "append")
  /\ ledger' = ledger \cup {<<Card(p), proc[p].seen.text>>}
  /\ proc' = [proc EXCEPT ![p] = Processed(p)]
  /\ Outside /\ UNCHANGED <<file, at, lock, stall>>

\* The finally clause of the loop's body.
Release(p) ==
  /\ At(p, "release") /\ LockRelease(p) /\ PassOver(p)
  /\ Outside /\ UNCHANGED <<file, at, ledger, stall>>

Least(a, b) == IF a < b THEN a ELSE b

\* Mutant of StallUpdate: an empty run without a warning leaves the count.
StallUpdateKeeps(p) ==
  IF proc[p].found THEN 0
  ELSE IF proc[p].warned THEN Least(proc[p].prev + 1, StallThreshold) ELSE proc[p].prev

\* stall_update: a run that saw nothing while calls failed is blind.  Past the threshold the
\* counter says no more.
Blind(p) == ~proc[p].found /\ proc[p].warned
StallUpdate(p) == IF Blind(p) THEN Least(proc[p].prev + 1, StallThreshold) ELSE 0
Counted(p) == [Asleep EXCEPT !.at = "stall", !.prev = StallUpdate(p), !.warned = Blind(p)]

\* The loop ends, at its bound or at the end of the queue; a scan holds no singleton.  Of
\* the run, only its count is left.
Finish(p) ==
  /\ At(p, "next") /\ (proc[p].queue = {} \/ proc[p].processed >= MaxTickets)
  /\ SingletonRelease(p)
  /\ proc' = [proc EXCEPT ![p] = Counted(p)]
  /\ Outside /\ UNCHANGED <<lock, ledger, stall>>

\* stall.json is opened after the singleton is gone, and truncated by that, which leaves it
\* reading as 0; an error of it, or of the write, is ignored.
OpenStall(p) ==
  /\ At(p, "stall") /\ (p \in Sweeps => at[p] = "off")
  /\ LET blind == proc[p].warned
         inARow == IF blind THEN Least(history.blind + 1, StallThreshold) ELSE 0 IN
     \/ /\ stall' = [count |-> 0, torn |-> blind] /\ Goto(p, "count")
        /\ history' = [history EXCEPT !.blind = inARow,
             !.lost = IF ~blind THEN "no" ELSE IF stall.torn THEN "torn" ELSE @]
     \/ /\ "stall" \in Faults /\ UNCHANGED stall /\ proc' = [proc EXCEPT ![p] = Asleep]
        /\ history' = [history EXCEPT !.blind = inARow,
             !.lost = IF proc[p].prev = stall.count THEN @ ELSE "kept"]
  /\ UNCHANGED <<card, live, signals, file, at, lock, ledger>>

WriteStall(p) ==
  /\ At(p, "count") /\ proc' = [proc EXCEPT ![p] = Asleep]
  /\ \/ stall' = [count |-> proc[p].prev, torn |-> FALSE]
     \/ "stall" \in Faults /\ UNCHANGED stall
  /\ UNCHANGED <<card, live, history, signals, file, at, lock, ledger>>

Step(p) ==
  \/ SingletonAcquire(p) \/ Initialize(p) \/ ListQueue(p) \/ ReadDetail(p) \/ LedgerHas(p)
  \/ LockAcquire(p) \/ ScanReports(p) \/ PushPending(p) \/ SkillSkip(p) \/ Spawn(p)
  \/ ReviewEnds(p) \/ Comment(p) \/ Patch(p) \/ LedgerAppend(p) \/ Release(p)
  \/ Raises(p) \/ Finish(p) \/ Releasing(p) \/ OpenStall(p) \/ WriteStall(p)

Signal(p, sig) ==
  /\ sig \in Signals /\ signals < MaxSignals /\ signals' = signals + 1
  /\ ~At(p, "off") \/ (p \in Sweeps /\ at[p] # "off")

\* kill -9: no finally clause runs, and files name a dead pid.
Kill(p) ==
  /\ Signal(p, "kill")
  /\ Vanishes(p)
  /\ lock' = [t \in Tickets |-> IF lock[t].owner = p THEN [lock[t] EXCEPT !.owner = Dead] ELSE lock[t]]
  /\ proc' = [proc EXCEPT ![p] = Asleep]
  /\ UNCHANGED <<card, live, history, ledger, stall>>

\* SIGTERM raises SystemExit: the reviewer, in a session of its own, lives on.
Terminate(p) ==
  /\ Signal(p, "term") /\ Unwind(p)
  /\ UNCHANGED <<card, live, history>>

\* Time, and the pids it gives away, while sweeper.pid names a dead owner.
PidsAndTime == Host /\ UNCHANGED <<card, live, lock, ledger, stall, proc, signals, history>>

Next == World \/ PidsAndTime \/ \E p \in Procs : Start(p) \/ Step(p) \/ Kill(p) \/ Terminate(p)

Spec == Init /\ [][Next]_vars

\* Calls that are answered, of a card's detail in a run that missed nothing so far; reviews
\* that end with a verdict.
Connects(p)   == Initialize(p) /\ proc'[p].at = "list"
Lists(p)      == ListQueue(p) /\ ~proc'[p].warned
Details(p, t) == ReadDetail(p) /\ Card(p) = t /\ ~proc[p].warned /\ proc'[p].at = "ledger"
Decides(p)    == ReviewEnds(p) /\ proc'[p].at = "comment"

\* Cron keeps starting ticks, a process takes its steps, nothing that is tried again and
\* again fails for ever, and branches get pushed; time passes.
FairSpec ==
  /\ Spec /\ WF_vars(PidsAndTime)
  /\ \A p \in Procs :
       /\ WF_vars(Start(p)) /\ WF_vars(Step(p))
       /\ "connect" \in Faults => SF_vars(Connects(p))
       /\ SF_vars(Lists(p)) /\ SF_vars(Spawn(p)) /\ SF_vars(Decides(p))
       /\ \A t \in Tickets : SF_vars(Details(p, t)) /\ WF_vars(Push(t))

----------------------------------------------------------------------------
(* What the sweeper promises. *)

\* "A ledger line is written only after a verdict is applied", whatever fails or is
\* killed: no line is of a card and a text nobody dealt with.  A later block of the card
\* with the same text is passed over on that line.
LedgerIsEarned == ledger \subseteq history.done

\* A block is moved at most once by the sweeper, though runs overlap, die between the
\* comment, the PATCH and the ledger line, or lose an answer.
MovedOnce == \A t \in Tickets : card[t].patches <= 1

\* While nobody is killed or terminated, a card has at most one reviewer: none that
\* timed out lives on, and a scan that removes a lock lets no second one in.
OneReviewer == signals = 0 => \A t \in Tickets : live[t] <= 1

\* A broken skill name is commented on a card once, not once per tick: again only after
\* what ticket_get shows of the thread has dropped the comment.
SkippedOnce == \A t \in Tickets : card[t].skips <= 1

\* Unless the count of a run was lost since the last one that was not blind, stall.json has
\* the number of blind runs in a row, so StallThreshold of them are not silent.  While runs
\* only tore the file it has no more, so there is no false alarm.
BlindnessIsCounted ==
  (\A p \in Procs : At(p, "off")) =>
    /\ history.lost = "no" /\ ~stall.torn => stall.count = history.blind
    /\ history.lost # "kept" => stall.count <= history.blind

\* A pushed card that waits for a review, and whose text is not in the ledger yet, is dealt
\* with: failed reads, lookups and reviews, broken-off answers and a killed run only delay
\* it.  A card ahead of it on which one of them fails for ever does starve it.
Waits(t, text) ==
  /\ card[t].status = "blocked" /\ card[t].text = text
  /\ card[t].pushed /\ <<t, text>> \notin ledger
EveryCardIsReviewed == \A t \in Tickets, text \in Texts : Waits(t, text) ~> ~Waits(t, text)

\* "Stale locks are taken over, and any reviewer subagent the dead owner left behind
\* is killed": a run that spawns a reviewer finds none on the card.
OrphansAreReaped == [][ \A p \in Procs, t \in Tickets : live'[t] > live[t] => live[t] = 0 ]_vars
=============================================================================
