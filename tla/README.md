# A TLA+ verification of hermes-kanban-mcp

This directory holds TLA+ models of hermes-kanban-mcp, the configurations that
check them with TLC, and proofs that TLAPS checks. Every definition is translated
from the source beside it; `PROJECT.json` lists, for each one, the lines it stands
for, and the runs, mutants, findings, hazards and theorems.

To check: `tlc -config X.cfg M` with the module and the cfg of a row of "What is
checked"; `tlapm M.tla` for a `*Proofs` module.

## The system

A Hermes installation keeps kanban boards in a kernel (SQLite, a dashboard with a
REST API, a `hermes` CLI, and a dispatcher that starts agents on cards). This
repository is what surrounds it:

| Part | Where | State | Operations |
|---|---|---|---|
| Bridge process | `cmd/kanban-mcp/main.go` | listeners | bind, serve, log the version, shut down |
| Session client | `internal/kanban/client.go` | cookie jar, `lastLoginAt`, a mutex | log in, send, refresh and retry once |
| Session at startup | `internal/kanban/session.go` | cookie jar | one login |
| Writing tools | `internal/mcptools/{review_tool,write_tools,claim_tool,rest}.go`, `internal/kanban/{review,claim}.go` | none of their own: the card, its event log and the roster are the kernel's | `ticket_claim`, `ticket_complete`, `ticket_request_review`, `ticket_block`, `ticket_create`, `ticket_comment` |
| Event long-poll | `internal/mcptools/events_tool.go` | per call: baseline, errors in a row, deadline | `ticket_events` |
| Reading tools | `internal/mcptools/{read_tools,board_list,shape}.go` | none | `ticket_get`, `ticket_list`, `board_list` |
| Review queue | `internal/mcptools/review_queue.go` | none | `review_queue` |
| Board slug cache | `internal/mcptools/readplumbing.go` | slugs, when they were read, a mutex | validate a board, refresh |
| Rate limiter | `internal/httpauth/ratelimit.go` | a bucket per address | `allow` |
| Bearer check | `internal/httpauth/bearer.go` | none | compare a token |
| Lane return | `scripts/lane_return.py` | a pid file | a cron tick |
| Review sweeper | `sweeper/review_sweeper.py` | a singleton file, a lock file per card, `ledger.jsonl`, `stall.json`, processes it spawns | a cron tick, a `--scan` run |
| Upgrade script | `deploy/upgrade.py` | the installed binary, its backup | preflight to verification |
| Configuration, help, schemas, probes | `internal/config`, `register.go`, `help_tool.go`, `probe`, `smoke`, `scripts/` | none | |

How they interact. In the bridge every request to `/mcp` passes the bearer check
and then the rate limiter, and a tool answers it with REST calls to the dashboard
and CLI processes against the kernel. No transaction spans two of those, so the
dispatcher, other clients, the lane return and the sweeper act in between. The
lane return and the sweeper are separate processes which meet the bridge only on
the board: the bridge's handoff is picked up by the dispatcher's reviewers, a
reviewer's changes-requested block is brought back by the lane return, and the
sweeper reviews blocked cards that ask for it. The serving process uses the
startup-login client; the refreshing client of `client.go` serves the probe.

What is hard: a tool decides from a row it read several requests ago; a CLI
process may be killed at its deadline after its commit; lock files are tested,
read, removed and created in separate system calls by processes that may be killed
in between; comment, PATCH and ledger line are three effects in three places;
clock readings reach the limiter out of order and its floats round; a login's cookie is
in use before its time is recorded, and stays when the login then fails; boards and cards
move while a tool reads them one request after the other; a lost answer makes a client
post again. `PROJECT.json` "hazards" lists these at their lines.

### What makes each part correct

* Review lane: a handoff lands on somebody the dispatcher can start, never on the
  one whose work it is; a rejected card comes back to the lane that did it; a live
  run is taken away only by somebody who said so; a reviewer finds the comment.
* Lane return: one tick at a time, every verdict comes back, and a tick that says
  nothing has left nothing undone and nothing unattributed.
* Session client: a request fails for good only if the server dropped a session
  meanwhile; one login for many callers; no way out of a login keeps the mutex.
* Reading tools: what an answer leaves out of a thread is the oldest, and it and a
  clipped body are told; a ticket is
  refused only when nothing more can give; a card that waits for a review is in the
  queue although boards are read in turn; a board is judged by a recent list, and
  one caller fetches it for all.
* Creating: a request makes one ticket, however often the client calls again.
* Rate limiter: burst plus accrual in any window, a Retry-After that is honest up to
  rounding, no client pays for another.
* Long-poll: no event that decodes is skipped unflagged, a status that was seen to
  change ends the wait, blips do not, and every wait ends.
* Sweeper: no text is in the ledger that was not dealt with, no block is moved twice,
  one reviewer per card, no second SKIPPED comment while the first is shown, no silence
  of blind runs whose counts reached the disk, and every pushed card is reviewed.
* Upgrade: "deployed" means that the built binary serves; the rollback line is true.

## The modules

* **BoardKernel** is the kernel as the bridge's code relies on it: one card, what
  the bridge reads off its event log, the roster, the dispatcher and its agents. It
  is external to this repository. Assumed of it: `assign` refuses running rows
  only; `reassign --reclaim` makes a running card ready; `request-review --force`
  takes any running row; the recorded implementer is the profile of the run, or
  the assignee when it is not the reviewer; a PATCH to done is taken from ready,
  running and blocked; a review run whose claim expires goes back to review.
* **ReviewLane** (extends BoardKernel) has one action per REST request or CLI
  process of the four tools. `call[c]` is a call's local variables: where it is,
  its arguments as resolved so far, its copy of the row (`seen`). `Exec` is
  `kanban.run`: the transaction commits and the process exits 0, or commits and is
  killed, or nothing happens (`Refuse`). `ticket_complete` on the review path is
  the guard, the comment and then the steps of `ticket_request_review`, as in
  `completeIntoReviewLane`.
* **SlugCache** is `boardSlugCache`: callers wait for the mutex, look, fetch while
  they hold it (the backend takes the list at one moment, the answer arrives at
  another), store, and time passes. `Long`, a lifetime and a request, bounds how
  old the list behind a verdict is.
* **TicketFit** holds the operators of `ticket_get`'s fit: the window, `render`,
  the shares, the cuts, `reducedCap`. A text is a record with its length in runes;
  what a result costs in bytes is the operator constant `ResultBytes`, so nothing
  is assumed of JSON but what a theorem states. `summary` stands for the block reason
  and the two summaries, which are cut without a flag. **ReviewQueue** holds those of the
  two listings: collect, sort, cap, trim. `Sorted` says what a sort returns (the n-th
  row has n - 1 before it), not how it gets there.
* **BridgeTools** extends the three: one action per request of `ticket_get` (and
  per pass of its fitting loop), `ticket_list`, `review_queue`, `ticket_create` and
  `ticket_comment`. `call`, `fit`, `queue` and `post` are a call's locals. A post
  is on the `wire` until the kernel takes it, which may be after its caller gave up
  and called again. `Workloads` says which tools each caller uses and what moves
  meanwhile, so that a run is not the product of things that do not interact.
* **LaneLock** is class `Lock` of `lane_return.py`, a system call a step, with
  `kill -9`. **LaneReturn** (extends LaneLock) is the tick under that lock: one
  snapshot per board (`todo`: the entries left, each with its place on the board),
  then promote, verify, comment per card, the cap, dry runs,
  failures counted and exceptions that end the pass; people, lanes and reviewers
  move the cards at any step.
* **SessionService** is what the client promises: a request is answered, fails, or
  fails for good if a session was dropped meanwhile. **SessionClient** is `do`,
  `ensureSession` and `loginLocked` with the clock, the jar and the mutex; it
  implements SessionService (`phase` is the call's result). A login fails before its
  cookies (`LoginLost` leaves the jar alone) or after them, when its body is lost: the jar
  then holds a session of which `lastLoginAt` knows nothing. `recorded` is the session
  whose login `lastLoginAt` does tell.
* **RateLimiter** is `allow`, `refill` and `writeRateLimitExceeded`. A request
  reads the clock in `Arrive` and takes the mutex in `Grant` or `Refuse`, so
  readings arrive in any order. A tick of the clock accrues `Rate` units, a token costs
  `Cost`, and every accrual and every offer may be off by up to `Slip`, which is what the
  float arithmetic does. `rounded` counts the accruals of refused requests since an offer.
  `OpenWindow` is an observer: it opens a measuring window at any moment.
* **EventsPoll** is `TicketEvents`, for a caller that follows its cursor from call
  to call. Events whose JSON does not decode (`garbled`) are passed over, a degraded
  fetch may leave out the status and events that are there, and the rendered events are
  halved as often as it takes. Time is counted in poll intervals.
* **SweeperLock** is the sweeper's singleton, a system call a step, with the TTL and
  with pids that are given to other processes. **Sweeper** (extends SweeperLock) is
  a whole run of `review_sweeper.py` under it, tick or `--scan`: initialize, queue,
  detail, ledger, lock, branch, skill, reviewer, comment, PATCH, ledger line,
  release, `stall.json`. The finally clauses are `Unwind`, `Release` and `Finish`;
  `Raises` is an exception that the loop does not catch (an answer that breaks off or
  never comes, a lock or ledger file that cannot be written). `stall.json` is opened, and
  truncated by that, in `OpenStall` and written in `WriteStall`; either may fail.
  `ThreadGrows` is the thread growing past the 50 comments and 32 KB that `ticket_get`
  shows, which hides the sweeper's own comments. A lookup of a branch may fail
  (`PushPending`). Taking the lock file of a card is one step. Verdict comments are not
  kept: they decide of nothing but whether an escalation posts another. Of the kernel it
  assumes that a PATCH to ready is taken from blocked only and to done from any open card. A dry run
  behaves like a run that stops at `PushPending`; the schedule guards end a run
  before it has done anything; `--board` is a run whose queue is `ticket_list` of the
  boards it names, with the same loop behind it, and is left out.
* **Upgrade** is `main` of `upgrade.py` over a working tree that may change, a
  service that systemd restarts (it serves before it logs its version, as
  `main.go` does), and the journal.
* **MC\*** modules hold symmetry sets and constant values for TLC. **\*Proofs**
  modules hold theorems.

History variables (`promised`, `commented`, `actionable`, `promoted`, `given`,
`warned`, `streak`, `news`, `from`, `spent`, `total`, `promise`, `rounded`, `recorded`,
`dropped`, `history`, `stall.torn`, `before`, `since`, the queue's `steady`) are written and never read by the actions.

## What is checked

| Run | Instance | Distinct states |
|---|---|---|
| ReviewLane_one | 1 client, 3 calls, 2 handoffs, profiles {default, critic}, labels {lane, other}, both knobs set (worker knob `lane`) | 158,000 |
| ReviewLane_two | 2 clients, 2 calls, 2 names, no knobs, changing roster | 441,000 |
| ReviewLane_force | 2 clients, 2 calls, both knobs (a violation) | |
| LaneReturn_live | 2 ticks, a card and a gated one behind it, 2 blocks, 1 fault, cap 1 | 269,000 |
| SessionClient_live | 2 goroutines, 3 sessions, 2 drops, logins that fail before or after their cookies | 115,000 |
| RateLimiter_window | 2 requests, 2 clients, burst 1 token of 4 units, 2 units a tick, roundings of 1, 2 ticks a second, 3 ticks | 1,545,000 |
| EventsPoll_tail | 2 statuses, 4 events of which any may not decode, 2 moves, timeout 5, cap 3, 3 errors | 436,000 |
| Sweeper_crash | 2 ticks and a scan, 1 card, 2 blocks of one text, 1 kill or SIGTERM; connect, apply, branch, review, disk and stall faults | 1,911,000 |
| Sweeper_live | 1 tick process, 2 cards, 1 card per run, threshold 2, 1 kill; failing reads, lookups and reviews | 271,000 |
| Sweeper_orphan | 2 ticks, 1 card, kills (a violation) | |
| Upgrade_run | 2 upgrades, 2 commits, with and without an earlier binary, crashes, edits, failures at every step | 19,000 |
| BridgeTools_calls | 2 callers, 6 workloads: 156 tickets in 2 modes, boards that come and go, cards that move, every placing of 5 cards, 3 requests or 2 remarks posted twice | 242,000 |

What they show:

* **ReviewLane_one**. `HandoffLandsSpawnable`, `PromisedLaneIsNotSpawned`,
  `NoSelfReview`, `ForceIsAsserted`, `CommentPrecedesTransition`, and the liveness
  `PromisedReviewHappens`. Three calls are enough for claim, hand off, re-claim
  after the verdict, hand off again; both `ticket_request_review` and `ticket_complete`,
  whose label is the worker knob, hand off. The first two need a fixed roster: the code
  reads it before it acts, so a roster that changes in between defeats any check.
  `NoSelfReview` and `ForceIsAsserted` are about calls that do not overlap, here those
  of one client: a second client that forces a handoff of the reviewer's own run makes
  the reviewer the recorded implementer, and one that claims the card between the stamp
  and the re-read is forced off it (`ReviewLane_force`).
* **ReviewLane_two**. `ChangesReturnToLane`: of a handoff that was reported as a
  success, whatever the other client and the roster do. Two calls, one of each
  client, are what it takes to interleave at every pair of requests.
* **LaneReturn_live**. `SingleInstance` of the lock, `EveryVerdictReturns`,
  `QuietMeansAudited`, `QuietMeansReturned`. `Spaced = TRUE`: no tick starts while
  another is still acquiring, which the cron's interval ensures and without which
  the lock is not exclusive (see below). The gated card comes second: as many gated
  cards in front as `MaxActions` starve the rest. A killed owner's file is taken
  over: otherwise `EveryVerdictReturns` would fail.
* **SessionClient_live**. `ImplementsService` (refinement), `LoginIsNeeded`,
  `EveryRequestReturns`. Two drops and three
  sessions let both the first attempt and the retry of a request be refused, and a login
  fail after its cookies. `LoginIsNeeded` excepts the login after such a one: the jar's
  session is good, and the client does not know it.
* **RateLimiter_window**. `RateIsBounded`, `RetryIsHonoured`, `BurstIsOwn`. A burst
  is used up, a fraction of a token accrues, a late reading arrives, an accrual is rounded
  down. `RetryIsHonoured` allows what rounding takes: a client that polls while it waits
  may be refused at the promised time, by one rounding for each poll (see below). The
  theorems say the same for every value of the constants.
* **EventsPoll_tail**. `CursorIsHonest`, `NewsEndsTheWait`, `BlipsAreTolerated`,
  `EveryWaitEnds`. Four events exceed the cap of three, which is halved twice; five
  intervals hold three failures with an answer between them. `CursorIsHonest` is about
  events that decode: of the others the caller is told nothing (see below).
* **Sweeper_crash**. `SingleInstance`, `LedgerIsEarned`, `MovedOnce`, `SkippedOnce`,
  and `OneReviewer` while nothing was killed (a kill leaves an orphan, see below).
  The two ticks meet at the singleton at every pair of system calls, `Spaced`; the
  scan takes no singleton and meets them at the card's lock. Two blocks of one text
  are what it takes for an old ledger line to meet a new block: the line stands for the
  card and its text, and the second block is passed over (see below). `SkippedOnce`
  speaks of what `ticket_get` shows: the comment is posted again only after it was
  hidden.
* **Sweeper_live**. `TypeOK`, `BlindnessIsCounted` and `EveryCardIsReviewed`. One
  card per run and two cards: the second has to wait for its turn behind a card whose
  reviews or lookups fail for a while. The killed run's
  singleton is taken over, by its dead pid or, when that was recycled, by its age. A kill
  between the opening of `stall.json` and the write tears the count, which
  `BlindnessIsCounted` states as it is: exact while no count was lost, never too high
  while counts were only torn. With overlapping ticks it may lose one more. A card whose
  text is in the ledger waits for nothing.
* **Upgrade_run**. `DeployedIsServed`, `DeployedIsMeant`, `RollbackIsHonest`, the
  last one but for a first install that tears the file (see below).
* **BridgeTools_calls**. `SlugsAreRecent`, `RefreshIsShared`, `NewestSurvives`,
  `NoLossIsSilent`, `OversizeIsReal`, `QueueIsHonest`, `RetryCreatesOnce`,
  `EveryCallEnds`. TTL 2 ticks and a request 1: a list is taken, a board changes,
  the answer arrives, the cached set ages and expires. The byte budgets are 30 and
  60 with a floor of 2 runes and a headroom of 2; the tickets (four bodies and
  thirteen threads of narrow and wide runes, three weights of the rest) fit, lose comments,
  are shrunk for several passes on either side, and are refused. The queue holds up
  to 4 of 5 cards against a cap of 3 and 14 bytes, with a row that alone is too
  long. The second workload of posts reads a thread while it grows.

Deadlock is not checked: every one of these systems may rest (no more calls, cards,
ticks or upgrades), in the bounded models and in the program.

Bounds are named in the modules: `MaxHandoffs`, `MaxCalls`, `MaxFaults`,
`MaxBlocks`, `MaxSessions`, `MaxDrops`, `MaxClock`, `MaxEvents`, `MaxMoves`,
`MaxSignals`, `MaxRuns`, `MaxPosts`. They stop the environment or new requests and
never a step of the code; the two exceptions are `MaxHandoffs`, at which the
kernel refuses a further handoff, and `MaxSessions`, at which a login fails, and
both are answers the code must cope with anyway. Counters of time saturate where
nothing depends on them any more (`TTL`, `Long`). `MaxFetch` is no bound but the
timeout of a request, and `MaxActions`, `MaxTickets`, `MaxReturned`,
`MaxPollErrors`, `MaxQueueItems`, `ListLimit`, `MaxRowBytes`, `StallThreshold` are
the program's own limits, scaled down.

Type correctness is proved rather than checked, but for `TypeOK` of Sweeper, which is
both. The bridge tools' types are part of the invariants that their theorems rest on.

### Fairness

* ReviewLane: a started call goes on (every request and process has a deadline)
  and the dispatcher ticks. Nothing is owed by clients, agents or the operator.
* LaneReturn: cron starts ticks, a started process takes its steps, and not every
  tick is a dry run (strong fairness of a wet `ListBoards`; dry runs are a
  person's). A killed process owes nothing.
* SessionClient: an exchange ends, with an answer or a loss, by the transport's timeout;
  Go's mutex does not starve a waiter (strong fairness of `EnsureSession`). Logins may
  fail for ever: a failed login ends its request.
* EventsPoll: time passes, and a fetch ends by its deadline.
* Sweeper: cron starts ticks and processes run; time passes while a dead owner's file
  is there; a worker pushes its branch in the end; and nothing that is tried again and
  again fails for ever (strong fairness of an answered listing, of the detail of each
  card in a run that missed nothing so far, of a lookup that finds the branch and of a
  review that ends with a verdict; of a connection where it may fail). These are
  conditions on the sweeper's surroundings, not on its code. Those on branches, lookups
  and reviews are needed: where one of them fails for ever at the head of the queue it
  fills every run's bound, and the cards behind it starve (see below).
* BridgeTools: a handler goes on and every request is answered or times out (weak
  fairness); a Go mutex hands over to a goroutine that has waited too long, so each
  waiter gets it (strong fairness of `Acquire`). Clients owe nothing.

## What is proved

For every value of the constants (any number of clients, names, goroutines,
addresses, processes; any rate and burst):

* **ReviewLaneProofs**: `TypeCorrect`, `CommentFirst`, `HandoffIsSpawnable`,
  `VerdictReturnsToLane`, `LaneIsNotSpawned`, `NobodyReviewsThemselves`,
  `RunsAreTakenByForce`. `TypeInv` adds to `TypeOK` that the
  label step has a reviewer. `NamesChecked` says that a call past the roster check
  carries an installed reviewer, and past the label check a label that is not:
  inductive as long as the roster is fixed, and it gives the spawnable handoff.
  `EvidenceAgrees` says that what a call read off the event log (`recorded` at
  handoff number `handoff`) still describes the log while no newer handoff was
  made; a success is reported only if that is the label, so the newest handoff, if
  reported, records the lane, whatever others did to the row: that is why the
  verdict returns. `RunInv` ties a review run to a running, installed row.
  The last two theorems assume a fixed roster and `OneCallAtATime`: any number of
  clients, any interleaving with the kernel, its agents and the people, but no two
  calls under way at once, since with two of them the code does neither (see the
  violation run). `TurnsInv` carries them: of an open review, a row that the dispatcher
  may start is not its implementer's; the label that a call read or stamped is still
  on the row when the CLI takes the handoff (`StillThere`; only an agent whose name is
  installed changes it, and then not under the call's feet); and a call that saw a
  running row was told to take it (`Asserted`), although the row it decides from was
  read again after the stamp.
* **LaneReturnProofs** `QuietTicksAreAudited`, `QuietTicksReturnedAll`, `TypeCorrect`:
  what a tick that exits 0 has done, for any number of ticks, boards, cards and faults,
  and without `Spaced` (it holds of two ticks at work at once, too). `Audited` says that
  every promotion of a pass is commented, or about to be, or a failure was counted;
  `Returning` that every verdict of its snapshots has left its block, or is still to
  come in the walk, or a failure, a dry run or the cap accounts for it. A block has a
  number that no later block gets (`Sane`), so a card that left one is never back in it.
* **LaneReturnProofs** `TickTakesTheLock`, `SpacedIsExclusive`, and **SweeperProofs**
  `SweeperTakesTheLock`, `SpacedSweepsExclude`: every step of a tick, with all it
  does to cards and files, is a step of the lock's protocol or leaves its file
  alone; and the protocol is exclusive under `Spaced`. Exclusion alone is not
  inductive; `LockInv` adds that one process at a time is acquiring, that a holder's
  pid is in the file it made, and that nobody who is about to remove the file
  coexists with a holder.
* **SweeperProofs** goes on to what the runs do. `Sane` has the types and that a run
  with a card in hand has a queue. `HoldersWork` says that a sweep which is past its
  start, and has not come to its count, holds the singleton; with `LockInv` it follows that two sweeps are never at
  work at once (`AloneAtWork`), which needs `Spaced`, and `ScansOnlyReport` keeps the
  scans out. `RunsStepByStep` reduces the twenty actions of a run to what one step
  may do: where it goes with its queue (`Follows`), one SKIPPED comment or one PATCH on
  the card in hand (`TouchesCards`), one reviewer more or less, a ledger line. On that rest
  `LedgerLinesAreEarned` (`LedgerInv`: at the append a verdict on the card and the text
  was carried out; this one needs neither the singleton nor `Spaced`), `SpacedSweepsMoveOnce` and
  `SpacedSweepsSkipOnce` (`CardsInv`: a blocked card was not moved since it blocked,
  the cards left to a sweep were not moved since it listed them, and a card whose SKIPPED
  comment it did not see shows none), `SpacedSweepsReviewOnce` (`ReviewersInv`: until the
  host interferes there are as many reviewers as runs that wait for one).
  `BlindRunsAreCounted` assumes `Apart`, runs that do not overlap (two that do read the
  counter before either writes it); the run under way then carries the count of those
  before it through every exit, while the file it has opened reads as 0, and counts that a
  kill or a failed write lost are told apart by what the loss can do to the number
  (`BlindInv`). `TypeCorrect` has `Bounded` for its
  invariant: a card is taken in hand only below the bound of a run, and a reviewer ends
  only if it is among the live ones.
* **SessionClientProofs** `ClientImplementsService`: initial states map to initial
  states and steps to steps or stutters. The invariant's heart is `RefreshInv`: a
  login recorded after a request read its clock has replaced the session that
  request used, so the jar is good or the server dropped a session meanwhile; and
  `RecordingInv` carries this over the gap between the arrival of the cookie and
  the recording of its time. A login that fails after its cookies only makes the jar
  newer. From the same invariant, with `recorded`, follow `LoginOnlyWhenNeeded` and
  `TypeCorrect`, with who holds the mutex.
* **RateLimiterProofs** `RateBound`, `RetryAfterIsHonest`, `BurstIsItsOwn`,
  `TypeCorrect`. The
  potential is units in the bucket plus units spent, at most the burst plus what
  accrued up to the bucket's refill clock, rounded at most once a tick, never up to the
  wall clock: that is what late readings cannot break. For `RetryAfterIsHonest` what a
  bucket lacks of the promise is bounded by `Slip` for the offer and for each accrual
  since. `TypeCorrect` includes that nobody holds a reading of a time that has not come.
* **EventsPollProofs** `CursorIsAlwaysHonest`, `NewsAlwaysEndsTheWait`,
  `BlipsAreAlwaysTolerated`, `TypeCorrect`. The first two speak of the step that
  answers: what the cap and the halvings keep is the newest, and what they drop is
  flagged, for every set of events that decode (`MaxIsGreatest` and its like are the
  lemmas); a wait that was shown a new status does not time out. The third counts the
  failures in a row beside the code's own counter.
* **UpgradeProofs** `DeployedIsAlwaysServed`, `DeployedIsAlwaysMeant`,
  `RollbackIsAlwaysHonest`, `TypeCorrect`. `Staged` says, place by place in the
  script, which of the built, the installed and the saved binary agree; `Meant` that
  what was built is what the preflight accepted.
* **BridgeToolsProofs** `ToolsKeepTheCache` (the tools' steps are the cache's),
  `RefreshIsAlwaysShared`, `SlugsAreAlwaysRecent` with `CacheInv`: whoever fetches
  holds the mutex over a set that is not fresh, and a board that the cached set, or an
  answer on its way, has wrong has changed within the set's age and a request.
  `NewestAlwaysSurvives`, `LossIsNeverSilent`, `OversizeIsAlwaysReal` with `ToolsInv`:
  the fit is `Good` in every pass, the flag of the comments tells of every clipped comment
  that is still live and of every dropped one, that of the body of a clipped body, and the
  heavier field really gets a cut (`HeavierIsCut`,
  `ReducedCapReduces`), so the loop gives up only at its floor. These three assume
  `CostsAreNumbers`: what a result costs, and what is gained by leaving out the body
  or the newest comment, are numbers. The instance satisfies it.
  `RetriesCreateOnce` with `RetryInv`: a key says what is asked for, and no two
  tickets have a key in common.
  `QueueIsAlwaysHonest` with `QueueInv`: while the boards are read in turn, a card that
  has waited since the call began is found, or waits on a board that is still to be read
  (`StillSeen`). That the answer is then right is a fact about the operators:
  `QueuedBefore` is a strict total order (`QueueOrders`), so the numbers of cards before
  each are all of 0 to n - 1 (`RanksCount`, by a pigeonhole), the sorted rows are a
  bijection in order (`SortedIs`), and what a cap or a trim leaves is a prefix of them
  (`TakeIsPrefix`, `TrimmedIsPrefix`), so what is left out comes after.

Assumptions: the named `ASSUME` of each module, on constants only, and `Spaced`,
`RosterMayChange = FALSE`, `OneCallAtATime`, `Apart`, `CostsAreNumbers` where a
theorem's statement says so. `Spaced`, `OneCallAtATime` and `Apart` speak of how the
environment starts things, never of what the code then does.

Only model-checked: liveness (`PromisedReviewHappens`, `EveryVerdictReturns`,
`EveryRequestReturns`, `EveryWaitEnds`, `EveryCardIsReviewed`, `EveryCallEnds`), since
TLAPS has no ENABLED and no fairness. Every invariant, every action property and the
refinement that a passing run checks is stated by a theorem.
What a recursive definition computes is never needed: of `Trimmed`'s recursion it is
only shown that it exists and stays within the rows (`TrimmedIsPrefix`, by a least
counterexample), not where it stops.

## Disagreements between the code and what is said of it

Two have runs that exhibit them:

* `ReviewLane_force`: `review_tool.go:512` derives `--force` from the row re-read
  after the stamp, so a request made without force on a ready card ends the live
  run of a client that claimed it in between.
* `Sweeper_orphan`: `review_sweeper.py:1499` records the reviewer's pid only after
  the reviewer has ended, so the lock of a killed run names nobody to kill.

The following were found while modelling, by variants of the same models; no run
is kept for them, and no passing property states the contrary.

* `review_tool.go:536`: "Nothing was dispatched" is also the answer when the
  dispatcher has already started the reviewer of this very handoff.
* `review_tool.go:500`: the stamp of one client may land on the review row of
  another, which then sits under a lane label that nobody starts.
* `write_tools.go:472`: a completion that fails after the stamp has left the card
  reclaimed and relabelled; the comment there says it is in its previous state.
* `write_tools.go:365`: the claim guard's status may be old when the PATCH arrives.
* `lane_return.py:271` and `review_sweeper.py:418`: a lock file read between its
  creation and its write looks stale, is removed, and two processes hold the lock.
  A stale pid that was given to another process locks the lane return out for good
  (`lane_return.py:298`; it has no TTL).
* `lane_return.py:392`: promote goes by card id; a card blocked anew for a person
  since the snapshot is promoted too. `lane_return.py:350`: refused promotions
  count against the cap, so as many gated cards as the cap starve the others.
* `client.go:230`: `http.Client.Do` has stored a login's cookies before the body is read
  (234). When the read fails the login is an error, the jar holds a good session and
  `lastLoginAt` is unset, so the next request logs in although nothing expired.
* `ratelimit.go:132` and `143`: accruals and offers are floats. A client of one token a
  second that is told to wait a second and asks every tenth of it finds
  0.9999999999999999 tokens at the promised time and is refused once more.
* `events_tool.go:259`: an event that does not decode is skipped without the truncated
  flag, though 242-245 promise a signal "instead of silently breaking the cursor
  contract"; the next event moves the cursor past it.
* `read_tools.go:268`, `270`, `282`: the block reason and the two summaries are cut with
  no flag, while 411 says "No loss is silent", and `help_tool.go:158` and the schemas
  (`register.go:62`, `132`) say that truncation is always reported.
* `client.go:181`: a request sent between the arrival of a login's cookie and the
  recording of its time is retried on the session that was just refused.
* `read_tools.go:551`: "oversized" is answered when the heavier of body and newest
  comment is at its floor; the lighter one need not be, though the message (314) says
  that both are, and the comment at 576 that the other field is given the share.
* `review_queue.go:68`: "the cap keeps the highest-priority items"; the sort goes by
  board first, so it keeps the items of the first boards.
* `read_tools.go:254`: the branch for a missing ticket tests for `APIError`, and
  `doJSON` returns a `RestError`, so it is never taken.
* `readplumbing.go:56`: "It refreshes on expiry or on a cache miss"; a board missing
  from a fresh set is refused without a fetch.
* `write_tools.go:134`: a synthesized key covers 200 runes of the body, so two
  requests that differ after them make one ticket. `ticket_comment` has no key: a
  comment that is posted again appears twice.
* `events_tool.go:138`: the deadline starts before the first fetch (the comment at
  109-110 says after), so a slow first fetch shortens the wait.
* `review_sweeper.py:1420`: a scan releases its lock twice, the second time maybe
  another run's. `1175`: a verdict is applied to whatever the card is by then.
  `1185`: a later escalation is not commented when any verdict comment is there.
  `1466`: cards whose branch is never pushed fill every run's bound; so do cards at the
  head whose reviewers fail every time (`1503` counts them as processed, `1376` ends
  the run). `826`: a lookup that GitHub refuses or that times out is "not pushed", too,
  and counts.
* `review_sweeper.py:454`: "a re-blocked ticket ... gets re-reviewed"; blocked anew with
  the same text it has the same fingerprint, and is passed over on its old ledger line.
* `review_sweeper.py:951`: the SKIPPED comment (and 1185 the verdict) is looked for in what
  `ticket_get` shows, 50 comments and 32 KB; once it dropped out it is posted again.
* `review_sweeper.py:1433`: `open(..., "w")` truncates `stall.json` before the write, a
  failure of either is ignored, and a torn file reads as 0 (1329): a kill in between
  restarts the count of blind runs. A file that cannot be opened keeps an old count.
* `review_sweeper.py:270` and `383`: only `URLError` is caught; a timeout of the read or an
  answer that breaks off ends the run with a traceback instead of a warning, and before
  the `try` of `main` leaves the singleton behind until it is stale.
* `upgrade.py:396`: a version line of the old process in the journal window makes
  a good deploy "different". `493`: the tree may change between preflight and
  build. `495`: a first install that fails half-way is called untouched.

## Not modelled

Bearer check, configuration, schemas, help, `board_list`'s own answer, the projection
of single fields (diagnostics, fingerprints, counts), prompts, probes and statistics:
stateless, or texts. The sweeper's `--board` mode is a run over the listings of the boards it names. Requests that a handler refuses before it sends
anything leave no trace. The startup login has no behaviour after its one login
(sessions expire after an hour, re-login is announced as future work). The bridge's
graceful shutdown ends requests that are modelled as failed ones. Memory (a bucket per
address for ever) and durations (goroutines that log in one after the other while the
login hangs) are outside these models. The lane return's pid is not reused while its
file names it (`lane_return.py:298`): with reuse it is locked out for good, as said
above.

## How it is laid out, and what could follow

The kernel and the review lane came first, as the heart of the system; then the session
client, the lane return, the limiter, the long-poll, the sweeper and the upgrade; then
the sweeper over its singleton's system calls, the slug cache, the fit and the
listings, and the tools on top of them. An abstract specification is refined where
there is one to state: SessionService by SessionClient, LaneLock by LaneReturn,
SweeperLock by Sweeper, SlugCache by BridgeTools.

What could follow: the card's lock file of the sweeper by its system calls; a
composition of the lane return and the sweeper with the kernel of the review lane, which
today meet only in what each assumes of the other; and, as theorems, the steps that the
liveness arguments rest on (what a step brings closer), whose fairness part stays with
TLC.
