---------------------------- MODULE BoardKernel ----------------------------
(***************************************************************************)
(* The Hermes kanban kernel as the bridge uses it: one ticket row, the two *)
(* facts the bridge reads off its event log, the roster of installed       *)
(* profiles, and the dispatcher.  The kernel is not part of this           *)
(* repository; every rule below is the one the bridge's code and comments  *)
(* rely on (internal/kanban/review.go, internal/mcptools/review_tool.go,   *)
(* scripts/lane_return.py), and each is one kernel transaction.            *)
(***************************************************************************)
EXTENDS Naturals

CONSTANTS
  Names,          \* values an assignee can hold: profiles and lane labels
  NoOne,          \* the absent assignee, reviewer or implementer
  InitialRoster,  \* the profiles installed at the start
  RosterMayChange,\* whether the operator installs and removes profiles
  MaxHandoffs     \* bound: review_requested events the log may hold

ASSUME KernelAssumption ==
  /\ NoOne \notin Names
  /\ InitialRoster \subseteq Names
  /\ RosterMayChange \in BOOLEAN
  /\ MaxHandoffs \in Nat

VARIABLES
  card,    \* the ticket row: status, assignee, kind of live run, blocked phase
  log,     \* the newest review_requested and changes_requested events
  roster   \* GET /profiles: the profiles on disk

kernelVars == <<card, log, roster>>

NameOrNone == Names \cup {NoOne}

\* run: "lane" is a claim taken through the CLI (no run profile), "worker" and
\* "review" are runs the dispatcher started as the row's assignee.
\* blockedIn: the source_status of the block ("ready" off the blocked lane).
Card == [status    : {"ready", "running", "review", "blocked", "done"},
         assignee  : NameOrNone,
         run       : {"none", "lane", "worker", "review"},
         blockedIn : {"ready", "review"}]

\* handoffs counts the review_requested events, implementer is what the newest
\* one records; priorReviewer is the reviewer on the newest changes_requested.
Log == [handoffs : Nat, implementer : NameOrNone, priorReviewer : NameOrNone]

KernelTypeOK ==
  /\ card \in Card
  /\ log \in Log
  /\ roster \in SUBSET Names

KernelInit ==
  /\ card \in [status : {"ready"}, assignee : NameOrNone,
               run : {"none"}, blockedIn : {"ready"}]
  /\ log = [handoffs |-> 0, implementer |-> NoOne, priorReviewer |-> NoOne]
  /\ roster = InitialRoster

----------------------------------------------------------------------------
(* Transactions a client asks for: when the kernel accepts, and the row after. *)

CanClaim(k) == k.status = "ready"
Claimed(k)  == [k EXCEPT !.status = "running", !.run = "lane"]

\* assign_task refuses one thing only: a running, claimed row.
CanAssign(k)     == k.status # "running"
Assigned(k, n)   == [k EXCEPT !.assignee = n]
Reclaimed(k)     == IF k.status = "running"
                    THEN [k EXCEPT !.status = "ready", !.run = "none"] ELSE k

\* request_review takes a ready row, and a running one only under --force.
CanRequestReview(k, force) == k.status = "ready" \/ (k.status = "running" /\ force)
InReview(k, reviewer) ==
  [k EXCEPT !.status = "review", !.assignee = reviewer, !.run = "none"]

\* The implementer: the run's profile (the row's assignee when the dispatcher
\* spawned it), else the assignee when it is not the reviewer.
Implementer(k, reviewer) ==
  IF k.run \in {"worker", "review"} \/ k.assignee # reviewer THEN k.assignee ELSE NoOne

Requested(k, reviewer) ==
  [log EXCEPT !.handoffs = @ + 1, !.implementer = Implementer(k, reviewer)]

CanBlock(k) == k.status \in {"ready", "running"}
Blocked(k)  == [k EXCEPT !.status = "blocked", !.run = "none",
                         !.blockedIn = IF k.run = "review" THEN "review" ELSE "ready"]

CanComplete(k) == k.status \in {"ready", "running", "blocked"}
Completed(k)   == [k EXCEPT !.status = "done", !.run = "none", !.blockedIn = "ready"]

----------------------------------------------------------------------------
(* The dispatcher, the agents it spawns, and the operator. *)

\* A ready card assigned to an installed profile is claimed for a worker.
SpawnWorker ==
  /\ card.status = "ready" /\ card.assignee \in roster
  /\ card' = [card EXCEPT !.status = "running", !.run = "worker"]
  /\ UNCHANGED <<log, roster>>

\* A review row assigned to an installed profile is claimed as a REVIEW run;
\* any other review row is skipped every tick.
SpawnReviewer ==
  /\ card.status = "review" /\ card.assignee \in roster
  /\ card' = [card EXCEPT !.status = "running", !.run = "review"]
  /\ UNCHANGED <<log, roster>>

\* A claim runs out: work goes back to ready, a review back to its lane.
ClaimExpires ==
  /\ card.status = "running"
  /\ card' = [card EXCEPT !.status = IF card.run = "review" THEN "review" ELSE "ready",
                          !.run = "none"]
  /\ UNCHANGED <<log, roster>>

WorkerFinishes ==
  /\ card.run = "worker"
  /\ card' \in {Completed(card), Blocked(card)}
  /\ UNCHANGED <<log, roster>>

Approve ==
  /\ card.run = "review"
  /\ card' = Completed(card)
  /\ UNCHANGED <<log, roster>>

\* request_changes refuses a handoff that recorded no implementer.
RequestChanges ==
  /\ card.run = "review" /\ log.implementer # NoOne
  /\ card' = [card EXCEPT !.status = "ready", !.run = "none", !.assignee = log.implementer]
  /\ log' = [log EXCEPT !.priorReviewer = card.assignee]
  /\ UNCHANGED roster

ReviewerBlocks ==
  /\ card.run = "review"
  /\ card' = Blocked(card)
  /\ UNCHANGED <<log, roster>>

\* promote (what lane_return runs on a reviewer's block) forces ready; unblock
\* restores the phase the card was blocked in.
Promote ==
  /\ card.status = "blocked"
  /\ card' = [card EXCEPT !.status = "ready", !.blockedIn = "ready"]
  /\ UNCHANGED <<log, roster>>

Unblock ==
  /\ card.status = "blocked"
  /\ card' = [card EXCEPT !.status = card.blockedIn, !.blockedIn = "ready"]
  /\ UNCHANGED <<log, roster>>

RosterChanges ==
  /\ RosterMayChange
  /\ \E n \in Names : roster' \in {roster \cup {n}, roster \ {n}}
  /\ UNCHANGED <<card, log>>

KernelStep ==
  \/ SpawnWorker \/ SpawnReviewer \/ ClaimExpires \/ WorkerFinishes
  \/ Approve \/ RequestChanges \/ ReviewerBlocks \/ Promote \/ Unblock
  \/ RosterChanges
============================================================================
