----------------------------- MODULE ReviewLane -----------------------------
(***************************************************************************)
(* The MCP bridge's ticket tools that drive a card through its life:       *)
(* ticket_claim, ticket_complete, ticket_request_review and ticket_block   *)
(* (internal/mcptools), over the kernel of BoardKernel.  A tool call is a  *)
(* sequence of REST reads, REST writes and CLI processes; each is one      *)
(* step, so the kernel, the dispatcher and the other clients act between   *)
(* any two of them and a call decides from the copy it read.               *)
(***************************************************************************)
EXTENDS BoardKernel

CONSTANTS
  Clients,        \* MCP clients, one call at a time each
  ReviewerKnob,   \* MCP_REVIEWER_PROFILE, NoOne when unset
  WorkerKnob,     \* MCP_CLAIM_WORKER, NoOne when unset
  AllowSkipClaim, \* MCP_ALLOW_SKIP_CLAIM
  MaxCalls        \* bound: tool calls started

ASSUME LaneAssumption ==
  /\ ReviewerKnob \in NameOrNone
  /\ WorkerKnob \in NameOrNone
  /\ AllowSkipClaim \in BOOLEAN
  /\ MaxCalls \in Nat

VARIABLES
  call,     \* per client: where its call is, its arguments, what it has read
  started,  \* calls started so far
  promised  \* history: the handoffs reported as successes, with both names returned

vars == <<card, log, roster, call, started, promised>>

Tools == {"none", "claim", "complete", "review", "block"}
Steps == {"idle", "claimRead", "claim", "claimReread", "guard", "comment", "patch",
          "preflight", "reviewer", "roster", "label", "stamp", "restamp", "handoff",
          "verify", "landed", "blockTyped", "blockRest"}
Results == {"none", "ok", "error", "nothing_dispatched"}

\* seen is the caller's copy of the ticket row; recorded and handoff are what it
\* read off the event log at the end.  commented is history: the call's comment is
\* on the card.
CallType ==
  [at : Steps, tool : Tools, force : BOOLEAN, done : BOOLEAN,
   reviewer : NameOrNone, label : NameOrNone,
   seen : [status : {"ready", "running", "review", "blocked", "done"}, assignee : NameOrNone],
   recorded : NameOrNone, handoff : Nat,
   commented : BOOLEAN, result : Results]

NoCall ==
  [at |-> "idle", tool |-> "none", force |-> FALSE, done |-> FALSE,
   reviewer |-> NoOne, label |-> NoOne,
   seen |-> [status |-> "ready", assignee |-> NoOne],
   recorded |-> NoOne, handoff |-> 0,
   commented |-> FALSE, result |-> "none"]

\* Past these steps the reviewer and the label have been resolved.
Resolved == {"stamp", "restamp", "handoff", "verify", "landed"}

\* The state is well typed, and a call that has reached the stamp carries a
\* reviewer and a label: resolveReviewer and resolveImplementerLabel refuse
\* before anything is written when a source is empty.
TypeOK ==
  /\ KernelTypeOK
  /\ call \in [Clients -> CallType]
  /\ started \in Nat
  /\ promised \subseteq [handoff : Nat, label : Names, reviewer : NameOrNone]
  /\ \A c \in Clients : call[c].at \in Resolved => {call[c].reviewer, call[c].label} \subseteq Names

Init ==
  /\ KernelInit
  /\ call = [c \in Clients |-> NoCall]
  /\ started = 0
  /\ promised = {}

----------------------------------------------------------------------------
(* The shapes every step is made of. *)

Row == [status |-> card.status, assignee |-> card.assignee]

Goto(c, step)    == call' = [call EXCEPT ![c].at = step]
ReadRow(c, step) == call' = [call EXCEPT ![c].at = step, ![c].seen = Row]
Return(c, res)   == call' = [call EXCEPT ![c] = [NoCall EXCEPT !.result = res]]
Refuse(c)        == Return(c, "error") /\ UNCHANGED card

\* kanban.run: one CLI process.  Its transaction commits and it exits 0, or it
\* is killed at the 30 s deadline after the commit, which the caller sees as a
\* failure.  A process that is missing, refused, or killed earlier changes
\* nothing (Refuse).
Exec(c, row, next) ==
  /\ card' = row
  /\ call' \in { [call EXCEPT ![c] = next],
                 [call EXCEPT ![c] = [NoCall EXCEPT !.result = "error"]] }

At(c, step) == call[c].at = step

----------------------------------------------------------------------------
(* A client calls a tool.  The arguments that pass validation: any name or   *)
(* none for reviewer and worker, force or not, LOW tier (done mode) or not.  *)

Begin(c, first) ==
  /\ At(c, "idle") /\ started < MaxCalls
  /\ call' = [call EXCEPT ![c] = first]
  /\ started' = started + 1
  /\ UNCHANGED <<card, log, roster, promised>>

CallClaim(c) == Begin(c, [NoCall EXCEPT !.at = "claimRead", !.tool = "claim"])

CallComplete(c) ==
  \E doneMode \in BOOLEAN :
    Begin(c, [NoCall EXCEPT !.at = "guard", !.tool = "complete", !.done = doneMode])

CallReview(c) ==
  \E reviewer, worker \in NameOrNone, force \in BOOLEAN :
    Begin(c, [NoCall EXCEPT !.at = "preflight", !.tool = "review", !.force = force,
                            !.reviewer = reviewer, !.label = worker])

CallBlock(c) ==
  \E first \in {"blockTyped", "blockRest"} :
    Begin(c, [NoCall EXCEPT !.at = first, !.tool = "block"])

----------------------------------------------------------------------------
(* ticket_claim: preflight read, CLI, re-read. *)

\* Anything but ready is refused, a live claim included.
ClaimPreflight(c) ==
  /\ At(c, "claimRead")
  /\ \/ card.status = "ready" /\ Goto(c, "claim") /\ UNCHANGED card
     \/ Refuse(c)
  /\ UNCHANGED <<log, promised>>

ClaimWithTTL(c) ==
  /\ At(c, "claim")
  /\ \/ CanClaim(card) /\ Exec(c, Claimed(card), [call[c] EXCEPT !.at = "claimReread"])
     \/ Refuse(c)
  /\ UNCHANGED <<log, promised>>

ClaimReread(c) ==
  /\ At(c, "claimReread")
  /\ \E res \in {"ok", "error"} : Return(c, res)
  /\ UNCHANGED <<card, log, promised>>

(* ticket_block: the typed CLI, the untyped REST write when there is no CLI. *)

BlockTyped(c) ==
  /\ At(c, "blockTyped")
  /\ \/ CanBlock(card) /\ card' = Blocked(card) /\ \E res \in {"ok", "error"} : Return(c, res)
     \/ Goto(c, "blockRest") /\ UNCHANGED card
     \/ Refuse(c)
  /\ UNCHANGED <<log, promised>>

BlockUntyped(c) ==
  /\ At(c, "blockRest")
  /\ \/ CanBlock(card) /\ card' = Blocked(card) /\ \E res \in {"ok", "error"} : Return(c, res)
     \/ Refuse(c)
  /\ UNCHANGED <<log, promised>>

----------------------------------------------------------------------------
(* ticket_complete *)

\* Mutant of ClaimGuard: goes on to the transition and leaves the comment for later.
ClaimGuardSkipsComment(c) ==
  /\ At(c, "guard")
  /\ \/ /\ AllowSkipClaim \/ card.status = "running"
        /\ call' = [call EXCEPT ![c].at = IF call[c].done THEN "patch" ELSE "preflight",
                                ![c].force = (card.status = "running")]
        /\ UNCHANGED card
     \/ Refuse(c)
  /\ UNCHANGED <<log, promised>>

\* The claim guard reads the status once; what it read is also the force it
\* passes to the review handoff.
ClaimGuard(c) ==
  /\ At(c, "guard")
  /\ \/ /\ AllowSkipClaim \/ card.status = "running"
        /\ call' = [call EXCEPT ![c].at = "comment", ![c].force = (card.status = "running")]
        /\ UNCHANGED card
     \/ Refuse(c)
  /\ UNCHANGED <<log, promised>>

\* The comment precedes either transition.
PostComment(c) ==
  /\ At(c, "comment")
  /\ \/ /\ call' = [call EXCEPT ![c].at = IF call[c].done THEN "patch" ELSE "preflight",
                                ![c].commented = TRUE]
        /\ UNCHANGED card
     \/ Refuse(c)
  /\ UNCHANGED <<log, promised>>

PatchDone(c) ==
  /\ At(c, "patch")
  /\ \/ /\ CanComplete(card) /\ card' = Completed(card)
        /\ \E res \in {"ok", "error"} : Return(c, res)
     \/ Refuse(c)
  /\ UNCHANGED <<log, promised>>

----------------------------------------------------------------------------
(* ticket_request_review, alone or as the second half of ticket_complete. *)

\* Mutant of Preflight: takes a running row from a caller that asserted nothing.
PreflightUnforced(c) ==
  /\ At(c, "preflight")
  /\ \/ /\ card.status \in {"ready", "running"}
        /\ ReadRow(c, "reviewer") /\ UNCHANGED card
     \/ Refuse(c)
  /\ UNCHANGED <<log, promised>>

\* ready without force or running with it; the row read here decides the stamp.
Preflight(c) ==
  /\ At(c, "preflight")
  /\ \/ /\ \/ card.status = "ready" /\ ~call[c].force
           \/ card.status = "running" /\ call[c].force
        /\ ReadRow(c, "reviewer") /\ UNCHANGED card
     \/ Refuse(c)
  /\ UNCHANGED <<log, promised>>

FirstOf(arg, knob) == IF arg # NoOne THEN arg ELSE knob

\* The argument, the knob, or the reviewer of the newest changes_requested
\* event; the assignee is never a source.
ResolvedReviewer(c) == FirstOf(FirstOf(call[c].reviewer, ReviewerKnob), log.priorReviewer)

ResolveReviewer(c) ==
  /\ At(c, "reviewer")
  /\ \/ /\ ResolvedReviewer(c) # NoOne
        /\ call' = [call EXCEPT ![c].at = "roster", ![c].reviewer = ResolvedReviewer(c)]
        /\ UNCHANGED card
     \/ Refuse(c)
  /\ UNCHANGED <<log, promised>>

\* Mutant of VerifyReviewer: trusts the reviewer without asking the roster.
VerifyReviewerUnasked(c) ==
  /\ At(c, "roster")
  /\ Goto(c, "label")
  /\ UNCHANGED <<card, log, promised>>

\* The reviewer must be installed; an unreadable roster refuses.
VerifyReviewer(c) ==
  /\ At(c, "roster")
  /\ \/ call[c].reviewer \in roster /\ Goto(c, "label") /\ UNCHANGED card
     \/ Refuse(c)
  /\ UNCHANGED <<log, promised>>

\* Mutant of LabelAccepted: the roster check is gone.
LabelAcceptedInstalled(c, label) == label # NoOne /\ label # call[c].reviewer

\* The label must be named, must not be the reviewer, must not be installed.
LabelAccepted(c, label) == label # NoOne /\ label # call[c].reviewer /\ label \notin roster

\* Mutant of ResolveLabel: hands off whatever assignee the row carries.
ResolveLabelUnstamped(c) ==
  LET label == FirstOf(call[c].label, WorkerKnob) IN
  /\ At(c, "label")
  /\ \/ /\ LabelAccepted(c, label)
        /\ call' = [call EXCEPT ![c].label = label, ![c].at = "handoff"]
        /\ UNCHANGED card
     \/ Refuse(c)
  /\ UNCHANGED <<log, promised>>

\* The stamp is skipped when the row read at the preflight carries the label.
ResolveLabel(c) ==
  LET label == FirstOf(call[c].label, WorkerKnob) IN
  /\ At(c, "label")
  /\ \/ /\ LabelAccepted(c, label)
        /\ call' = [call EXCEPT ![c].label = label,
                      ![c].at = IF call[c].seen.assignee = label THEN "handoff" ELSE "stamp"]
        /\ UNCHANGED card
     \/ Refuse(c)
  /\ UNCHANGED <<log, promised>>

\* `assign` when the row read was ready, `reassign --reclaim` when it was
\* running; the latter can release the claim and then fail to assign.
Stamp(c) ==
  /\ At(c, "stamp")
  /\ LET next == [call[c] EXCEPT !.at = "restamp"] IN
     \/ /\ call[c].seen.status = "ready" /\ CanAssign(card)
        /\ Exec(c, Assigned(card, call[c].label), next)
     \/ /\ call[c].seen.status = "running"
        /\ \/ Exec(c, Assigned(Reclaimed(card), call[c].label), next)
           \/ card' = Reclaimed(card) /\ Return(c, "error")
     \/ Refuse(c)
  /\ UNCHANGED <<log, promised>>

\* The row after the stamp must carry the label; its status decides --force.
RereadStamp(c) ==
  /\ At(c, "restamp")
  /\ \/ card.assignee = call[c].label /\ ReadRow(c, "handoff") /\ UNCHANGED card
     \/ Refuse(c)
  /\ UNCHANGED <<log, promised>>

CliForce(c) == call[c].seen.status = "running"

RequestReview(c) ==
  /\ At(c, "handoff")
  /\ \/ /\ CanRequestReview(card, CliForce(c)) /\ log.handoffs < MaxHandoffs
        /\ log' = Requested(card, call[c].reviewer)
        /\ Exec(c, InReview(card, call[c].reviewer), [call[c] EXCEPT !.at = "verify"])
     \/ Refuse(c) /\ UNCHANGED log
  /\ UNCHANGED promised

\* One read of the row and its events; a row that is not in review is reported
\* as a request that did not take effect and dispatched nothing.
VerifyHandoff(c) ==
  /\ At(c, "verify")
  /\ \/ /\ card.status = "review" /\ card.assignee # NoOne
        /\ call' = [call EXCEPT ![c].at = "landed", ![c].seen = Row,
                      ![c].recorded = log.implementer, ![c].handoff = log.handoffs]
     \/ card.status # "review" /\ Return(c, "nothing_dispatched")
     \/ Return(c, "error")
  /\ UNCHANGED <<card, log, promised>>

\* Mutant of VerifyLanded: reports success without comparing the implementer.
VerifyLandedUncompared(c) ==
  /\ At(c, "landed")
  /\ \/ /\ \E readable \in BOOLEAN : readable => call[c].seen.assignee \in roster
        /\ call[c].handoff > 0
        /\ Return(c, "ok")
        /\ promised' = promised \cup
             {[handoff |-> call[c].handoff, label |-> call[c].label,
               reviewer |-> call[c].seen.assignee]}
     \/ Return(c, "error") /\ UNCHANGED promised
  /\ UNCHANGED <<card, log>>

\* The assignee that landed must be installed (skipped when the roster cannot be
\* read) and the newest review_requested event must record the label.
VerifyLanded(c) ==
  /\ At(c, "landed")
  /\ \/ /\ \E readable \in BOOLEAN : readable => call[c].seen.assignee \in roster
        /\ call[c].handoff > 0 /\ call[c].recorded = call[c].label
        /\ Return(c, "ok")
        /\ promised' = promised \cup
             {[handoff |-> call[c].handoff, label |-> call[c].label,
               reviewer |-> call[c].seen.assignee]}
     \/ Return(c, "error") /\ UNCHANGED promised
  /\ UNCHANGED <<card, log>>

----------------------------------------------------------------------------

CallStep(c) ==
  /\ \/ ClaimPreflight(c) \/ ClaimWithTTL(c) \/ ClaimReread(c)
     \/ BlockTyped(c) \/ BlockUntyped(c)
     \/ ClaimGuard(c) \/ PostComment(c) \/ PatchDone(c)
     \/ Preflight(c) \/ ResolveReviewer(c) \/ VerifyReviewer(c) \/ ResolveLabel(c)
     \/ Stamp(c) \/ RereadStamp(c) \/ RequestReview(c)
     \/ VerifyHandoff(c) \/ VerifyLanded(c)
  /\ UNCHANGED <<roster, started>>

CallBegins(c) == CallClaim(c) \/ CallComplete(c) \/ CallReview(c) \/ CallBlock(c)

Next ==
  \/ \E c \in Clients : CallBegins(c) \/ CallStep(c)
  \/ KernelStep /\ UNCHANGED <<call, started, promised>>

Spec == Init /\ [][Next]_vars

\* A started call keeps going (every step has a deadline) and the dispatcher
\* ticks; clients, agents, claim expiry and the operator owe nothing.
FairSpec ==
  /\ Spec
  /\ \A c \in Clients : WF_vars(CallStep(c))
  /\ WF_vars(SpawnReviewer /\ UNCHANGED <<call, started, promised>>)

----------------------------------------------------------------------------
(* What the tools promise. *)

\* The call of client c takes this step.
Acts(c) == call'[c] # call[c]

\* Every handoff puts the card on a name the dispatcher can spawn: the strand that
\* resolveReviewer, the roster check and "stamp, then hand off with --reviewer"
\* exist to prevent (with a fixed roster).
HandoffLandsSpawnable ==
  [][ log'.handoffs # log.handoffs => card'.status = "review" /\ card'.assignee \in roster ]_vars

\* Nobody reviews work recorded as their own: the reviewer comes from a source
\* that is never the assignee, and the label is refused when it is the reviewer.
NoSelfReview == card.run = "review" => card.assignee # log.implementer

\* A call that ends somebody's live run was told to: only a request whose caller
\* asserted force (or a completion, a block) takes a running card away.
ForceIsAsserted ==
  [][ \A c \in Clients :
        Acts(c) /\ call[c].tool = "review" /\ card.status = "running" /\ card' # card
          => call[c].force ]_vars

\* ticket_complete changes the card only once its comment is on it, by its done PATCH
\* or by the stamp and the handoff of its review path: a reviewer is never handed a
\* card that says nothing.
CommentPrecedesTransition ==
  [][ \A c \in Clients :
        Acts(c) /\ call[c].tool = "complete" /\ card' # card => call[c].commented ]_vars

\* The newest handoff is one that some call reported as a verified success.
Promised(label) == \E p \in promised : p.handoff = log.handoffs /\ p.label = label

\* A request-changes verdict on a handoff the tool reported as a success is never
\* refused for want of an implementer, and puts the card back at ready under the
\* label of the lane that handed it over.
ChangesReturnToLane ==
  [][ \A label \in Names :
        /\ card.run = "review" /\ Promised(label) => log.implementer = label
        /\ log'.priorReviewer # log.priorReviewer /\ Promised(label)
             => card'.status = "ready" /\ card'.assignee = label ]_vars

\* With a fixed roster, that label is nobody the dispatcher can spawn, so the
\* returned card waits for the lane; and the reviewer is somebody else.
PromisedLaneIsNotSpawned ==
  \A label \in Names :
    Promised(label) => label \notin roster /\ (card.run = "review" => card.assignee # label)

\* A handoff the tool reported as a success is picked up by the dispatcher: a row
\* that keeps the reviewer the caller was told of does not sit in review for good.
PromisedReviewHappens ==
  \A reviewer \in Names :
    LET waiting == card.status = "review" /\ card.assignee = reviewer IN
    (waiting /\ \E p \in promised : p.handoff = log.handoffs /\ p.reviewer = reviewer) ~> ~waiting
============================================================================
