-------------------------- MODULE ReviewLaneProofs --------------------------
(* Theorems about ReviewLane, for every number of clients, names and calls.  *)
EXTENDS ReviewLane, TLAPS

(***************************************************************************)
(* The inductive invariants, as named parts.                               *)
(***************************************************************************)

\* A live run is a running row; every transaction that leaves running ends it.
RunIsRunning == card.run # "none" => card.status = "running"

\* A completion that is past its comment has made it.
CommentMade ==
  \A c \in Clients :
    call[c].tool = "complete" => call[c].at \in {"guard", "comment"} \/ call[c].commented

\* What a call that has passed the two roster checks carries.
NamesChecked ==
  /\ \A c \in Clients :
       /\ call[c].at \in {"label"} \cup Resolved => call[c].reviewer \in roster
       /\ call[c].at \in Resolved => call[c].label \notin roster
  /\ \A p \in promised : p.label \notin roster

\* A reviewer's run belongs to an installed profile.
ReviewRunInstalled == card.run = "review" => card.assignee \in roster

\* Evidence about handoff number n that records this implementer is about the
\* past, or agrees with the newest event.
Agrees(n, implementer, l) ==
  n <= l.handoffs /\ (n = l.handoffs => implementer = l.implementer)

\* So is everything a call has read and everything the tool has reported.
EvidenceAgrees ==
  /\ \A c \in Clients : call[c].at = "landed" => Agrees(call[c].handoff, call[c].recorded, log)
  /\ \A p \in promised : Agrees(p.handoff, p.label, log)

----------------------------------------------------------------------------
(* Type correctness. *)

\* TypeOK with what makes it inductive: the roster check admits only names.
TypeInv ==
  /\ TypeOK
  /\ \A c \in Clients : call[c].at = "label" => call[c].reviewer \in Names

\* The row after every kernel transaction is a row.
LEMMA RowsAreTyped ==
  ASSUME KernelTypeOK, NEW n \in NameOrNone
  PROVE  /\ Claimed(card) \in Card
         /\ Reclaimed(card) \in Card
         /\ Assigned(card, n) \in Card
         /\ Assigned(Reclaimed(card), n) \in Card
         /\ InReview(card, n) \in Card
         /\ Blocked(card) \in Card
         /\ Completed(card) \in Card
         /\ Requested(card, n) \in Log
         /\ Row \in [status : {"ready", "running", "review", "blocked", "done"},
                     assignee : NameOrNone]
<1> USE DEF KernelTypeOK
<1>1. Claimed(card) \in Card
  BY DEF Card, Claimed
<1>2. Reclaimed(card) \in Card
  BY DEF Card, Reclaimed
<1>3. Assigned(card, n) \in Card
  BY DEF Card, Assigned
<1>4. Assigned(Reclaimed(card), n) \in Card
  BY <1>2 DEF Card, Assigned
<1>5. InReview(card, n) \in Card
  BY DEF Card, InReview
<1>6. Blocked(card) \in Card
  BY DEF Card, Blocked
<1>7. Completed(card) \in Card
  BY DEF Card, Completed
<1>8. Implementer(card, n) \in NameOrNone
  <2>1. card.assignee \in NameOrNone
    BY DEF Card
  <2>2. NoOne \in NameOrNone
    BY DEF NameOrNone
  <2> QED
    BY <2>1, <2>2 DEF Implementer
<1>9. Requested(card, n) \in Log
  <2>1. log.handoffs + 1 \in Nat
    BY DEF Log
  <2> QED
    BY <1>8, <2>1 DEF Log, Requested
<1>10. Row \in [status : {"ready", "running", "review", "blocked", "done"},
               assignee : NameOrNone]
  BY DEF Card, Row
<1> QED
  BY <1>1, <1>2, <1>3, <1>4, <1>5, <1>6, <1>7, <1>9, <1>10

\* The dispatcher, the agents and the operator keep the row, the log and the roster typed.
LEMMA KernelStepTyped ==
  ASSUME KernelTypeOK, KernelStep
  PROVE  KernelTypeOK'
<1> USE DEF KernelTypeOK
<1>1. Completed(card) \in Card /\ Blocked(card) \in Card
  BY RowsAreTyped, NoOne \in NameOrNone DEF NameOrNone
<1>2. CASE SpawnWorker \/ SpawnReviewer \/ ClaimExpires \/ Promote \/ Unblock
  BY <1>2 DEF SpawnWorker, SpawnReviewer, ClaimExpires, Promote, Unblock, Card
<1>3. CASE WorkerFinishes \/ Approve \/ ReviewerBlocks
  BY <1>1, <1>3 DEF WorkerFinishes, Approve, ReviewerBlocks
<1>4. CASE RequestChanges
  BY <1>4 DEF RequestChanges, Card, Log
<1>5. CASE RosterChanges
  BY <1>5 DEF RosterChanges
<1> QED
  BY <1>2, <1>3, <1>4, <1>5 DEF KernelStep

\* A finished call, whatever it answered, is a well typed record.
LEMMA NoCallTyped ==
  /\ NoCall \in CallType
  /\ \A res \in Results : [NoCall EXCEPT !.result = res] \in CallType
BY DEF NoCall, CallType, Steps, Tools, Results, NameOrNone

\* What TypeInv says of one call's record.
CallTyped(x) ==
  /\ x \in CallType
  /\ x.at \in Resolved => {x.reviewer, x.label} \subseteq Names
  /\ x.at = "label" => x.reviewer \in Names

\* Replacing one call's record by a well typed one keeps the state well typed.
LEMMA CallUpdated ==
  ASSUME TypeInv, NEW c \in Clients, NEW x, CallTyped(x), call' = [call EXCEPT ![c] = x],
         KernelTypeOK', started' \in Nat,
         promised' \subseteq [handoff : Nat, label : Names, reviewer : NameOrNone]
  PROVE  TypeInv'
BY DEF TypeInv, TypeOK, CallTyped

\* A step that only moves the call on, to a step outside Resolved.
LEMMA MovedOn ==
  ASSUME TypeInv, NEW c \in Clients, NEW step \in Steps, step \notin Resolved \cup {"label"}
  PROVE  /\ CallTyped([call[c] EXCEPT !.at = step])
         /\ Goto(c, step) => call' = [call EXCEPT ![c] = [call[c] EXCEPT !.at = step]]
BY DEF TypeInv, TypeOK, CallTyped, CallType, Goto

\* A call that returns leaves a well typed record.
LEMMA Returned ==
  ASSUME TypeInv, NEW c \in Clients, NEW res \in Results, Return(c, res)
  PROVE  \E x : CallTyped(x) /\ call' = [call EXCEPT ![c] = x]
<1> DEFINE x == [NoCall EXCEPT !.result = res]
<1>1. x.at = "idle"
  BY DEF NoCall
<1>2. CallTyped(x)
  BY <1>1, NoCallTyped DEF CallTyped, Resolved
<1> QED
  BY <1>2 DEF Return

\* The call of client c becomes some well typed record.
Becomes(c) == \E x : CallTyped(x) /\ call' = [call EXCEPT ![c] = x]

\* A CLI process, done or killed after its commit, leaves a well typed row and call.
LEMMA ExecTyped ==
  ASSUME TypeInv, NEW c \in Clients, NEW row \in Card, NEW next, CallTyped(next),
         Exec(c, row, next)
  PROVE  card' \in Card /\ Becomes(c)
<1> DEFINE y == [NoCall EXCEPT !.result = "error"]
<1>1. CallTyped(y)
  <2>1. y.at = "idle"
    BY DEF NoCall
  <2> QED
    BY <2>1, NoCallTyped DEF CallTyped, Resolved, Results
<1> QED
  BY <1>1 DEF Exec, Becomes

\* So does a call that begins with a well typed record.
LEMMA BeginTyped ==
  ASSUME TypeInv, NEW c \in Clients, NEW x, CallTyped(x), Begin(c, x)
  PROVE  TypeInv'
<1>1. KernelTypeOK' /\ started' \in Nat /\ call' = [call EXCEPT ![c] = x]
      /\ promised' \subseteq [handoff : Nat, label : Names, reviewer : NameOrNone]
  BY DEF Begin, TypeInv, TypeOK, KernelTypeOK
<1> QED
  BY <1>1, CallUpdated

\* Every tool call begins with one.
LEMMA CallBeginsTyped ==
  ASSUME TypeInv, NEW c \in Clients, CallBegins(c)
  PROVE  TypeInv'
<1> USE DEF CallTyped, CallType, Steps, Tools, Resolved, NoCall
<1>1. CASE CallClaim(c)
  <2>1. CallTyped([NoCall EXCEPT !.at = "claimRead", !.tool = "claim"])
    BY NoCallTyped
  <2> QED
    BY <1>1, <2>1, BeginTyped DEF CallClaim
<1>2. CASE CallComplete(c)
  <2>1. PICK d \in BOOLEAN :
          Begin(c, [NoCall EXCEPT !.at = "guard", !.tool = "complete", !.done = d])
    BY <1>2 DEF CallComplete
  <2>2. CallTyped([NoCall EXCEPT !.at = "guard", !.tool = "complete", !.done = d])
    BY NoCallTyped, ZenonT(40)
  <2> QED
    BY <2>1, <2>2, BeginTyped
<1>3. CASE CallReview(c)
  <2>1. PICK reviewer \in NameOrNone, worker \in NameOrNone, force \in BOOLEAN :
          Begin(c, [NoCall EXCEPT !.at = "preflight", !.tool = "review", !.force = force,
                                  !.reviewer = reviewer, !.label = worker])
    BY <1>3 DEF CallReview
  <2>2. CallTyped([NoCall EXCEPT !.at = "preflight", !.tool = "review", !.force = force,
                                 !.reviewer = reviewer, !.label = worker])
    BY NoCallTyped, ZenonT(40)
  <2> QED
    BY <2>1, <2>2, BeginTyped
<1>4. CASE CallBlock(c)
  <2>1. PICK first \in {"blockTyped", "blockRest"} :
          Begin(c, [NoCall EXCEPT !.at = first, !.tool = "block"])
    BY <1>4 DEF CallBlock
  <2>2. CallTyped([NoCall EXCEPT !.at = first, !.tool = "block"])
    BY NoCallTyped
  <2> QED
    BY <2>1, <2>2, BeginTyped
<1> QED
  BY <1>1, <1>2, <1>3, <1>4 DEF CallBegins

\* Every request of a call keeps the state well typed: before the stamp both names have
\* been resolved.
LEMMA CallStepTyped ==
  ASSUME TypeInv, NEW c \in Clients, CallStep(c)
  PROVE  TypeInv'
<1> DEFINE Reports == [handoff : Nat, label : Names, reviewer : NameOrNone]
<1>1. /\ call[c] \in CallType
      /\ KernelTypeOK
      /\ started \in Nat
      /\ promised \subseteq Reports
  BY DEF TypeInv, TypeOK
<1>2. UNCHANGED <<roster, started>>
  BY DEF CallStep
<1>3. SUFFICES Becomes(c) /\ card' \in Card /\ log' \in Log /\ promised' \subseteq Reports
  <2>1. KernelTypeOK' /\ started' \in Nat
    BY <1>1, <1>2, <1>3 DEF KernelTypeOK
  <2> QED
    BY <1>3, <2>1, CallUpdated DEF Becomes
<1>4. \A res \in Results : Return(c, res) => Becomes(c)
  BY Returned DEF Becomes
<1>5. Refuse(c) => Becomes(c) /\ card' \in Card
  BY <1>1, <1>4 DEF Refuse, Results, KernelTypeOK
<1>6. \A step \in Steps \ (Resolved \cup {"label"}) : Goto(c, step) => Becomes(c)
  BY MovedOn DEF Becomes
<1>7. card \in Card /\ log \in Log
  BY <1>1 DEF KernelTypeOK
<1>8. /\ Claimed(card) \in Card /\ Completed(card) \in Card /\ Blocked(card) \in Card
      /\ Reclaimed(card) \in Card
  BY <1>1, RowsAreTyped, NoOne \in NameOrNone DEF NameOrNone
<1>10. CASE ClaimPreflight(c)
  BY <1>10, <1>5, <1>6, <1>7, <1>1 DEF ClaimPreflight, Steps, Resolved
<1>11. CASE ClaimWithTTL(c)
  <2>1. CallTyped([call[c] EXCEPT !.at = "claimReread"])
    BY MovedOn DEF Steps, Resolved
  <2>2. Exec(c, Claimed(card), [call[c] EXCEPT !.at = "claimReread"])
          => card' \in Card /\ Becomes(c)
    BY <1>8, <2>1, ExecTyped
  <2> QED
    BY <1>11, <1>5, <1>7, <1>1, <2>2 DEF ClaimWithTTL
<1>12. CASE ClaimReread(c)
  BY <1>12, <1>4, <1>7, <1>1 DEF ClaimReread, Results
<1>13. CASE BlockTyped(c) \/ BlockUntyped(c)
  BY <1>13, <1>4, <1>5, <1>6, <1>7, <1>8, <1>1
     DEF BlockTyped, BlockUntyped, Results, Steps, Resolved
<1>14. CASE PatchDone(c)
  BY <1>14, <1>4, <1>5, <1>7, <1>8, <1>1 DEF PatchDone, Results
<1>15. CASE ClaimGuard(c)
  <2>1. ASSUME call' = [call EXCEPT ![c].at = "comment", ![c].force = (card.status = "running")]
        PROVE  Becomes(c)
    <3> DEFINE x == [call[c] EXCEPT !.at = "comment", !.force = (card.status = "running")]
    <3>1. (card.status = "running") \in BOOLEAN
      OBVIOUS
    <3>2. CallTyped(x)
      BY <1>1, <3>1 DEF CallTyped, CallType, Steps, Resolved
    <3>3. call' = [call EXCEPT ![c] = x]
      BY <2>1
    <3> QED
      BY <3>2, <3>3 DEF Becomes
  <2> QED
    BY <1>15, <1>5, <1>7, <1>1, <2>1 DEF ClaimGuard
<1>16. CASE PostComment(c)
  <2>1. ASSUME NEW step \in {"patch", "preflight"},
               call' = [call EXCEPT ![c].at = step, ![c].commented = TRUE]
        PROVE  Becomes(c)
    <3> DEFINE x == [call[c] EXCEPT !.at = step, !.commented = TRUE]
    <3>1. CallTyped(x)
      BY <1>1 DEF CallTyped, CallType, Steps, Resolved
    <3> QED
      BY <2>1, <3>1 DEF Becomes
  <2> QED
    BY <1>16, <1>5, <1>7, <1>1, <2>1 DEF PostComment
<1>17. ASSUME NEW step \in {"reviewer", "handoff"}, ReadRow(c, step), CallTyped(call[c]),
              step = "handoff" => {call[c].reviewer, call[c].label} \subseteq Names
       PROVE  Becomes(c)
  <2> DEFINE x == [call[c] EXCEPT !.at = step, !.seen = Row]
  <2>1. CallTyped(x)
    BY <1>1, <1>17, RowsAreTyped, NoOne \in NameOrNone
       DEF CallTyped, CallType, Steps, Resolved, NameOrNone
  <2> QED
    BY <1>17, <2>1 DEF ReadRow, Becomes
<1>18. CallTyped(call[c])
  BY DEF TypeInv, TypeOK, CallTyped
<1>19. CASE Preflight(c)
  BY <1>19, <1>5, <1>7, <1>1, <1>17, <1>18 DEF Preflight
<1>20. CASE ResolveReviewer(c)
  <2>1. ResolvedReviewer(c) \in NameOrNone
    BY <1>1, <1>7, LaneAssumption DEF ResolvedReviewer, FirstOf, CallType, Log
  <2>2. ASSUME call' = [call EXCEPT ![c].at = "roster", ![c].reviewer = ResolvedReviewer(c)]
        PROVE  Becomes(c)
    <3> DEFINE x == [call[c] EXCEPT !.at = "roster", !.reviewer = ResolvedReviewer(c)]
    <3>1. CallTyped(x)
      BY <1>1, <2>1 DEF CallTyped, CallType, Steps, Resolved
    <3> QED
      BY <2>2, <3>1 DEF Becomes
  <2> QED
    BY <1>20, <1>5, <1>7, <1>1, <2>2 DEF ResolveReviewer
<1>21. CASE VerifyReviewer(c)
  <2>1. ASSUME call[c].reviewer \in roster, Goto(c, "label")
        PROVE  Becomes(c)
    <3>1. CallTyped([call[c] EXCEPT !.at = "label"])
      BY <1>1, <2>1 DEF CallTyped, CallType, Steps, Resolved, KernelTypeOK
    <3> QED
      BY <2>1, <3>1 DEF Goto, Becomes
  <2> QED
    BY <1>21, <1>5, <1>7, <1>1, <2>1 DEF VerifyReviewer
<1>22. CASE ResolveLabel(c)
  <2> DEFINE label == FirstOf(call[c].label, WorkerKnob)
  <2>1. label \in NameOrNone
    BY <1>1, LaneAssumption DEF FirstOf, CallType
  <2>2. ASSUME LabelAccepted(c, label), NEW step \in {"handoff", "stamp"},
               call' = [call EXCEPT ![c].label = label, ![c].at = step]
        PROVE  Becomes(c)
    <3> DEFINE x == [call[c] EXCEPT !.label = label, !.at = step]
    <3>1. call[c].reviewer \in Names
      BY <1>22 DEF ResolveLabel, At, TypeInv
    <3>2. label \in Names
      BY <2>1, <2>2 DEF LabelAccepted, NameOrNone
    <3> HIDE DEF label
    <3>3. CallTyped(x)
      BY <1>1, <3>1, <3>2 DEF CallTyped, CallType, Steps, NameOrNone
    <3> QED
      BY <2>2, <3>3 DEF Becomes
  <2> QED
    BY <1>22, <1>5, <1>7, <1>1, <2>2 DEF ResolveLabel
<1>23. CASE Stamp(c)
  <2> DEFINE next == [call[c] EXCEPT !.at = "restamp"]
  <2>1. {call[c].reviewer, call[c].label} \subseteq Names
    BY <1>18, <1>23 DEF Stamp, At, CallTyped, Resolved
  <2>2. CallTyped(next)
    BY <1>1, <2>1 DEF CallTyped, CallType, Steps
  <2>3. /\ Assigned(card, call[c].label) \in Card
        /\ Assigned(Reclaimed(card), call[c].label) \in Card
    BY <1>1, <2>1, RowsAreTyped DEF NameOrNone
  <2> HIDE DEF next
  <2>4. \A row \in Card : Exec(c, row, next) => card' \in Card /\ Becomes(c)
    BY <2>2, ExecTyped
  <2>5. Return(c, "error") => Becomes(c)
    BY <1>4 DEF Results
  <2> QED
    BY <1>23, <1>5, <1>7, <1>8, <1>1, <2>3, <2>4, <2>5 DEF Stamp, next
<1>24. CASE RereadStamp(c)
  <2>1. {call[c].reviewer, call[c].label} \subseteq Names
    BY <1>18, <1>24 DEF RereadStamp, At, CallTyped, Resolved
  <2> QED
    BY <1>24, <1>5, <1>7, <1>1, <1>17, <1>18, <2>1 DEF RereadStamp
<1>25. CASE RequestReview(c)
  <2>1. {call[c].reviewer, call[c].label} \subseteq Names
    BY <1>18, <1>25 DEF RequestReview, At, CallTyped, Resolved
  <2>2. CASE Refuse(c) /\ UNCHANGED log
    BY <1>25, <2>2, <1>5, <1>7, <1>1 DEF RequestReview
  <2>3. CASE ~(Refuse(c) /\ UNCHANGED log)
    <3> DEFINE next == [call[c] EXCEPT !.at = "verify"]
    <3>1. CallTyped(next)
      BY <1>1, <2>1 DEF CallTyped, CallType, Steps
    <3>2. InReview(card, call[c].reviewer) \in Card /\ Requested(card, call[c].reviewer) \in Log
      BY <1>1, <2>1, RowsAreTyped DEF NameOrNone
    <3> HIDE DEF next
    <3>3. Exec(c, InReview(card, call[c].reviewer), next) => card' \in Card /\ Becomes(c)
      BY <3>1, <3>2, ExecTyped
    <3> QED
      BY <1>25, <2>3, <1>1, <3>2, <3>3 DEF RequestReview, next
  <2> QED
    BY <2>2, <2>3
<1>26. CASE VerifyHandoff(c)
  <2>1. {call[c].reviewer, call[c].label} \subseteq Names
    BY <1>18, <1>26 DEF VerifyHandoff, At, CallTyped, Resolved
  <2>2. ASSUME call' = [call EXCEPT ![c].at = "landed", ![c].seen = Row,
                          ![c].recorded = log.implementer, ![c].handoff = log.handoffs]
        PROVE  Becomes(c)
    <3> DEFINE x == [call[c] EXCEPT !.at = "landed", !.seen = Row,
                       !.recorded = log.implementer, !.handoff = log.handoffs]
    <3>1. log.implementer \in NameOrNone /\ log.handoffs \in Nat
      BY <1>7 DEF Log
    <3>2. Row \in [status : {"ready", "running", "review", "blocked", "done"},
                   assignee : NameOrNone]
      BY <1>1, RowsAreTyped, NoOne \in NameOrNone DEF NameOrNone
    <3>3. CallTyped(x)
      BY <1>1, <2>1, <3>1, <3>2 DEF CallTyped, CallType, Steps
    <3> QED
      BY <2>2, <3>3 DEF Becomes
  <2> QED
    BY <1>26, <1>4, <1>7, <1>1, <2>2 DEF VerifyHandoff, Results
<1>27. CASE VerifyLanded(c)
  <2>1. {call[c].reviewer, call[c].label} \subseteq Names
    BY <1>18, <1>27 DEF VerifyLanded, At, CallTyped, Resolved
  <2>2. [handoff |-> call[c].handoff, label |-> call[c].label,
         reviewer |-> call[c].seen.assignee] \in Reports
    BY <1>1, <2>1 DEF CallType
  <2> QED
    BY <1>27, <1>4, <1>7, <1>1, <2>2 DEF VerifyLanded, Results
<1> QED
  BY <1>10, <1>11, <1>12, <1>13, <1>14, <1>15, <1>16, <1>19, <1>20, <1>21, <1>22, <1>23,
     <1>24, <1>25, <1>26, <1>27 DEF CallStep

\* The types, with what is known of the names at the label step, hold in every state.
THEOREM TypeInvariance == Spec => []TypeInv
<1>1. Init => TypeInv
  <2>1. ASSUME Init PROVE KernelTypeOK
    BY <2>1, KernelAssumption DEF Init, KernelInit, KernelTypeOK, Card, Log, NameOrNone
  <2>2. NoCall.at = "idle"
    BY DEF NoCall
  <2> QED
    BY <2>1, <2>2, NoCallTyped DEF Init, TypeInv, TypeOK, Resolved
<1>2. TypeInv /\ [Next]_vars => TypeInv'
  <2> SUFFICES ASSUME TypeInv, [Next]_vars PROVE TypeInv'
    OBVIOUS
  <2>1. CASE \E c \in Clients : CallBegins(c) \/ CallStep(c)
    BY <2>1, CallBeginsTyped, CallStepTyped
  <2>2. CASE KernelStep /\ UNCHANGED <<call, started, promised>>
    BY <2>2, KernelStepTyped DEF TypeInv, TypeOK
  <2>3. CASE UNCHANGED vars
    BY <2>3 DEF vars, TypeInv, TypeOK, KernelTypeOK
  <2> QED
    BY <2>1, <2>2, <2>3 DEF Next
<1> QED
  BY <1>1, <1>2, PTL DEF Spec

\* Every reachable state is well typed, and a call that has reached the stamp
\* carries a reviewer and a label, whatever the clients, names and roster.
THEOREM TypeCorrect == Spec => []TypeOK
BY TypeInvariance, PTL DEF TypeInv

----------------------------------------------------------------------------
(* The comment before the transition. *)

\* A step of one client leaves every other client's call alone.
LEMMA OthersUntouched ==
  ASSUME TypeInv, NEW c \in Clients, CallBegins(c) \/ CallStep(c)
  PROVE  /\ call' \in [Clients -> CallType]
         /\ \A d \in Clients \ {c} : call'[d] = call[d]
<1>1. TypeInv'
  BY CallBeginsTyped, CallStepTyped
<1>2. call \in [Clients -> CallType] /\ call' \in [Clients -> CallType]
  BY <1>1 DEF TypeInv, TypeOK
<1> USE DEF Goto, ReadRow, Return, Refuse, Exec
<1>3. CASE CallBegins(c)
  BY <1>2, <1>3 DEF CallBegins, CallClaim, CallComplete, CallReview, CallBlock, Begin
<1>4. CASE ClaimPreflight(c) \/ ClaimWithTTL(c) \/ ClaimReread(c) \/ BlockTyped(c)
           \/ BlockUntyped(c) \/ ClaimGuard(c) \/ PostComment(c) \/ PatchDone(c)
  BY <1>2, <1>4 DEF ClaimPreflight, ClaimWithTTL, ClaimReread, BlockTyped, BlockUntyped,
                    ClaimGuard, PostComment, PatchDone
<1>5. CASE Preflight(c) \/ ResolveReviewer(c) \/ VerifyReviewer(c) \/ ResolveLabel(c)
  BY <1>2, <1>5 DEF Preflight, ResolveReviewer, VerifyReviewer, ResolveLabel
<1>6. CASE Stamp(c) \/ RereadStamp(c) \/ RequestReview(c) \/ VerifyHandoff(c) \/ VerifyLanded(c)
  BY <1>2, <1>6 DEF Stamp, RereadStamp, RequestReview, VerifyHandoff, VerifyLanded
<1> QED
  BY <1>2, <1>3, <1>4, <1>5, <1>6 DEF CallStep

\* A call that goes on as a completion was one, and passes its comment by making it.
LEMMA CommentKept ==
  ASSUME TypeInv, CommentMade, NEW c \in Clients, CallStep(c), call'[c].tool = "complete"
  PROVE  /\ call[c].tool = "complete"
         /\ call'[c].at \in {"guard", "comment"} \/ call'[c].commented
<1>1. call \in [Clients -> CallType]
  BY DEF TypeInv, TypeOK
<1>2. \A res : [NoCall EXCEPT !.result = res].tool # "complete"
  BY DEF NoCall
<1>3. \A res : ~Return(c, res)
  BY <1>1, <1>2 DEF Return
<1>4. ~Refuse(c)
  BY <1>3 DEF Refuse
<1>5. call[c].tool = "complete" => call[c].at \in {"guard", "comment"} \/ call[c].commented
  BY DEF CommentMade
<1>6. ASSUME NEW row, NEW next \in CallType, Exec(c, row, next),
             next.tool = call[c].tool, next.commented = call[c].commented,
             call[c].at \notin {"guard", "comment"}
      PROVE  call[c].tool = "complete" /\ call'[c].commented
  <2>1. call' = [call EXCEPT ![c] = next]
    BY <1>3, <1>6 DEF Exec, Return
  <2>2. call'[c] = next
    BY <1>1, <2>1
  <2>3. call'[c].tool = next.tool /\ call'[c].commented = next.commented
    BY <1>6, <2>2 DEF CallType
  <2> QED
    BY <1>5, <1>6, <2>3
<1>7. CASE ClaimPreflight(c) \/ BlockTyped(c)
  BY <1>1, <1>3, <1>4, <1>5, <1>7 DEF ClaimPreflight, BlockTyped, Goto, At, CallType
<1>8. CASE ClaimWithTTL(c)
  BY <1>1, <1>4, <1>6, <1>8 DEF ClaimWithTTL, Steps, CallType, At
<1>9. CASE ClaimReread(c) \/ BlockUntyped(c) \/ PatchDone(c) \/ VerifyLanded(c)
  BY <1>3, <1>4, <1>9 DEF ClaimReread, BlockUntyped, PatchDone, VerifyLanded
<1>10. CASE ClaimGuard(c)
  BY <1>1, <1>4, <1>5, <1>10 DEF ClaimGuard, At, CallType
<1>11. CASE PostComment(c)
  BY <1>1, <1>4, <1>5, <1>11 DEF PostComment, At, CallType
<1>12. CASE Preflight(c) \/ RereadStamp(c)
  BY <1>1, <1>4, <1>5, <1>12 DEF Preflight, RereadStamp, ReadRow, At, CallType
<1>13. CASE ResolveReviewer(c) \/ VerifyReviewer(c)
  BY <1>1, <1>4, <1>5, <1>13 DEF ResolveReviewer, VerifyReviewer, Goto, At, CallType
<1>14. CASE ResolveLabel(c)
  BY <1>1, <1>4, <1>5, <1>14 DEF ResolveLabel, At, CallType
<1>15. CASE Stamp(c)
  <2> DEFINE next == [call[c] EXCEPT !.at = "restamp"]
  <2>1. next \in CallType /\ next.tool = call[c].tool /\ next.commented = call[c].commented
    BY <1>1 DEF CallType, Steps
  <2> HIDE DEF next
  <2> QED
    BY <1>3, <1>4, <1>6, <1>15, <2>1 DEF Stamp, At, next
<1>16. CASE RequestReview(c)
  <2> DEFINE next == [call[c] EXCEPT !.at = "verify"]
  <2>1. next \in CallType /\ next.tool = call[c].tool /\ next.commented = call[c].commented
    BY <1>1 DEF CallType, Steps
  <2> HIDE DEF next
  <2> QED
    BY <1>4, <1>6, <1>16, <2>1 DEF RequestReview, At, next
<1>17. CASE VerifyHandoff(c)
  BY <1>1, <1>3, <1>5, <1>17 DEF VerifyHandoff, At, CallType
<1> QED
  BY <1>7, <1>8, <1>9, <1>10, <1>11, <1>12, <1>13, <1>14, <1>15, <1>16, <1>17 DEF CallStep

\* Only the transition steps touch the row, and the guard and the comment are not.
LEMMA EarlyStepsKeepCard ==
  ASSUME NEW c \in Clients, CallStep(c), call[c].at \in {"guard", "comment"}
  PROVE  UNCHANGED card
BY DEF CallStep, At, ClaimPreflight, ClaimWithTTL, ClaimReread, BlockTyped, BlockUntyped,
       ClaimGuard, PostComment, PatchDone, Preflight, ResolveReviewer, VerifyReviewer,
       ResolveLabel, Stamp, RereadStamp, RequestReview, VerifyHandoff, VerifyLanded, Refuse

\* ticket_complete changes the card only after its comment is on it, for any
\* number of clients and whatever the kernel does between the two.
THEOREM CommentFirst == Spec => CommentPrecedesTransition
<1> DEFINE Step ==
      \A c \in Clients :
        Acts(c) /\ call[c].tool = "complete" /\ card' # card => call[c].commented
<1>1. Init => CommentMade
  BY DEF Init, CommentMade, NoCall
<1>2. TypeInv /\ CommentMade /\ [Next]_vars => CommentMade' /\ [Step]_vars
  <2> SUFFICES ASSUME TypeInv, CommentMade, [Next]_vars PROVE CommentMade' /\ Step
    OBVIOUS
  <2>1. CASE UNCHANGED <<call>>
    BY <2>1 DEF CommentMade, Acts
  <2>2. ASSUME NEW c \in Clients, CallBegins(c)
        PROVE  CommentMade' /\ Step
    <3>1. call'[c].tool = "complete" => call'[c].at = "guard"
      <4>1. \A x : Begin(c, x) => call'[c] = x
        BY DEF TypeInv, TypeOK, Begin
      <4> QED
        BY <2>2, <4>1 DEF CallBegins, CallClaim, CallComplete, CallReview, CallBlock, NoCall
    <3>2. UNCHANGED card
      BY <2>2 DEF CallBegins, CallClaim, CallComplete, CallReview, CallBlock, Begin
    <3> QED
      BY <2>2, <3>1, <3>2, OthersUntouched DEF CommentMade
  <2>3. ASSUME NEW c \in Clients, CallStep(c)
        PROVE  CommentMade' /\ Step
    <3>1. \A d \in Clients \ {c} : call'[d] = call[d]
      BY <2>3, OthersUntouched
    <3>2. CommentMade'
      BY <2>3, <3>1, CommentKept DEF CommentMade
    <3>3. Step
      BY <2>3, <3>1, EarlyStepsKeepCard DEF CommentMade, Acts
    <3> QED
      BY <3>2, <3>3
  <2> QED
    BY <2>1, <2>2, <2>3 DEF Next, vars
<1> QED
  BY <1>1, <1>2, TypeInvariance, PTL DEF Spec, CommentPrecedesTransition

----------------------------------------------------------------------------
(* Where a handoff lands, with a fixed roster. *)

\* A roster that may not change does not.
LEMMA RosterStays ==
  ASSUME RosterMayChange = FALSE, [Next]_vars
  PROVE  roster' = roster
BY DEF Next, vars, CallBegins, CallClaim, CallComplete, CallReview, CallBlock, Begin, CallStep,
       KernelStep, SpawnWorker, SpawnReviewer, ClaimExpires, WorkerFinishes, Approve,
       RequestChanges, ReviewerBlocks, Promote, Unblock, RosterChanges

\* The call carries names both roster checks have passed, as far as it has got.
Checked(x) ==
  /\ x.at \in {"label"} \cup Resolved => x.reviewer \in roster
  /\ x.at \in Resolved => x.label \notin roster

\* A call passes the label check and the stamp only with checked names.
LEMMA ChecksKept ==
  ASSUME TypeInv, NEW c \in Clients, CallStep(c), Checked(call[c])
  PROVE  Checked(call'[c])
<1>1. call \in [Clients -> CallType] /\ call[c] \in CallType
  BY DEF TypeInv, TypeOK
<1>2. \A res : Return(c, res) => Checked(call'[c])
  BY <1>1 DEF Return, Checked, NoCall, Resolved
<1>3. Refuse(c) => Checked(call'[c])
  BY <1>2 DEF Refuse
<1>4. \A step : step \notin {"label"} \cup Resolved /\ Goto(c, step) => Checked(call'[c])
  BY <1>1 DEF Goto, Checked, CallType
<1>5. ASSUME NEW row, NEW next \in CallType, Checked(next), Exec(c, row, next)
      PROVE  Checked(call'[c])
  <2>1. Checked([NoCall EXCEPT !.result = "error"])
    BY DEF Checked, NoCall, Resolved
  <2> QED
    BY <1>1, <1>5, <2>1 DEF Exec
<1>6. ASSUME NEW x \in CallType, x.at \notin {"label"} \cup Resolved, call' = [call EXCEPT ![c] = x]
      PROVE  Checked(call'[c])
  BY <1>1, <1>6 DEF Checked
<1>7. CASE ClaimPreflight(c) \/ BlockTyped(c)
  BY <1>2, <1>3, <1>4, <1>7 DEF ClaimPreflight, BlockTyped, Resolved
<1>8. CASE ClaimWithTTL(c)
  <2> DEFINE next == [call[c] EXCEPT !.at = "claimReread"]
  <2>1. next \in CallType /\ Checked(next)
    BY <1>1 DEF CallType, Steps, Checked, Resolved
  <2> HIDE DEF next
  <2> QED
    BY <1>3, <1>5, <1>8, <2>1 DEF ClaimWithTTL, next
<1>9. CASE ClaimReread(c) \/ BlockUntyped(c) \/ PatchDone(c) \/ VerifyLanded(c)
  BY <1>2, <1>3, <1>9 DEF ClaimReread, BlockUntyped, PatchDone, VerifyLanded
<1>10. CASE ClaimGuard(c) \/ PostComment(c) \/ ResolveReviewer(c)
  BY <1>1, <1>3, <1>10 DEF ClaimGuard, PostComment, ResolveReviewer, Checked, CallType, Resolved
<1>11. CASE Preflight(c)
  BY <1>1, <1>3, <1>11 DEF Preflight, ReadRow, Checked, CallType, Resolved
<1>12. CASE VerifyReviewer(c)
  BY <1>1, <1>3, <1>12 DEF VerifyReviewer, Goto, Checked, CallType, Resolved
<1>13. CASE ResolveLabel(c)
  BY <1>1, <1>3, <1>13 DEF ResolveLabel, LabelAccepted, At, Checked, CallType, Resolved
<1>14. CASE Stamp(c)
  <2> DEFINE next == [call[c] EXCEPT !.at = "restamp"]
  <2>1. next \in CallType /\ Checked(next)
    BY <1>1, <1>14 DEF Stamp, At, CallType, Steps, Checked, Resolved
  <2> HIDE DEF next
  <2> QED
    BY <1>2, <1>3, <1>5, <1>14, <2>1 DEF Stamp, next
<1>15. CASE RereadStamp(c)
  BY <1>1, <1>3, <1>15 DEF RereadStamp, ReadRow, At, Checked, CallType, Resolved
<1>16. CASE RequestReview(c)
  <2> DEFINE next == [call[c] EXCEPT !.at = "verify"]
  <2>1. next \in CallType
    BY <1>1 DEF CallType, Steps
  <2>2. Checked(next)
    BY <1>1, <1>16 DEF RequestReview, At, CallType, Checked, Resolved
  <2> HIDE DEF next
  <2> QED
    BY <1>3, <1>5, <1>16, <2>1, <2>2 DEF RequestReview, next
<1>17. CASE VerifyHandoff(c)
  BY <1>1, <1>2, <1>17 DEF VerifyHandoff, At, Checked, CallType, Resolved
<1> QED
  BY <1>7, <1>8, <1>9, <1>10, <1>11, <1>12, <1>13, <1>14, <1>15, <1>16, <1>17 DEF CallStep

\* Only an accepted request adds a handoff, and a success is reported only at the end.
LEMMA HandoffsAndReports ==
  ASSUME NEW c \in Clients, CallBegins(c) \/ CallStep(c)
  PROVE  /\ log' = log \/ RequestReview(c)
         /\ promised' = promised \/ VerifyLanded(c)
<1>1. CASE CallBegins(c)
  BY <1>1 DEF CallBegins, CallClaim, CallComplete, CallReview, CallBlock, Begin
<1>2. CASE ClaimPreflight(c) \/ ClaimWithTTL(c) \/ ClaimReread(c) \/ BlockTyped(c)
           \/ BlockUntyped(c) \/ ClaimGuard(c) \/ PostComment(c) \/ PatchDone(c)
  BY <1>2 DEF ClaimPreflight, ClaimWithTTL, ClaimReread, BlockTyped, BlockUntyped,
              ClaimGuard, PostComment, PatchDone
<1>3. CASE Preflight(c) \/ ResolveReviewer(c) \/ VerifyReviewer(c) \/ ResolveLabel(c)
           \/ Stamp(c) \/ RereadStamp(c) \/ VerifyHandoff(c)
  BY <1>3 DEF Preflight, ResolveReviewer, VerifyReviewer, ResolveLabel, Stamp, RereadStamp,
              VerifyHandoff
<1>4. CASE RequestReview(c) \/ VerifyLanded(c)
  BY <1>4 DEF RequestReview, VerifyLanded
<1> QED
  BY <1>1, <1>2, <1>3, <1>4 DEF CallStep

\* Nothing undoes the checks of a call's names while the roster is fixed.
LEMMA NamesCheckedKept ==
  ASSUME RosterMayChange = FALSE, TypeInv, NamesChecked, [Next]_vars
  PROVE  NamesChecked'
<1>1. roster' = roster
  BY RosterStays
<1>2. CASE call' = call /\ promised' = promised
  BY <1>1, <1>2 DEF NamesChecked
<1>3. ASSUME NEW c \in Clients, CallBegins(c) \/ CallStep(c)
      PROVE  NamesChecked'
  <2>1. \A d \in Clients \ {c} : call'[d] = call[d]
    BY <1>3, OthersUntouched
  <2>2. Checked(call'[c])
    <3>1. CASE CallStep(c)
      BY <3>1, ChecksKept DEF NamesChecked, Checked
    <3>2. CASE CallBegins(c)
      <4>1. \A x : Begin(c, x) => call'[c] = x
        BY DEF TypeInv, TypeOK, Begin
      <4>2. call'[c].at \in {"claimRead", "guard", "preflight", "blockTyped", "blockRest"}
        BY <3>2, <4>1 DEF CallBegins, CallClaim, CallComplete, CallReview, CallBlock, NoCall
      <4> QED
        BY <4>2 DEF Checked, Resolved
    <3> QED
      BY <1>3, <3>1, <3>2
  <2>3. \A p \in promised' : p.label \notin roster
    <3>1. CASE promised' = promised
      BY <3>1 DEF NamesChecked
    <3>2. CASE VerifyLanded(c)
      BY <3>2 DEF VerifyLanded, At, NamesChecked, Resolved
    <3> QED
      BY <1>3, <3>1, <3>2, HandoffsAndReports
  <2> QED
    BY <1>1, <2>1, <2>2, <2>3 DEF NamesChecked, Checked
<1> QED
  BY <1>2, <1>3 DEF Next, vars

\* With a fixed roster, every handoff the kernel accepts puts the card on a
\* profile the dispatcher can spawn, however many clients hand off at once.
THEOREM HandoffIsSpawnable ==
  ASSUME RosterMayChange = FALSE
  PROVE  Spec => HandoffLandsSpawnable
<1> DEFINE Step == log'.handoffs # log.handoffs => card'.status = "review" /\ card'.assignee \in roster
<1>1. Init => NamesChecked
  BY DEF Init, NamesChecked, NoCall, Resolved
<1>2. TypeInv /\ NamesChecked /\ [Next]_vars => NamesChecked'
  BY NamesCheckedKept
<1>3. TypeInv /\ NamesChecked /\ [Next]_vars => [Step]_vars
  <2> SUFFICES ASSUME TypeInv, NamesChecked, [Next]_vars, log'.handoffs # log.handoffs
               PROVE  card'.status = "review" /\ card'.assignee \in roster
    OBVIOUS
  <2>1. PICK c \in Clients : RequestReview(c)
    <3>1. ~(KernelStep /\ UNCHANGED <<call, started, promised>>)
      BY DEF KernelStep, SpawnWorker, SpawnReviewer, ClaimExpires, WorkerFinishes, Approve,
             RequestChanges, ReviewerBlocks, Promote, Unblock, RosterChanges, TypeInv, TypeOK,
             KernelTypeOK, Log
    <3> QED
      BY <3>1, HandoffsAndReports DEF Next, vars
  <2>2. card' = InReview(card, call[c].reviewer)
    BY <2>1 DEF RequestReview, Refuse, Exec
  <2>3. call[c].reviewer \in roster
    BY <2>1 DEF RequestReview, At, NamesChecked, Resolved
  <2> QED
    BY <2>2, <2>3 DEF InReview, TypeInv, TypeOK, KernelTypeOK, Card
<1> QED
  BY <1>1, <1>2, <1>3, TypeInvariance, PTL DEF Spec, HandoffLandsSpawnable

----------------------------------------------------------------------------
(* What a reported handoff is worth: the verdict comes back to the lane. *)

\* The number of handoffs only grows, and its newest implementer is set with it.
LEMMA HandoffsGrow ==
  ASSUME TypeInv, [Next]_vars
  PROVE  \/ log'.handoffs = log.handoffs /\ log'.implementer = log.implementer
         \/ log'.handoffs = log.handoffs + 1
<1>1. log \in Log
  BY DEF TypeInv, TypeOK, KernelTypeOK
<1>2. CASE KernelStep
  BY <1>1, <1>2 DEF KernelStep, SpawnWorker, SpawnReviewer, ClaimExpires, WorkerFinishes, Approve,
             RequestChanges, ReviewerBlocks, Promote, Unblock, RosterChanges, Log
<1>3. CASE log' = log
  BY <1>3
<1>4. ASSUME NEW c \in Clients, RequestReview(c)
      PROVE  log' = log \/ log'.handoffs = log.handoffs + 1
  BY <1>1, <1>4 DEF RequestReview, Requested, Log
<1> QED
  BY <1>2, <1>3, <1>4, HandoffsAndReports DEF Next, vars

\* A call reaches its last step by reading the log, and by nothing else.
LEMMA LandedByReading ==
  ASSUME TypeInv, NEW c \in Clients, CallStep(c), call'[c].at = "landed"
  PROVE  VerifyHandoff(c)
<1>1. call \in [Clients -> CallType] /\ call[c] \in CallType
  BY DEF TypeInv, TypeOK
<1>2. \A res : ~Return(c, res)
  BY <1>1 DEF Return, NoCall
<1>3. ~Refuse(c)
  BY <1>2 DEF Refuse
<1>4. \A step : step # "landed" => ~Goto(c, step) /\ ~ReadRow(c, step)
  BY <1>1 DEF Goto, ReadRow, CallType
<1>5. ASSUME NEW row, NEW next \in CallType, next.at # "landed", Exec(c, row, next)
      PROVE  FALSE
  <2>1. call' = [call EXCEPT ![c] = next]
    BY <1>2, <1>5 DEF Exec, Return
  <2>2. call'[c] = next
    BY <1>1, <2>1
  <2> QED
    BY <1>5, <2>2 DEF CallType
<1>6. CASE ClaimPreflight(c) \/ ClaimReread(c) \/ BlockTyped(c) \/ BlockUntyped(c)
           \/ PatchDone(c) \/ Preflight(c) \/ VerifyReviewer(c) \/ RereadStamp(c)
           \/ VerifyLanded(c)
  BY <1>2, <1>3, <1>4, <1>6 DEF ClaimPreflight, ClaimReread, BlockTyped, BlockUntyped,
     PatchDone, Preflight, VerifyReviewer, RereadStamp, VerifyLanded
<1>7. CASE ClaimGuard(c) \/ PostComment(c) \/ ResolveReviewer(c) \/ ResolveLabel(c)
  BY <1>1, <1>3, <1>7 DEF ClaimGuard, PostComment, ResolveReviewer, ResolveLabel, CallType
<1>8. CASE ClaimWithTTL(c) \/ Stamp(c)
  <2> DEFINE claimed == [call[c] EXCEPT !.at = "claimReread"]
             stamped == [call[c] EXCEPT !.at = "restamp"]
  <2>1. claimed \in CallType /\ claimed.at # "landed"
    BY <1>1 DEF CallType, Steps
  <2>2. stamped \in CallType /\ stamped.at # "landed"
    BY <1>1 DEF CallType, Steps
  <2> HIDE DEF claimed, stamped
  <2> QED
    BY <1>2, <1>3, <1>5, <1>8, <2>1, <2>2 DEF ClaimWithTTL, Stamp, claimed, stamped
<1>9. CASE RequestReview(c)
  <2> DEFINE next == [call[c] EXCEPT !.at = "verify"]
  <2>1. next \in CallType /\ next.at # "landed"
    BY <1>1 DEF CallType, Steps
  <2> HIDE DEF next
  <2> QED
    BY <1>3, <1>5, <1>9, <2>1 DEF RequestReview, next
<1> QED
  BY <1>6, <1>7, <1>8, <1>9 DEF CallStep

\* A reported success keeps agreeing with the event log: handoffs are only added.
LEMMA EvidenceKept ==
  ASSUME TypeInv, EvidenceAgrees, [Next]_vars
  PROVE  EvidenceAgrees'
<1>1. /\ call \in [Clients -> CallType] /\ log \in Log
      /\ promised \subseteq [handoff : Nat, label : Names, reviewer : NameOrNone]
  BY DEF TypeInv, TypeOK, KernelTypeOK
<1>2. \A n \in Nat : \A name : Agrees(n, name, log) => Agrees(n, name, log')
  BY <1>1, HandoffsGrow DEF Agrees, Log
<1>3. \A p \in promised : Agrees(p.handoff, p.label, log')
  BY <1>1, <1>2 DEF EvidenceAgrees
<1>4. \A c \in Clients :
        call[c].at = "landed" => Agrees(call[c].handoff, call[c].recorded, log')
  <2> TAKE c \in Clients
  <2>1. call[c].handoff \in Nat
    BY <1>1 DEF CallType
  <2> QED
    BY <1>2, <2>1 DEF EvidenceAgrees
<1>5. CASE call' = call /\ promised' = promised
  BY <1>3, <1>4, <1>5 DEF EvidenceAgrees
<1>6. ASSUME NEW c \in Clients, CallBegins(c) \/ CallStep(c)
      PROVE  EvidenceAgrees'
  <2>1. \A d \in Clients \ {c} : call'[d] = call[d]
    BY <1>6, OthersUntouched
  <2>2. call'[c].at = "landed" => Agrees(call'[c].handoff, call'[c].recorded, log')
    <3> SUFFICES ASSUME call'[c].at = "landed"
                 PROVE  Agrees(call'[c].handoff, call'[c].recorded, log')
      OBVIOUS
    <3>1. CASE CallBegins(c)
      <4>1. \A x : Begin(c, x) => call'[c] = x
        BY <1>1 DEF Begin
      <4> QED
        BY <3>1, <4>1 DEF CallBegins, CallClaim, CallComplete, CallReview, CallBlock, NoCall
    <3>2. CASE CallStep(c)
      <4>1. VerifyHandoff(c)
        BY <3>2, LandedByReading
      <4>2. \A res : ~Return(c, res)
        BY <1>1 DEF Return, NoCall
      <4>3. log' = log /\ call'[c].handoff = log.handoffs /\ call'[c].recorded = log.implementer
        BY <1>1, <4>1, <4>2 DEF VerifyHandoff, CallType
      <4> QED
        BY <1>1, <4>3 DEF Agrees, Log
    <3> QED
      BY <1>6, <3>1, <3>2
  <2>3. \A p \in promised' : Agrees(p.handoff, p.label, log')
    <3>1. CASE promised' = promised
      BY <1>3, <3>1
    <3>2. CASE VerifyLanded(c)
      <4>1. Agrees(call[c].handoff, call[c].label, log') \/ promised' = promised
        BY <1>4, <3>2 DEF VerifyLanded, At
      <4>2. \A p \in promised' \ promised : p.handoff = call[c].handoff /\ p.label = call[c].label
        BY <3>2 DEF VerifyLanded
      <4> QED
        BY <1>3, <4>1, <4>2
    <3> QED
      BY <1>6, <3>1, <3>2, HandoffsAndReports
  <2> QED
    BY <1>4, <2>1, <2>2, <2>3 DEF EvidenceAgrees
<1> QED
  BY <1>5, <1>6 DEF Next, vars

\* A verdict on a handoff the tool reported as a success returns the card, ready,
\* to the label the tool reported.
THEOREM VerdictReturnsToLane == Spec => ChangesReturnToLane
<1> DEFINE Step ==
      \A label \in Names :
        /\ card.run = "review" /\ Promised(label) => log.implementer = label
        /\ log'.priorReviewer # log.priorReviewer /\ Promised(label)
             => card'.status = "ready" /\ card'.assignee = label
<1>1. Init => EvidenceAgrees
  BY DEF Init, EvidenceAgrees, NoCall
<1>2. TypeInv /\ EvidenceAgrees /\ [Next]_vars => EvidenceAgrees'
  BY EvidenceKept
<1>3. TypeInv /\ EvidenceAgrees /\ [Next]_vars => [Step]_vars
  <2> SUFFICES ASSUME TypeInv, EvidenceAgrees, [Next]_vars, NEW label \in Names, Promised(label)
               PROVE  /\ log.implementer = label
                      /\ log'.priorReviewer # log.priorReviewer
                           => card'.status = "ready" /\ card'.assignee = label
    OBVIOUS
  <2>1. log.implementer = label
    BY DEF Promised, EvidenceAgrees, Agrees
  <2>2. ASSUME log'.priorReviewer # log.priorReviewer
        PROVE  RequestChanges
    <3>1. log \in Log
      BY DEF TypeInv, TypeOK, KernelTypeOK
    <3>2. \A c \in Clients : RequestReview(c) => log'.priorReviewer = log.priorReviewer
      BY <3>1 DEF RequestReview, Requested, Log
    <3>3. KernelStep
      BY <2>2, <3>2, HandoffsAndReports DEF Next, vars
    <3> QED
      BY <2>2, <3>3 DEF KernelStep, SpawnWorker, SpawnReviewer, ClaimExpires, WorkerFinishes,
                        Approve, ReviewerBlocks, Promote, Unblock, RosterChanges
  <2>3. card \in Card
    BY DEF TypeInv, TypeOK, KernelTypeOK
  <2> QED
    BY <2>1, <2>2, <2>3 DEF RequestChanges, Card
<1> QED
  BY <1>1, <1>2, <1>3, TypeInvariance, PTL DEF Spec, ChangesReturnToLane

----------------------------------------------------------------------------
(* The lane a verdict returns to is nobody's to spawn. *)

\* Every write of a call is one of these transactions, taken where the kernel takes it.
LEMMA CallWrites ==
  ASSUME NEW c \in Clients, CallBegins(c) \/ CallStep(c)
  PROVE  \/ card' \in {card, Reclaimed(card)}
         \/ CanClaim(card) /\ card' = Claimed(card)
         \/ CanBlock(card) /\ card' = Blocked(card)
         \/ CanComplete(card) /\ card' = Completed(card)
         \/ Stamp(c) /\ CanAssign(card) /\ card' = Assigned(card, call[c].label)
         \/ Stamp(c) /\ card' = Assigned(Reclaimed(card), call[c].label)
         \/ /\ RequestReview(c) /\ CanRequestReview(card, CliForce(c))
            /\ card' = InReview(card, call[c].reviewer) /\ log' = Requested(card, call[c].reviewer)
<1> USE DEF Refuse, Exec
<1>1. CASE CallBegins(c)
  BY <1>1 DEF CallBegins, CallClaim, CallComplete, CallReview, CallBlock, Begin
<1>2. CASE ClaimPreflight(c) \/ ClaimWithTTL(c) \/ ClaimReread(c) \/ BlockTyped(c)
           \/ BlockUntyped(c) \/ ClaimGuard(c) \/ PostComment(c) \/ PatchDone(c)
  BY <1>2 DEF ClaimPreflight, ClaimWithTTL, ClaimReread, BlockTyped, BlockUntyped,
              ClaimGuard, PostComment, PatchDone
<1>3. CASE Preflight(c) \/ ResolveReviewer(c) \/ VerifyReviewer(c) \/ ResolveLabel(c)
           \/ RereadStamp(c) \/ VerifyHandoff(c) \/ VerifyLanded(c)
  BY <1>3 DEF Preflight, ResolveReviewer, VerifyReviewer, ResolveLabel, RereadStamp,
              VerifyHandoff, VerifyLanded
<1>4. CASE Stamp(c)
  BY <1>4 DEF Stamp
<1>5. CASE RequestReview(c)
  BY <1>5 DEF RequestReview
<1> QED
  BY <1>1, <1>2, <1>3, <1>4, <1>5 DEF CallStep

RunInv == RunIsRunning /\ ReviewRunInstalled

\* With a fixed roster a review run is a running row of an installed profile, and stays one.
LEMMA RunKept ==
  ASSUME RosterMayChange = FALSE, TypeInv, RunInv, [Next]_vars
  PROVE  RunInv'
<1>1. roster' = roster
  BY RosterStays
<1>2. card \in Card
  BY DEF TypeInv, TypeOK, KernelTypeOK
<1> USE DEF RunInv, RunIsRunning, ReviewRunInstalled, Card
<1>3. CASE card' = card
  BY <1>1, <1>3
<1>4. ASSUME NEW c \in Clients, CallBegins(c) \/ CallStep(c)
      PROVE  RunInv'
  <2>1. CASE card' \in {Claimed(card), Blocked(card), Completed(card), Reclaimed(card)}
    BY <1>1, <1>2, <2>1 DEF Claimed, Blocked, Completed, Reclaimed
  <2>2. CASE CanAssign(card) /\ card' = Assigned(card, call[c].label)
    BY <1>1, <1>2, <2>2 DEF CanAssign, Assigned
  <2>3. CASE card' = Assigned(Reclaimed(card), call[c].label)
    BY <1>1, <1>2, <2>3 DEF Assigned, Reclaimed
  <2>4. CASE card' = InReview(card, call[c].reviewer)
    BY <1>1, <1>2, <2>4 DEF InReview
  <2> QED
    BY <1>3, <1>4, <2>1, <2>2, <2>3, <2>4, CallWrites
<1>5. CASE SpawnWorker \/ SpawnReviewer \/ ClaimExpires
  BY <1>1, <1>2, <1>5 DEF SpawnWorker, SpawnReviewer, ClaimExpires
<1>6. CASE WorkerFinishes \/ Approve \/ RequestChanges \/ ReviewerBlocks
  BY <1>1, <1>2, <1>6 DEF WorkerFinishes, Approve, RequestChanges, ReviewerBlocks, Completed, Blocked
<1>7. CASE Promote \/ Unblock
  BY <1>1, <1>2, <1>7 DEF Promote, Unblock
<1> QED
  BY <1>3, <1>4, <1>5, <1>6, <1>7 DEF Next, vars, KernelStep, RosterChanges

\* With a fixed roster, the label of a reported handoff is installed nowhere, so
\* the dispatcher never spawns it, and whoever reviews the card is somebody else.
THEOREM LaneIsNotSpawned ==
  ASSUME RosterMayChange = FALSE
  PROVE  Spec => []PromisedLaneIsNotSpawned
<1>1. Init => NamesChecked /\ RunInv
  BY DEF Init, KernelInit, NamesChecked, RunInv, RunIsRunning, ReviewRunInstalled, NoCall, Resolved
<1>2. TypeInv /\ NamesChecked /\ RunInv /\ [Next]_vars => NamesChecked' /\ RunInv'
  BY NamesCheckedKept, RunKept
<1>3. NamesChecked /\ RunInv => PromisedLaneIsNotSpawned
  BY DEF NamesChecked, RunInv, ReviewRunInstalled, PromisedLaneIsNotSpawned, Promised
<1> QED
  BY <1>1, <1>2, <1>3, TypeInvariance, PTL DEF Spec

----------------------------------------------------------------------------
(* Nobody reviews their own work, and no run is taken unasked: while the calls *)
(* of all clients come one after the other (an overlapping one can claim or    *)
(* force the card between two steps, and then neither holds).                  *)

OneCallAtATime == \A c, d \in Clients : ~At(c, "idle") /\ ~At(d, "idle") => c = d

\* The card is before a reviewer, or blocked by one.
OpenReview == card.status = "review" \/ card.run = "review" \/ card.blockedIn = "review"

\* A row in review that the dispatcher may start is somebody else's than its implementer.
ReviewsOthers ==
  /\ card.blockedIn = "review" => card.status = "blocked"
  /\ OpenReview /\ card.assignee \in roster => card.assignee # log.implementer

\* What a call of ticket_request_review, or of a completion, knows of row k: a label it read
\* or stamped is still there, since only a verdict of a started reviewer changes it; and it
\* saw a running row only if it was told to take it.
StillThere(x, k) ==
  /\ x.at \in {"reviewer", "roster", "label"} /\ x.seen.assignee \notin roster => k.assignee = x.seen.assignee
  /\ x.at \in {"restamp", "handoff"} => k.assignee = x.label
Asserted(x, k) ==
  x.tool = "review" =>
    /\ x.at \in {"preflight", "verify"} \cup {"reviewer", "roster", "label", "stamp", "restamp", "handoff", "landed"}
    /\ x.seen.status = "running" /\ x.at \in {"reviewer", "roster", "label", "stamp", "handoff"} => x.force
    /\ x.at = "restamp" /\ k.status = "running" => x.force

TurnsInv == ReviewsOthers /\ \A c \in Clients : StillThere(call[c], card) /\ Asserted(call[c], card)

\* A finished or refused call knows nothing.
LEMMA ReturnedKnowsNothing ==
  ASSUME NEW x \in {[NoCall EXCEPT !.result = res] : res \in Results} \cup {NoCall}, NEW k
  PROVE  x.at = "idle" /\ x.tool = "none" /\ StillThere(x, k) /\ Asserted(x, k)
<1>1. x.at = "idle" /\ x.tool = "none"
  BY DEF NoCall
<1> QED
  BY <1>1 DEF StillThere, Asserted

\* The transactions of a call keep reviews to others than the implementer.
LEMMA CallKeepsReviews ==
  ASSUME TypeInv, NamesChecked, RunInv, ReviewsOthers, roster' = roster,
         NEW c \in Clients, CallBegins(c) \/ CallStep(c), StillThere(call[c], card)
  PROVE  ReviewsOthers'
<1>1. card \in Card /\ log \in Log
  BY DEF TypeInv, TypeOK, KernelTypeOK
<1>2. CASE card' = card /\ log' = log
  BY <1>2 DEF ReviewsOthers, OpenReview
<1>3. ASSUME RequestReview(c), CanRequestReview(card, CliForce(c)),
             card' = InReview(card, call[c].reviewer), log' = Requested(card, call[c].reviewer)
      PROVE  ReviewsOthers'
  <2>1. card.assignee = call[c].label /\ call[c].label \notin roster /\ call[c].reviewer \in roster
    BY <1>3 DEF RequestReview, At, StillThere, NamesChecked, Resolved
  <2>2. log'.implementer = card.assignee
    BY <1>1, <1>3, <2>1 DEF Requested, Implementer, Log
  <2>3. card'.assignee = call[c].reviewer /\ card'.blockedIn = card.blockedIn
    BY <1>1, <1>3 DEF InReview, Card
  <2>4. card.blockedIn # "review"
    BY <1>3 DEF CanRequestReview, ReviewsOthers
  <2> QED
    BY <2>1, <2>2, <2>3, <2>4 DEF ReviewsOthers
<1>4. CASE ~RequestReview(c)
  <2>1. log' = log
    BY <1>4, HandoffsAndReports
  <2>2. CASE card' = Reclaimed(card)
    BY <1>1, <2>1, <2>2 DEF Reclaimed, ReviewsOthers, OpenReview, Card
  <2>3. CASE CanClaim(card) /\ card' = Claimed(card)
    BY <1>1, <2>1, <2>3 DEF CanClaim, Claimed, ReviewsOthers, OpenReview, Card
  <2>4. CASE CanBlock(card) /\ card' = Blocked(card)
    BY <1>1, <2>1, <2>4 DEF Blocked, ReviewsOthers, OpenReview, Card
  <2>5. CASE CanComplete(card) /\ card' = Completed(card)
    BY <1>1, <2>1, <2>5 DEF Completed, ReviewsOthers, OpenReview, Card
  <2>6. CASE Stamp(c) /\ (card' = Assigned(card, call[c].label) \/ card' = Assigned(Reclaimed(card), call[c].label))
    <3>1. call[c].label \notin roster
      BY <2>6 DEF Stamp, At, NamesChecked, Resolved
    <3>2. card'.assignee = call[c].label
      BY <1>1, <2>6 DEF Assigned, Reclaimed, Card
    <3>3. card'.blockedIn = "review" => card'.status = "blocked"
      <4>1. Reclaimed(card).blockedIn = card.blockedIn /\ (card.status = "blocked" => Reclaimed(card) = card)
        BY <1>1 DEF Reclaimed, Card
      <4>2. \A k \in Card : \A n : Assigned(k, n).blockedIn = k.blockedIn /\ Assigned(k, n).status = k.status
        BY DEF Assigned, Card
      <4>3. Reclaimed(card) \in Card
        BY <1>1 DEF Reclaimed, Card
      <4> QED
        BY <1>1, <2>6, <4>1, <4>2, <4>3 DEF ReviewsOthers
    <3> QED
      BY <3>1, <3>2, <3>3 DEF ReviewsOthers
  <2> QED
    BY <1>2, <1>4, <2>1, <2>2, <2>3, <2>4, <2>5, <2>6, CallWrites
<1>5. CASE RequestReview(c) /\ ~(\E r \in {call[c].reviewer} : card' = InReview(card, r) /\ log' = Requested(card, r))
  <2>1. card' = card /\ log' = log
    BY <1>5 DEF RequestReview, Refuse, Exec
  <2> QED
    BY <1>2, <2>1
<1>6. CASE RequestReview(c) /\ \E r \in {call[c].reviewer} : card' = InReview(card, r) /\ log' = Requested(card, r)
  <2>1. log' # log
    <3>1. log'.handoffs = log.handoffs + 1 /\ log.handoffs \in Nat
      BY <1>1, <1>6 DEF Requested, Log
    <3> QED
      BY <3>1
  <2>2. CanRequestReview(card, CliForce(c))
    BY <1>6, <2>1 DEF RequestReview
  <2> QED
    BY <1>3, <1>6, <2>2
<1> QED
  BY <1>4, <1>5, <1>6

\* So do the dispatcher and the agents; and what a call knows of the row stays true, for no
\* reviewer is started on a label, and only a started reviewer's verdict moves it.
LEMMA KernelKeepsTurns ==
  ASSUME TypeInv, NamesChecked, RunInv, TurnsInv, roster' = roster, KernelStep, call' = call
  PROVE  TurnsInv'
<1>1. card \in Card /\ log \in Log
  BY DEF TypeInv, TypeOK, KernelTypeOK
<1>2. CASE RequestChanges
  <2>1. card.run = "review" /\ card.assignee \in roster /\ card.status = "running"
    BY <1>2 DEF RequestChanges, RunInv, RunIsRunning, ReviewRunInstalled
  <2>2. card.blockedIn # "review"
    BY <2>1 DEF TurnsInv, ReviewsOthers
  <2>3. card'.status = "ready" /\ card'.run = "none" /\ card'.blockedIn = card.blockedIn
    BY <1>1, <1>2 DEF RequestChanges, Card
  <2>4. ReviewsOthers'
    BY <2>2, <2>3 DEF ReviewsOthers, OpenReview
  <2>5. ASSUME NEW c \in Clients
        PROVE  (StillThere(call[c], card) /\ Asserted(call[c], card))'
    <3>1. StillThere(call[c], card) /\ Asserted(call[c], card)
      BY DEF TurnsInv
    <3>2. call[c].at \in {"restamp", "handoff"} => call[c].label \notin roster
      BY DEF NamesChecked, Resolved
    <3> QED
      BY <2>1, <2>3, <3>1, <3>2 DEF StillThere, Asserted
  <2> QED
    BY <2>4, <2>5 DEF TurnsInv
<1>3. CASE ~RequestChanges
  <2>1. card'.assignee = card.assignee /\ log' = log
    BY <1>1, <1>3 DEF KernelStep, SpawnWorker, SpawnReviewer, ClaimExpires, WorkerFinishes, Approve,
          ReviewerBlocks, Promote, Unblock, RosterChanges, Completed, Blocked, Card
  <2>2. card'.status = "running" => card.status = "running" \/ card.assignee \in roster
    BY <1>1, <1>3 DEF KernelStep, SpawnWorker, SpawnReviewer, ClaimExpires, WorkerFinishes, Approve,
          ReviewerBlocks, Promote, Unblock, RosterChanges, Completed, Blocked, Card
  <2>3. card'.blockedIn = "review" => card'.status = "blocked"
    BY <1>1, <1>3 DEF KernelStep, SpawnWorker, SpawnReviewer, ClaimExpires, WorkerFinishes, Approve,
          ReviewerBlocks, Promote, Unblock, RosterChanges, Completed, Blocked, Card, TurnsInv, ReviewsOthers,
          RunInv, RunIsRunning
  <2>4. OpenReview' => OpenReview
    BY <1>1, <1>3 DEF KernelStep, SpawnWorker, SpawnReviewer, ClaimExpires, WorkerFinishes, Approve,
          ReviewerBlocks, Promote, Unblock, RosterChanges, Completed, Blocked, Card, OpenReview
  <2>5. ReviewsOthers'
    BY <2>1, <2>3, <2>4 DEF TurnsInv, ReviewsOthers
  <2>6. ASSUME NEW c \in Clients
        PROVE  (StillThere(call[c], card) /\ Asserted(call[c], card))'
    <3>1. StillThere(call[c], card) /\ Asserted(call[c], card)
      BY DEF TurnsInv
    <3>2. call[c].at = "restamp" => call[c].label \notin roster
      BY DEF NamesChecked, Resolved
    <3> QED
      BY <2>1, <2>2, <3>1, <3>2 DEF StillThere, Asserted
  <2> QED
    BY <2>5, <2>6 DEF TurnsInv
<1> QED
  BY <1>2, <1>3

\* A step of a call that is under way, and what the call knows afterwards.
LEMMA CallKnows ==
  ASSUME TypeInv, NamesChecked, roster' = roster, NEW c \in Clients, CallStep(c),
         StillThere(call[c], card), Asserted(call[c], card)
  PROVE  (StillThere(call[c], card) /\ Asserted(call[c], card))'
<1>1. call \in [Clients -> CallType] /\ call[c] \in CallType /\ card \in Card
  BY DEF TypeInv, TypeOK, KernelTypeOK
<1> DEFINE Goal == (StillThere(call[c], card) /\ Asserted(call[c], card))'
<1>2. ASSUME NEW x, call' = [call EXCEPT ![c] = x], StillThere(x, card'), Asserted(x, card')
      PROVE  Goal
  <2>1. call'[c] = x
    BY <1>1, <1>2
  <2> QED
    BY <1>2, <2>1 DEF StillThere, Asserted
<1> SUFFICES Goal
  OBVIOUS
<1> HIDE DEF Goal
<1>3. \A res \in Results : Return(c, res) => Goal
  BY <1>2, ReturnedKnowsNothing DEF Return
<1>4. Refuse(c) => Goal
  BY <1>3 DEF Refuse, Results
<1>5. ASSUME NEW x, x.tool # "review", x.at \notin {"reviewer", "roster", "label", "restamp", "handoff"},
             call' = [call EXCEPT ![c] = x]
      PROVE  Goal
  <2>1. StillThere(x, card') /\ Asserted(x, card')
    BY <1>5 DEF StillThere, Asserted
  <2> QED
    BY <1>2, <1>5, <2>1
<1>6. CASE ClaimReread(c) \/ BlockUntyped(c) \/ PatchDone(c) \/ VerifyLanded(c)
  BY <1>3, <1>4, <1>6 DEF ClaimReread, BlockUntyped, PatchDone, VerifyLanded, Results
<1>7. CASE ClaimPreflight(c) \/ BlockTyped(c)
  <2>1. call[c].tool # "review"
    BY <1>7 DEF ClaimPreflight, BlockTyped, At, Asserted
  <2>2. ASSUME NEW step \in {"claim", "blockRest"}, Goto(c, step)
        PROVE  Goal
    <3> DEFINE x == [call[c] EXCEPT !.at = step]
    <3>1. x.tool = call[c].tool /\ x.at = step
      BY <1>1 DEF CallType
    <3>2. call' = [call EXCEPT ![c] = x]
      BY <1>1, <2>2 DEF Goto
    <3> HIDE DEF x
    <3> QED
      BY <1>5, <2>1, <3>1, <3>2
  <2> QED
    BY <1>3, <1>4, <1>7, <2>2 DEF ClaimPreflight, BlockTyped, Results
<1>8. CASE ClaimWithTTL(c)
  <2> DEFINE x == [call[c] EXCEPT !.at = "claimReread"]
  <2>1. x.tool # "review" /\ x.at = "claimReread"
    BY <1>1, <1>8 DEF ClaimWithTTL, At, Asserted, CallType
  <2> HIDE DEF x
  <2>2. Exec(c, Claimed(card), x) => Goal
    BY <1>3, <1>5, <2>1 DEF Exec, Return, Results
  <2> QED
    BY <1>4, <1>8, <2>2 DEF ClaimWithTTL, x
<1>9. CASE ClaimGuard(c)
  <2>1. ASSUME call' = [call EXCEPT ![c].at = "comment", ![c].force = (card.status = "running")]
        PROVE  Goal
    <3> DEFINE x == [call[c] EXCEPT !.at = "comment", !.force = (card.status = "running")]
    <3>1. x.tool # "review" /\ x.at = "comment"
      BY <1>1, <1>9 DEF ClaimGuard, At, Asserted, CallType
    <3>2. call' = [call EXCEPT ![c] = x]
      BY <1>1, <2>1 DEF CallType
    <3> HIDE DEF x
    <3> QED
      BY <1>5, <3>1, <3>2
  <2> QED
    BY <1>4, <1>9, <2>1 DEF ClaimGuard
<1>10. CASE PostComment(c)
  <2> DEFINE next == IF call[c].done THEN "patch" ELSE "preflight"
  <2>1. ASSUME call' = [call EXCEPT ![c].at = next, ![c].commented = TRUE]
        PROVE  Goal
    <3> DEFINE x == [call[c] EXCEPT !.at = next, !.commented = TRUE]
    <3>1. x.tool # "review" /\ x.at \in {"patch", "preflight"}
      BY <1>1, <1>10 DEF PostComment, At, Asserted, CallType
    <3>2. call' = [call EXCEPT ![c] = x]
      BY <1>1, <2>1 DEF CallType
    <3> HIDE DEF x
    <3> QED
      BY <1>5, <3>1, <3>2
  <2> QED
    BY <1>4, <1>10, <2>1 DEF PostComment
<1>11. CASE Preflight(c)
  <2>1. ASSUME card.status = "ready" \/ (card.status = "running" /\ call[c].force), ReadRow(c, "reviewer"), card' = card
        PROVE  Goal
    <3> DEFINE x == [call[c] EXCEPT !.at = "reviewer", !.seen = Row]
    <3>1. x.tool = call[c].tool /\ x.at = "reviewer" /\ x.seen = Row /\ x.force = call[c].force
      BY <1>1 DEF CallType
    <3>2. call' = [call EXCEPT ![c] = x]
      BY <1>1, <2>1 DEF ReadRow
    <3> HIDE DEF x
    <3>3. StillThere(x, card') /\ Asserted(x, card')
      BY <2>1, <3>1 DEF StillThere, Asserted, Row
    <3> QED
      BY <1>2, <3>2, <3>3
  <2> QED
    BY <1>4, <1>11, <2>1 DEF Preflight
<1>12. CASE ResolveReviewer(c) \/ VerifyReviewer(c)
  <2>1. ASSUME NEW r, call' = [call EXCEPT ![c].at = "roster", ![c].reviewer = r], card' = card, At(c, "reviewer")
        PROVE  Goal
    <3> DEFINE x == [call[c] EXCEPT !.at = "roster", !.reviewer = r]
    <3>1. x.tool = call[c].tool /\ x.at = "roster" /\ x.seen = call[c].seen /\ x.force = call[c].force
      BY <1>1 DEF CallType
    <3>2. call' = [call EXCEPT ![c] = x]
      BY <1>1, <2>1
    <3> HIDE DEF x
    <3>3. StillThere(x, card') /\ Asserted(x, card')
      BY <2>1, <3>1 DEF StillThere, Asserted, At
    <3> QED
      BY <1>2, <3>2, <3>3
  <2>2. ASSUME Goto(c, "label"), card' = card, At(c, "roster")
        PROVE  Goal
    <3> DEFINE x == [call[c] EXCEPT !.at = "label"]
    <3>1. x.tool = call[c].tool /\ x.at = "label" /\ x.seen = call[c].seen /\ x.force = call[c].force
      BY <1>1 DEF CallType
    <3>2. call' = [call EXCEPT ![c] = x]
      BY <1>1, <2>2 DEF Goto
    <3> HIDE DEF x
    <3>3. StillThere(x, card') /\ Asserted(x, card')
      BY <2>2, <3>1 DEF StillThere, Asserted, At
    <3> QED
      BY <1>2, <3>2, <3>3
  <2> QED
    BY <1>4, <1>12, <2>1, <2>2 DEF ResolveReviewer, VerifyReviewer
<1>13. CASE ResolveLabel(c)
  <2>1. ASSUME NEW label, label \notin roster, At(c, "label"), card' = card, NEW step,
               step = (IF call[c].seen.assignee = label THEN "handoff" ELSE "stamp"),
               call' = [call EXCEPT ![c].label = label, ![c].at = step]
        PROVE  Goal
    <3> DEFINE x == [call[c] EXCEPT !.label = label, !.at = step]
    <3>1. /\ x.tool = call[c].tool /\ x.at = step /\ x.seen = call[c].seen /\ x.force = call[c].force
          /\ x.label = label
      BY <1>1 DEF CallType
    <3>2. call' = [call EXCEPT ![c] = x]
      BY <1>1, <2>1 DEF CallType
    <3> HIDE DEF x
    <3>3. StillThere(x, card') /\ Asserted(x, card')
      BY <2>1, <3>1 DEF StillThere, Asserted, At
    <3> QED
      BY <1>2, <3>2, <3>3
  <2> QED
    BY <1>4, <1>13, <2>1 DEF ResolveLabel, LabelAccepted
<1>14. CASE Stamp(c)
  <2> DEFINE x == [call[c] EXCEPT !.at = "restamp"]
  <2>1. x.tool = call[c].tool /\ x.at = "restamp" /\ x.label = call[c].label /\ x.force = call[c].force
    BY <1>1 DEF CallType
  <2>2. At(c, "stamp")
    BY <1>14 DEF Stamp
  <2> HIDE DEF x
  <2>3. ASSUME NEW row, row.assignee = call[c].label, row.status # "running", Exec(c, row, x)
        PROVE  Goal
    <3>1. CASE card' = row /\ call' = [call EXCEPT ![c] = x]
      <4>1. StillThere(x, card') /\ Asserted(x, card')
        BY <2>1, <2>2, <2>3, <3>1 DEF StillThere, Asserted, At
      <4> QED
        BY <1>2, <3>1, <4>1
    <3>2. CASE Return(c, "error")
      BY <1>3, <3>2 DEF Results
    <3> QED
      BY <2>3, <3>1, <3>2 DEF Exec, Return
  <2>4. CanAssign(card) => Assigned(card, call[c].label).assignee = call[c].label /\ Assigned(card, call[c].label).status # "running"
    BY <1>1 DEF CanAssign, Assigned, Card
  <2>5. /\ Assigned(Reclaimed(card), call[c].label).assignee = call[c].label
        /\ Assigned(Reclaimed(card), call[c].label).status # "running"
    BY <1>1 DEF Reclaimed, Assigned, Card
  <2> QED
    BY <1>3, <1>4, <1>14, <2>3, <2>4, <2>5 DEF Stamp, x, Results
<1>15. CASE RereadStamp(c)
  <2>1. ASSUME card.assignee = call[c].label, ReadRow(c, "handoff"), card' = card, At(c, "restamp")
        PROVE  Goal
    <3> DEFINE x == [call[c] EXCEPT !.at = "handoff", !.seen = Row]
    <3>1. /\ x.tool = call[c].tool /\ x.at = "handoff" /\ x.seen = Row /\ x.force = call[c].force
          /\ x.label = call[c].label
      BY <1>1 DEF CallType
    <3>2. call' = [call EXCEPT ![c] = x]
      BY <1>1, <2>1 DEF ReadRow
    <3> HIDE DEF x
    <3>3. StillThere(x, card') /\ Asserted(x, card')
      BY <2>1, <3>1 DEF StillThere, Asserted, Row, At
    <3> QED
      BY <1>2, <3>2, <3>3
  <2> QED
    BY <1>4, <1>15, <2>1 DEF RereadStamp
<1>16. CASE RequestReview(c)
  <2> DEFINE x == [call[c] EXCEPT !.at = "verify"]
  <2>1. x.tool = call[c].tool /\ x.at = "verify"
    BY <1>1 DEF CallType
  <2> HIDE DEF x
  <2>2. ASSUME NEW row, Exec(c, row, x)
        PROVE  Goal
    <3>1. StillThere(x, card') /\ Asserted(x, card')
      BY <2>1 DEF StillThere, Asserted
    <3> QED
      BY <1>2, <1>3, <2>2, <3>1 DEF Exec, Return, Results
  <2> QED
    BY <1>4, <1>16, <2>2 DEF RequestReview, x
<1>17. CASE VerifyHandoff(c)
  <2>1. ASSUME call' = [call EXCEPT ![c].at = "landed", ![c].seen = Row,
                          ![c].recorded = log.implementer, ![c].handoff = log.handoffs]
        PROVE  Goal
    <3> DEFINE x == [call[c] EXCEPT !.at = "landed", !.seen = Row,
                                    !.recorded = log.implementer, !.handoff = log.handoffs]
    <3>1. x.tool = call[c].tool /\ x.at = "landed"
      BY <1>1 DEF CallType
    <3>2. call' = [call EXCEPT ![c] = x]
      BY <1>1, <2>1 DEF CallType
    <3> HIDE DEF x
    <3>3. StillThere(x, card') /\ Asserted(x, card')
      BY <3>1 DEF StillThere, Asserted
    <3> QED
      BY <1>2, <3>2, <3>3
  <2> QED
    BY <1>3, <1>17, <2>1 DEF VerifyHandoff, Results
<1> QED
  BY <1>6, <1>7, <1>8, <1>9, <1>10, <1>11, <1>12, <1>13, <1>14, <1>15, <1>16, <1>17 DEF CallStep

\* A new call has read nothing and may not touch the card yet.
LEMMA CallBeginsUnknowing ==
  ASSUME TypeInv, NEW c \in Clients, CallBegins(c)
  PROVE  /\ card' = card
         /\ (StillThere(call[c], card) /\ Asserted(call[c], card))'
<1> DEFINE First(x) == /\ x.at \in {"claimRead", "guard", "preflight", "blockTyped", "blockRest"}
                       /\ x.tool = "review" => x.at = "preflight"
<1>1. \E x : Begin(c, x) /\ First(x)
  <2>1. CASE CallClaim(c)
    <3>1. First([NoCall EXCEPT !.at = "claimRead", !.tool = "claim"])
      BY DEF NoCall
    <3> HIDE DEF First
    <3> QED
      BY <2>1, <3>1 DEF CallClaim
  <2>2. CASE CallComplete(c)
    <3>1. \A d \in BOOLEAN : First([NoCall EXCEPT !.at = "guard", !.tool = "complete", !.done = d])
      BY DEF NoCall
    <3> HIDE DEF First
    <3> QED
      BY <2>2, <3>1 DEF CallComplete
  <2>3. CASE CallReview(c)
    <3>1. \A r, w \in NameOrNone, f \in BOOLEAN :
            First([NoCall EXCEPT !.at = "preflight", !.tool = "review", !.force = f,
                                 !.reviewer = r, !.label = w])
      BY DEF NoCall
    <3> HIDE DEF First
    <3> QED
      BY <2>3, <3>1 DEF CallReview
  <2>4. CASE CallBlock(c)
    <3>1. \A first \in {"blockTyped", "blockRest"} : First([NoCall EXCEPT !.at = first, !.tool = "block"])
      BY DEF NoCall
    <3> HIDE DEF First
    <3> QED
      BY <2>4, <3>1 DEF CallBlock
  <2> QED
    BY <2>1, <2>2, <2>3, <2>4 DEF CallBegins
<1>2. card' = card /\ First(call'[c])
  BY <1>1 DEF Begin, TypeInv, TypeOK
<1> QED
  BY <1>2 DEF StillThere, Asserted

\* A client whose call takes a step is not idle.
LEMMA StepIsOfACall ==
  ASSUME NEW c \in Clients, CallStep(c)
  PROVE  ~At(c, "idle")
BY DEF CallStep, At, ClaimPreflight, ClaimWithTTL, ClaimReread, BlockTyped, BlockUntyped, ClaimGuard,
       PostComment, PatchDone, Preflight, ResolveReviewer, VerifyReviewer, ResolveLabel, Stamp,
       RereadStamp, RequestReview, VerifyHandoff, VerifyLanded

\* So with one call at a time, every step keeps what is known.
LEMMA TurnsKept ==
  ASSUME RosterMayChange = FALSE, TypeInv, NamesChecked, RunInv, TurnsInv, OneCallAtATime, [Next]_vars
  PROVE  TurnsInv'
<1>1. roster' = roster
  BY RosterStays
<1>2. CASE UNCHANGED vars
  BY <1>2 DEF vars, TurnsInv, ReviewsOthers, OpenReview, StillThere, Asserted
<1>3. CASE KernelStep /\ UNCHANGED <<call, started, promised>>
  BY <1>1, <1>3, KernelKeepsTurns
<1>4. ASSUME NEW c \in Clients, CallBegins(c) \/ CallStep(c)
      PROVE  TurnsInv'
  <2>1. ReviewsOthers /\ \A d \in Clients : StillThere(call[d], card) /\ Asserted(call[d], card)
    BY DEF TurnsInv
  <2>2. ReviewsOthers'
    BY <1>1, <1>4, <2>1, CallKeepsReviews
  <2>3. ASSUME NEW d \in Clients
        PROVE  (StillThere(call[d], card) /\ Asserted(call[d], card))'
    <3>1. CASE d = c /\ CallBegins(c)
      BY <3>1, CallBeginsUnknowing
    <3>2. CASE d = c /\ CallStep(c)
      BY <1>1, <2>1, <3>2, CallKnows
    <3>3. CASE d # c /\ CallBegins(c)
      <4>1. call'[d] = call[d] /\ card' = card
        BY <3>3, OthersUntouched, CallBeginsUnknowing
      <4> QED
        BY <1>1, <2>1, <4>1 DEF StillThere, Asserted
    <3>4. CASE d # c /\ CallStep(c)
      <4>1. call'[d] = call[d]
        BY <3>4, OthersUntouched
      <4>2. call[d].at = "idle"
        BY <3>4, StepIsOfACall DEF OneCallAtATime, At
      <4>3. Asserted(call[d], card)
        BY <2>1
      <4> QED
        BY <4>1, <4>2, <4>3 DEF StillThere, Asserted
    <3> QED
      BY <1>4, <3>1, <3>2, <3>3, <3>4
  <2> QED
    BY <2>2, <2>3 DEF TurnsInv
<1> QED
  BY <1>2, <1>3, <1>4 DEF Next

LEMMA TurnsInvariance ==
  ASSUME RosterMayChange = FALSE
  PROVE  Spec /\ []OneCallAtATime => []TurnsInv /\ []RunInv /\ []NamesChecked
<1>1. Init => NamesChecked /\ RunInv /\ TurnsInv
  BY DEF Init, KernelInit, NamesChecked, RunInv, RunIsRunning, ReviewRunInstalled, NoCall, Resolved,
         TurnsInv, ReviewsOthers, OpenReview, StillThere, Asserted
<1>2. TypeInv /\ NamesChecked /\ RunInv /\ [Next]_vars => NamesChecked' /\ RunInv'
  BY NamesCheckedKept, RunKept
<1>3. /\ TypeInv /\ NamesChecked /\ RunInv /\ TurnsInv /\ OneCallAtATime /\ [Next]_vars
      => TurnsInv'
  BY TurnsKept
<1> QED
  BY <1>1, <1>2, <1>3, TypeInvariance, PTL DEF Spec

\* With a fixed roster and calls that do not overlap, nobody reviews work recorded
\* as their own, whatever the dispatcher, the agents and the operator do meanwhile.
THEOREM NobodyReviewsThemselves ==
  ASSUME RosterMayChange = FALSE
  PROVE  Spec /\ []OneCallAtATime => []NoSelfReview
<1>1. RunInv /\ TurnsInv => NoSelfReview
  BY DEF RunInv, ReviewRunInstalled, TurnsInv, ReviewsOthers, OpenReview, NoSelfReview
<1> QED
  BY <1>1, TurnsInvariance, PTL

\* Under the same conditions a review request takes a running card away from
\* its run only when its caller asserted force, though the row it decides from
\* was read two steps earlier.
THEOREM RunsAreTakenByForce ==
  ASSUME RosterMayChange = FALSE
  PROVE  Spec /\ []OneCallAtATime => ForceIsAsserted
<1> DEFINE Step == \A c \in Clients :
                     Acts(c) /\ call[c].tool = "review" /\ card.status = "running" /\ card' # card
                       => call[c].force
<1>1. TypeInv /\ TurnsInv /\ [Next]_vars => [Step]_vars
  <2> SUFFICES ASSUME TypeInv, TurnsInv, [Next]_vars, NEW c \in Clients, Acts(c),
                      call[c].tool = "review", card.status = "running", card' # card
               PROVE  call[c].force
    OBVIOUS
  <2>1. CallBegins(c) \/ CallStep(c)
    BY OthersUntouched DEF Acts, Next, vars
  <2>2. CallStep(c)
    BY <2>1, CallBeginsUnknowing
  <2>3. Asserted(call[c], card)
    BY DEF TurnsInv
  <2>4. call[c].at \notin {"claim", "blockTyped", "blockRest", "patch"}
    BY <2>3 DEF Asserted
  <2>5. CASE Stamp(c)
    <3>1. At(c, "stamp") /\ call[c].seen.status = "running"
      BY <2>5 DEF Stamp, CanAssign, Refuse
    <3> QED
      BY <2>3, <3>1 DEF Asserted, At
  <2>6. CASE RequestReview(c)
    <3>1. At(c, "handoff") /\ CliForce(c)
      BY <2>6 DEF RequestReview, CanRequestReview, Refuse
    <3> QED
      BY <2>3, <3>1 DEF Asserted, At, CliForce
  <2> QED
    BY <2>2, <2>4, <2>5, <2>6 DEF CallStep, At, Refuse, ClaimPreflight, ClaimWithTTL, ClaimReread,
       BlockTyped, BlockUntyped, ClaimGuard, PostComment, PatchDone, Preflight, ResolveReviewer,
       VerifyReviewer, ResolveLabel, RereadStamp, VerifyHandoff, VerifyLanded
<1> QED
  BY <1>1, TurnsInvariance, TypeInvariance, PTL DEF Spec, ForceIsAsserted
=============================================================================
