----------------------------- MODULE LaneReturn -----------------------------
(***************************************************************************)
(* The lane-return cron (scripts/lane_return.py): each tick takes the lock *)
(* of LaneLock, walks the boards, reads the blocked cards of a board in    *)
(* one snapshot, and promotes those a reviewer blocked with a changes-     *)
(* requested verdict back to ready.  Reads are SQL, writes are CLI         *)
(* processes; lanes, reviewers and people act between any two of them.     *)
(***************************************************************************)
EXTENDS LaneLock, Sequences, Functions

CONSTANTS
  Boards,     \* the boards, in the order of `boards list`; each the sequence of its cards
  Gated,      \* cards the kernel refuses to promote: a parent is not terminal
  MaxActions, \* --max-actions
  MaxBlocks,  \* bound: times cards are blocked
  MaxFaults   \* bound: processes killed, calls that fail

Cards == UNION {Range(Boards[b]) : b \in DOMAIN Boards}

ASSUME LaneReturnAssumption ==
  /\ Boards \in Seq(Seq(Cards)) /\ Gated \subseteq Cards
  /\ MaxActions \in Nat \ {0}
  /\ {MaxBlocks, MaxFaults} \subseteq Nat

VARIABLES
  faults, \* faults so far
  card,   \* per card: status, what classify_block_event says of its newest block, and
          \* the number of that block
  blocks, \* blocks written so far
  pass,   \* per tick: where its walk is
  exit    \* per tick: exit status of the last pass

vars == <<file, at, faults, card, blocks, pass, exit>>

Status == {"ready", "running", "review", "blocked", "done"}

\* todo: what is left of the board's snapshot, pos the place of a card on its board.
\* actionable, promoted and commented are history: the blocks this pass found actionable,
\* those it promoted, those it put its audit comment on; capped: it stopped at
\* --max-actions.
NoPass == [step |-> "list", board |-> 0, todo |-> {}, actions |-> 0, failures |-> FALSE,
           dry |-> FALSE, actionable |-> {}, promoted |-> {}, commented |-> {}, capped |-> FALSE]

\* An entry is of a block that was made.
Entry == [pos : Nat, card : Cards, verdict : {"changes", "leave"}, block : 0..blocks]

TypeOK ==
  /\ LockTypeOK /\ faults \in 0..MaxFaults
  /\ card \in [Cards -> [status : Status, verdict : {"changes", "leave"}, block : 0..blocks]]
  /\ blocks \in 0..MaxBlocks
  /\ \A t \in Ticks :
       /\ pass[t].step \in {"list", "open", "card", "verify", "comment"}
       /\ pass[t].todo \subseteq Entry
       /\ pass[t].actions \in 0..MaxActions
       /\ pass[t].step \in {"verify", "comment"} => pass[t].todo # {}
  /\ exit \in [Ticks -> {"none", "zero", "one"}]

Init ==
  /\ LockInit /\ faults = 0
  /\ card = [k \in Cards |-> [status |-> "running", verdict |-> "leave", block |-> 0]]
  /\ blocks = 0
  /\ pass = [t \in Ticks |-> NoPass]
  /\ exit = [t \in Ticks |-> "none"]

----------------------------------------------------------------------------
(* What happens to the cards meanwhile: external, by anyone but the tick. *)

Becomes(k, status) == card' = [card EXCEPT ![k].status = status] /\ UNCHANGED blocks

Claimed(k)     == card[k].status = "ready"   /\ Becomes(k, "running")
HandedOver(k)  == card[k].status = "running" /\ Becomes(k, "review")
Approved(k)    == card[k].status = "review"  /\ Becomes(k, "done")
PersonMoves(k) == card[k].status = "blocked" /\ \E s \in {"ready", "review"} : Becomes(k, s)

\* A worker, a lane or a person blocks: never actionable.  A reviewer blocks with a
\* changes-requested verdict, or with anything else.
IsBlocked(k) ==
  /\ blocks < MaxBlocks
  /\ blocks' = blocks + 1
  /\ \E verdict \in IF card[k].status = "review" THEN {"changes", "leave"}
                    ELSE IF card[k].status = "running" THEN {"leave"} ELSE {} :
       card' = [card EXCEPT ![k] = [status |-> "blocked", verdict |-> verdict, block |-> blocks']]

World ==
  /\ \E k \in Cards : Claimed(k) \/ HandedOver(k) \/ Approved(k) \/ PersonMoves(k) \/ IsBlocked(k)
  /\ UNCHANGED <<file, at, faults, pass, exit>>

----------------------------------------------------------------------------
(* One pass over the boards, by the tick that holds the lock. *)

Walks(t, step) == at[t] = "holds" /\ pass[t].step = step

Continue(t, p) == pass' = [pass EXCEPT ![t] = p] /\ UNCHANGED <<file, at, exit>>

\* main returns; the finally clause releases.
Exit(t, status) ==
  /\ exit' = [exit EXCEPT ![t] = status]
  /\ Work(t)
  /\ pass' = [pass EXCEPT ![t] = NoPass]

\* A CLI call or a query fails; an exception of theirs (a timeout, a database error
\* in mid-walk) ends the pass with a traceback.
Fault(t) == faults < MaxFaults /\ faults' = faults + 1 /\ UNCHANGED <<card, blocks>>

Raises(t) ==
  /\ at[t] = "holds"
  /\ Fault(t)
  /\ Exit(t, "one")

\* The walk is at the first card of what is left.
First(todo) == CHOOSE e \in todo : \A f \in todo : e.pos <= f.pos
Rest(todo)  == todo \ {First(todo)}

\* Mutant of Failed: the failure is not counted.
FailedSilently(p) == [p EXCEPT !.step = "card", !.todo = Rest(@)]

Failed(p) == [p EXCEPT !.failures = TRUE, !.step = "card", !.todo = Rest(@)]

\* boards list: an empty or failed list ends the tick loudly (Raises).
ListBoards(t) ==
  /\ Walks(t, "list")
  /\ \E dry \in BOOLEAN : Continue(t, [pass[t] EXCEPT !.step = "open", !.dry = dry])
  /\ UNCHANGED <<faults, card, blocks>>

\* blocked_cards and latest_blocked_event: one snapshot of a board's blocked cards.
Snapshot(b) ==
  LET onBoard(i) == card[Boards[b][i]] IN
  {[pos |-> i, card |-> Boards[b][i], verdict |-> onBoard(i).verdict, block |-> onBoard(i).block] :
     i \in {j \in DOMAIN Boards[b] : onBoard(j).status = "blocked"}}

Verdicts(entries) == {[card |-> e.card, block |-> e.block] : e \in {x \in entries : x.verdict = "changes"}}

OpenBoard(t) ==
  LET b == pass[t].board + 1 IN
  /\ Walks(t, "open") /\ b \in DOMAIN Boards
  /\ \/ /\ Continue(t, [pass[t] EXCEPT !.step = "card", !.board = b, !.todo = Snapshot(b),
                          !.actionable = @ \cup Verdicts(Snapshot(b))])
        /\ UNCHANGED <<faults, card, blocks>>
     \/ /\ Fault(t)
        /\ Continue(t, [pass[t] EXCEPT !.board = b, !.failures = TRUE])

EndBoard(t) ==
  /\ Walks(t, "card") /\ pass[t].todo = {}
  /\ Continue(t, [pass[t] EXCEPT !.step = "open"])
  /\ UNCHANGED <<faults, card, blocks>>

\* A block that is not a changes-requested verdict of a reviewer is left alone.
LeaveCard(t) ==
  /\ Walks(t, "card") /\ pass[t].todo # {} /\ First(pass[t].todo).verdict # "changes"
  /\ Continue(t, [pass[t] EXCEPT !.todo = Rest(@)])
  /\ UNCHANGED <<faults, card, blocks>>

\* At the cap the rest of this board is left; the boards after it stop the same way.
StopAtCap(t) ==
  /\ Walks(t, "card") /\ pass[t].todo # {} /\ First(pass[t].todo).verdict = "changes"
  /\ pass[t].actions >= MaxActions
  /\ Continue(t, [pass[t] EXCEPT !.todo = {}, !.capped = TRUE])
  /\ UNCHANGED <<faults, card, blocks>>

CanAct(t) ==
  /\ Walks(t, "card") /\ pass[t].todo # {} /\ First(pass[t].todo).verdict = "changes"
  /\ pass[t].actions < MaxActions

DryRun(t) ==
  /\ CanAct(t) /\ pass[t].dry
  /\ Continue(t, [pass[t] EXCEPT !.actions = @ + 1, !.todo = Rest(@)])
  /\ UNCHANGED <<faults, card, blocks>>

\* promote_task, by id alone: the card must be blocked and its parents terminal by
\* now; whatever it is blocked for, it becomes ready.  The process may still be
\* killed at its deadline after the commit, which ends the pass.
Promote(t) ==
  LET k == First(pass[t].todo).card
      p == [pass[t] EXCEPT !.actions = @ + 1]
      accepted == card[k].status = "blocked" /\ k \notin Gated IN
  /\ CanAct(t) /\ ~pass[t].dry
  /\ \/ /\ accepted
        /\ card' = [card EXCEPT ![k].status = "ready"]
        /\ \/ /\ Continue(t, [p EXCEPT !.step = "verify",
                             !.promoted = @ \cup {[card |-> k, block |-> card[k].block]}])
              /\ UNCHANGED <<faults, blocks>>
           \/ /\ faults < MaxFaults /\ faults' = faults + 1
              /\ Exit(t, "one")
              /\ UNCHANGED blocks
     \/ /\ ~accepted /\ Continue(t, Failed(p))
        /\ UNCHANGED <<faults, card, blocks>>
     \/ Fault(t) /\ Continue(t, Failed(p))

\* Mutant of Verify: trusts the exit code and leaves the check to the next tick.
VerifyTrusting(t) ==
  /\ Walks(t, "verify")
  /\ Continue(t, [pass[t] EXCEPT !.step = "card", !.todo = Rest(@)])
  /\ UNCHANGED <<faults, card, blocks>>

\* Never trust the exit code: the board must say ready.
Verify(t) ==
  /\ Walks(t, "verify")
  /\ \/ /\ card[First(pass[t].todo).card].status = "ready"
        /\ Continue(t, [pass[t] EXCEPT !.step = "comment"])
     \/ /\ card[First(pass[t].todo).card].status # "ready"
        /\ Continue(t, Failed(pass[t]))
  /\ UNCHANGED <<faults, card, blocks>>

Comment(t) ==
  LET e == First(pass[t].todo) IN
  /\ Walks(t, "comment")
  /\ \/ /\ Continue(t, [pass[t] EXCEPT !.step = "card", !.todo = Rest(@),
              !.commented = @ \cup {x \in pass[t].promoted : x.card = e.card}])
        /\ UNCHANGED <<faults, card, blocks>>
     \/ Fault(t) /\ Continue(t, Failed(pass[t]))

Finish(t) ==
  /\ Walks(t, "open") /\ pass[t].board = Len(Boards)
  /\ Exit(t, IF pass[t].failures THEN "one" ELSE "zero")
  /\ UNCHANGED <<faults, card, blocks>>

PassStep(t) ==
  \/ ListBoards(t) \/ OpenBoard(t) \/ EndBoard(t) \/ LeaveCard(t) \/ StopAtCap(t) \/ DryRun(t)
  \/ Promote(t) \/ Verify(t) \/ Comment(t) \/ Finish(t)

----------------------------------------------------------------------------

StartTick(t) ==
  /\ Start(t)
  /\ exit' = [exit EXCEPT ![t] = "none"]
  /\ UNCHANGED <<faults, card, blocks, pass>>

KillTick(t) ==
  /\ Kill(t)
  /\ faults < MaxFaults /\ faults' = faults + 1
  /\ pass' = [pass EXCEPT ![t] = NoPass]
  /\ UNCHANGED <<card, blocks, exit>>

LockTick(t) ==
  /\ Acquire(t) \/ Release(t)
  /\ UNCHANGED <<faults, card, blocks, pass, exit>>

Next ==
  World \/ \E t \in Ticks : StartTick(t) \/ LockTick(t) \/ KillTick(t) \/ PassStep(t) \/ Raises(t)

Spec == Init /\ [][Next]_vars

\* Cron keeps starting ticks, and a started process runs (a killed one does not);
\* dry runs are a person's, so cron's passes are not held to be dry forever.
FairSpec ==
  /\ Spec
  /\ WF_vars(\E t \in Ticks : StartTick(t))
  /\ \A t \in Ticks :
       /\ WF_vars(LockTick(t))
       /\ WF_vars(PassStep(t))
       /\ SF_vars(ListBoards(t) /\ ~pass'[t].dry)

----------------------------------------------------------------------------
(* What the tick promises. *)

\* main returns 0.
ExitsQuietly(t) == exit[t] = "none" /\ exit'[t] = "zero"

\* A tick that exits 0 leaves no unattributed change: every promotion it made was
\* verified on the board and carries its audit comment.
QuietMeansAudited ==
  [][ \A t \in Ticks : ExitsQuietly(t) => pass[t].promoted \subseteq pass[t].commented ]_vars

\* Silence is not blindness: a tick that exits 0 below its cap has returned every
\* verdict its snapshots held, so none is still sitting in the same block.
QuietMeansReturned ==
  [][ \A t \in Ticks :
        ExitsQuietly(t) /\ ~pass[t].dry /\ ~pass[t].capped
          => \A x \in pass[t].actionable :
               ~(card[x.card].status = "blocked" /\ card[x.card].block = x.block) ]_vars

\* A changes-requested verdict goes back to its lane, unless a parent holds it.
EveryVerdictReturns ==
  \A k \in Cards \ Gated :
    LET parked == card[k].status = "blocked" /\ card[k].verdict = "changes" IN parked ~> ~parked
=============================================================================
