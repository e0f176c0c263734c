-------------------------- MODULE LaneReturnProofs --------------------------
(* The tick takes its pid file by the protocol of LaneLock, and that is       *)
(* exclusive when starts are spaced; a tick that exits 0 has told of all it    *)
(* did and has returned all it saw: for any set of ticks, boards and cards.    *)
EXTENDS LaneReturn, FiniteSetTheorems, WellFoundedInduction, TLAPS

\* At most one tick is acquiring; whoever holds the lock, or is about to write its
\* pid, made the file that is there, and nobody unlinks under a holder.
LockInv ==
  /\ LockTypeOK
  /\ \A t, u \in Ticks : at[t] \in Acquiring /\ at[u] \in Acquiring => t = u
  /\ \A t \in Ticks : at[t] \in Holding => file.by = t /\ file.pid = t
  /\ \A t \in Ticks : at[t] = "write" => file.by = t
  /\ \A t \in Ticks : at[t] = "unlink" => \A u \in Ticks : at[u] \notin Holding

\* Every system call of a tick, every start and every kill keeps the invariant.
LEMMA LockInvStep ==
  ASSUME Spaced = TRUE, LockInv, [LockNext]_lockVars
  PROVE  LockInv'
<1> USE LockAssumption DEF LockInv, LockTypeOK, Moves, Acquiring, Holding, Gone, Absent, Alive
<1>1. CASE UNCHANGED lockVars
  BY <1>1 DEF lockVars
<1>2. ASSUME NEW t \in Ticks, Start(t)
      PROVE  LockInv'
  BY <1>2 DEF Start
<1>3. ASSUME NEW t \in Ticks, TestExists(t)
      PROVE  LockInv'
  BY <1>3 DEF TestExists
<1>4. ASSUME NEW t \in Ticks, ReadPid(t)
      PROVE  LockInv'
  BY <1>4 DEF ReadPid
<1>5. ASSUME NEW t \in Ticks, Unlink(t)
      PROVE  LockInv'
  BY <1>5 DEF Unlink
<1>6. ASSUME NEW t \in Ticks, Create(t)
      PROVE  LockInv'
  BY <1>6 DEF Create
<1>7. ASSUME NEW t \in Ticks, WritePid(t)
      PROVE  LockInv'
  BY <1>7 DEF WritePid
<1>8. ASSUME NEW t \in Ticks, Work(t) \/ Release(t) \/ Kill(t)
      PROVE  LockInv'
  BY <1>8 DEF Work, Release, Kill
<1> QED
  BY <1>1, <1>2, <1>3, <1>4, <1>5, <1>6, <1>7, <1>8 DEF LockNext, Acquire

\* A holder is the one whose pid is in the file: there is at most one.
LEMMA LockInvExcludes == LockInv => SingleInstance
<1> SUFFICES ASSUME LockInv PROVE SingleInstance
  OBVIOUS
<1> DEFINE H == {t \in Ticks : at[t] \in Holding}
<1>1. H \subseteq {file.by}
  BY DEF LockInv
<1>2. IsFiniteSet({file.by}) /\ Cardinality({file.by}) = 1
  BY FS_Singleton
<1>3. Cardinality(H) <= 1
  BY <1>1, <1>2, FS_Subset
<1> QED
  BY <1>3 DEF SingleInstance

----------------------------------------------------------------------------
\* Every step of a tick, of the boards and of the killer is a step of the lock's
\* protocol or leaves its file alone.
LEMMA TickStepIsLockStep ==
  ASSUME [Next]_vars
  PROVE  [LockNext]_lockVars
<1> USE DEF lockVars, LockNext, Continue, Exit
<1>1. CASE UNCHANGED vars
  BY <1>1 DEF vars
<1>2. CASE World
  BY <1>2 DEF World
<1>3. ASSUME NEW t \in Ticks, StartTick(t) \/ LockTick(t) \/ KillTick(t)
      PROVE  [LockNext]_lockVars
  BY <1>3 DEF StartTick, LockTick, KillTick
<1>4. ASSUME NEW t \in Ticks,
             ListBoards(t) \/ OpenBoard(t) \/ EndBoard(t) \/ LeaveCard(t) \/ StopAtCap(t) \/ DryRun(t)
      PROVE  [LockNext]_lockVars
  BY <1>4 DEF ListBoards, OpenBoard, EndBoard, LeaveCard, StopAtCap, DryRun
<1>5. ASSUME NEW t \in Ticks, Promote(t)
      PROVE  [LockNext]_lockVars
  BY <1>5 DEF Promote
<1>6. ASSUME NEW t \in Ticks, Verify(t) \/ Comment(t)
      PROVE  [LockNext]_lockVars
  BY <1>6 DEF Verify, Comment
<1>7. ASSUME NEW t \in Ticks, Finish(t) \/ Raises(t)
      PROVE  [LockNext]_lockVars
  BY <1>7 DEF Finish, Raises
<1> QED
  BY <1>1, <1>2, <1>3, <1>4, <1>5, <1>6, <1>7 DEF Next, PassStep

\* Whole ticks, with everything they do on the boards, implement the protocol of the
\* pid file: every way out of the walk goes through release or through a kill.
THEOREM TickTakesTheLock == Spec => LockSpec
<1>1. Init => LockInit
  BY DEF Init
<1> QED
  BY <1>1, TickStepIsLockStep, PTL DEF Spec, LockSpec

\* With spaced starts, at most one tick ever works the boards, whatever is killed,
\* whatever fails and whatever a killed tick leaves in the pid file.
THEOREM SpacedIsExclusive ==
  ASSUME Spaced = TRUE
  PROVE  Spec => []SingleInstance
<1>1. LockInit => LockInv
  BY LockAssumption DEF LockInit, LockInv, LockTypeOK, Absent, Acquiring, Holding, Gone
<1>2. LockInv /\ [LockNext]_lockVars => LockInv'
  BY LockInvStep
<1> QED
  BY <1>1, <1>2, TickTakesTheLock, LockInvExcludes, PTL DEF LockSpec
----------------------------------------------------------------------------
(* What a quiet exit is worth. *)

Found == [card : Cards, block : Nat]
Entries == [pos : Nat, card : Cards, verdict : {"changes", "leave"}, block : Nat]
Passes ==
  [step : {"list", "open", "card", "verify", "comment"}, board : Nat, todo : SUBSET Entries,
   actions : Nat, failures : BOOLEAN, dry : BOOLEAN, actionable : SUBSET Found,
   promoted : SUBSET Found, commented : SUBSET Found, capped : BOOLEAN]

\* On these cards, the card is not in this block any more.
Moved(x, cards) == ~(cards[x.card].status = "blocked" /\ cards[x.card].block = x.block)

\* Unless a failure has been counted, a promotion is commented or about to be.
Audited(p) ==
  ~p.failures => \A x \in p.promoted :
                   x \in p.commented \/ (p.step \in {"verify", "comment"} /\ x.card = First(p.todo).card)

\* Unless a failure, a dry run or the cap accounts for it, a verdict found is returned or
\* still to come.
Pending(x, todo) == \E e \in todo : e.verdict = "changes" /\ e.card = x.card /\ e.block = x.block
Returning(p, cards) ==
  /\ p.step \in {"list", "open"} => p.todo = {}
  /\ p.step = "list" => p.actionable = {}
  /\ p.step = "comment" => Moved(First(p.todo), cards)
  /\ ~p.failures /\ ~p.dry /\ ~p.capped => \A x \in p.actionable : Moved(x, cards) \/ Pending(x, p.todo)

\* What is known of a pass when n blocks have been written.
PassIsSane(p, n) ==
  /\ p \in Passes /\ p.actions <= MaxActions
  /\ \A x \in p.actionable : x.block <= n
  /\ \A e \in p.todo : e.block <= n
  /\ p.step \in {"verify", "comment"} => p.todo # {}

\* Blocks are numbered as they are written, so none found is newer than the newest.
Sane ==
  /\ card \in [Cards -> [status : Status, verdict : {"changes", "leave"}, block : Nat]]
  /\ blocks \in 0..MaxBlocks /\ \A k \in Cards : card[k].block <= blocks
  /\ faults \in 0..MaxFaults
  /\ pass \in [Ticks -> Passes] /\ exit \in [Ticks -> {"none", "zero", "one"}]
  /\ \A t \in Ticks : PassIsSane(pass[t], blocks)

QuietInv == \A t \in Ticks : Audited(pass[t]) /\ Returning(pass[t], card)

\* A set of numbers that is not empty has a least one.
LEMMA LeastOfNats ==
  ASSUME NEW T \in SUBSET Nat, T # {}
  PROVE  \E x \in T : \A y \in T : x <= y
<1> DEFINE R == OpToRel(<, Nat)
<1>1. IsWellFoundedOn(R, Nat)
  BY NatLessThanWellFounded
<1>2. \A x, y \in Nat : <<y, x>> \in R <=> y < x
  BY DEF OpToRel
<1> HIDE DEF R
<1>3. PICK x \in T : \A y \in T : ~(<<y, x>> \in R)
  BY <1>1, WFMin
<1>4. \A y \in T : ~(y < x)
  BY <1>2, <1>3
<1> QED
  BY <1>4

\* The walk is at one of the cards that are left.
LEMMA FirstIsLeft ==
  ASSUME NEW todo \in SUBSET Entries, todo # {}
  PROVE  First(todo) \in todo
<1> DEFINE places == {e.pos : e \in todo}
<1>1. places \in SUBSET Nat /\ places # {}
  BY DEF Entries
<1>2. PICK n \in places : \A m \in places : n <= m
  BY <1>1, LeastOfNats
<1>3. \E e \in todo : \A f \in todo : e.pos <= f.pos
  BY <1>2
<1> QED
  BY <1>3 DEF First

\* A snapshot has the blocked cards of the board in their blocks.
LEMMA SnapshotIsSane ==
  ASSUME Sane, NEW b \in DOMAIN Boards
  PROVE  /\ Snapshot(b) \in SUBSET Entries
         /\ Verdicts(Snapshot(b)) \in SUBSET Found
         /\ \A x \in Verdicts(Snapshot(b)) : x.block <= blocks /\ Pending(x, Snapshot(b))
         /\ \A e \in Snapshot(b) : e.block <= blocks
<1>1. \A e \in Snapshot(b) : e \in Entries /\ e.block <= blocks
  <2> SUFFICES ASSUME NEW i \in DOMAIN Boards[b], NEW e,
                      e = [pos |-> i, card |-> Boards[b][i], verdict |-> card[Boards[b][i]].verdict,
                           block |-> card[Boards[b][i]].block]
               PROVE  e \in Entries /\ e.block <= blocks
    BY DEF Snapshot
  <2>1. Boards[b][i] \in Cards
    BY DEF Cards, Range
  <2>2. i \in Nat
    BY LaneReturnAssumption
  <2> QED
    BY <2>1, <2>2 DEF Sane, Entries
<1>2. ASSUME NEW x \in Verdicts(Snapshot(b))
      PROVE  x \in Found /\ x.block <= blocks /\ Pending(x, Snapshot(b))
  <2>1. PICK e \in Snapshot(b) : e.verdict = "changes" /\ x = [card |-> e.card, block |-> e.block]
    BY DEF Verdicts
  <2> QED
    BY <1>1, <2>1 DEF Entries, Found, Pending
<1> QED
  BY <1>1, <1>2

\* Every step leaves the blocks counted and the cards sane, and no step puts a card back
\* into a block it has left.
LEMMA CardsMove ==
  ASSUME Sane, [Next]_vars
  PROVE  /\ card' \in [Cards -> [status : Status, verdict : {"changes", "leave"}, block : Nat]]
         /\ blocks' \in 0..MaxBlocks /\ blocks <= blocks' /\ \A k \in Cards : card'[k].block <= blocks'
         /\ \A k \in Cards, n \in Nat :
              n <= blocks /\ card'[k].status = "blocked" /\ card'[k].block = n
                => card[k].status = "blocked" /\ card[k].block = n
<1> DEFINE CardRec == [status : Status, verdict : {"changes", "leave"}, block : Nat]
           Good == /\ card' \in [Cards -> CardRec]
                   /\ blocks' \in 0..MaxBlocks /\ blocks <= blocks' /\ \A k \in Cards : card'[k].block <= blocks'
                   /\ \A k \in Cards, n \in Nat :
                        n <= blocks /\ card'[k].status = "blocked" /\ card'[k].block = n
                          => card[k].status = "blocked" /\ card[k].block = n
<1>0. /\ card \in [Cards -> CardRec] /\ \A k \in Cards : card[k].block <= blocks
      /\ blocks \in 0..MaxBlocks /\ blocks \in Nat /\ MaxBlocks \in Nat
  BY LaneReturnAssumption DEF Sane
<1>1. CASE card' = card /\ blocks' = blocks
  BY <1>0, <1>1
<1>2. ASSUME NEW k \in Cards, NEW status \in Status \ {"blocked"}, blocks' = blocks,
             card' = [card EXCEPT ![k].status = status]
      PROVE  Good
  <2>1. card' \in [Cards -> CardRec]
    BY <1>0, <1>2
  <2>2. \A j \in Cards : card'[j].block = card[j].block /\ (card'[j].status = "blocked" => card[j].status = "blocked")
    BY <1>0, <1>2
  <2> QED
    BY <1>0, <1>2, <2>1, <2>2
<1>3. ASSUME NEW k \in Cards, NEW verdict \in {"changes", "leave"}, blocks' = blocks + 1, blocks < MaxBlocks,
             card' = [card EXCEPT ![k] = [status |-> "blocked", verdict |-> verdict, block |-> blocks']]
      PROVE  Good
  <2>1. card' \in [Cards -> CardRec]
    BY <1>0, <1>3 DEF Status
  <2>2. \A j \in Cards : card'[j].block = IF j = k THEN blocks + 1 ELSE card[j].block
    BY <1>0, <1>3
  <2>3. \A j \in Cards \ {k} : card'[j] = card[j]
    BY <1>0, <1>3
  <2> QED
    BY <1>0, <1>3, <2>1, <2>2, <2>3
<1>4. CASE World
  <2>1. PICK k \in Cards : Claimed(k) \/ HandedOver(k) \/ Approved(k) \/ PersonMoves(k) \/ IsBlocked(k)
    BY <1>4 DEF World
  <2>2. CASE IsBlocked(k)
    BY <1>3, <2>2 DEF IsBlocked
  <2>3. CASE Claimed(k) \/ HandedOver(k) \/ Approved(k) \/ PersonMoves(k)
    BY <1>2, <2>3 DEF Claimed, HandedOver, Approved, PersonMoves, Becomes, Status
  <2> QED
    BY <2>1, <2>2, <2>3
<1>5. ASSUME NEW t \in Ticks, Promote(t)
      PROVE  Good
  <2>1. First(pass[t].todo).card \in Cards
    <3>1. pass[t].todo \in SUBSET Entries /\ pass[t].todo # {}
      BY <1>5 DEF Promote, CanAct, Sane, Passes
    <3> QED
      BY <3>1, FirstIsLeft DEF Entries
  <2>2. blocks' = blocks
    BY <1>5 DEF Promote, Fault
  <2>3. card' = card \/ card' = [card EXCEPT ![First(pass[t].todo).card].status = "ready"]
    BY <1>5 DEF Promote, Fault
  <2> QED
    BY <1>1, <1>2, <2>1, <2>2, <2>3 DEF Status
<1>6. ASSUME NEW t \in Ticks, StartTick(t) \/ LockTick(t) \/ KillTick(t) \/ Raises(t) \/ (PassStep(t) /\ ~Promote(t))
      PROVE  card' = card /\ blocks' = blocks
  BY <1>6 DEF StartTick, LockTick, KillTick, Raises, PassStep, ListBoards, OpenBoard, EndBoard, LeaveCard,
              StopAtCap, DryRun, Verify, Comment, Finish, Fault
<1> QED
  BY <1>1, <1>4, <1>5, <1>6 DEF Next, PassStep, vars

\* So what has moved, and what was found, stays so.
LEMMA MovedStays ==
  ASSUME Sane, [Next]_vars
  PROVE  /\ \A p : PassIsSane(p, blocks) /\ Returning(p, card) => Returning(p, card')
         /\ \A t \in Ticks : PassIsSane(pass[t], blocks)
         /\ blocks <= blocks' /\ blocks \in Nat /\ blocks' \in Nat
<1>1. ASSUME NEW x, x.card \in Cards, x.block \in Nat, x.block <= blocks, Moved(x, card)
      PROVE  Moved(x, card')
  BY <1>1, CardsMove DEF Moved
<1>2. ASSUME NEW p, PassIsSane(p, blocks), Returning(p, card)
      PROVE  Returning(p, card')
  <2>1. p.todo \in SUBSET Entries /\ p.actionable \in SUBSET Found
    BY <1>2 DEF PassIsSane, Passes
  <2>2. p.step = "comment" => Moved(First(p.todo), card')
    <3> SUFFICES ASSUME p.step = "comment" PROVE Moved(First(p.todo), card')
      OBVIOUS
    <3>1. First(p.todo) \in p.todo
      BY <1>2, <2>1, FirstIsLeft DEF PassIsSane
    <3> QED
      BY <1>1, <1>2, <2>1, <3>1 DEF Returning, Entries, PassIsSane
  <2>3. \A x \in p.actionable : Moved(x, card) => Moved(x, card')
    BY <1>1, <1>2, <2>1 DEF Found, PassIsSane
  <2> QED
    BY <1>2, <2>2, <2>3 DEF Returning
<1> QED
  BY <1>2, CardsMove DEF Sane

\* A pass that starts over knows nothing.
LEMMA NoPassIsQuiet ==
  /\ PassIsSane(NoPass, blocks) /\ Audited(NoPass) /\ \A cards : Returning(NoPass, cards)
  /\ NoPass.step = "list"
<1>1. /\ NoPass \in Passes /\ NoPass.actions <= MaxActions /\ NoPass.actionable = {} /\ NoPass.promoted = {} /\ NoPass.todo = {}
      /\ NoPass.step = "list"
  BY LaneReturnAssumption DEF NoPass, Passes
<1> QED
  BY <1>1 DEF PassIsSane, Audited, Returning

\* A failure accounts for everything.
LEMMA FailedIsQuiet ==
  ASSUME NEW p, PassIsSane(p, blocks), NEW a \in 0..MaxActions
  PROVE  LET q == Failed([p EXCEPT !.actions = a]) IN
         PassIsSane(q, blocks) /\ Audited(q) /\ \A cards : Returning(q, cards)
<1> DEFINE q == Failed([p EXCEPT !.actions = a])
<1>0. a \in Nat /\ a <= MaxActions
  BY LaneReturnAssumption
<1>1. /\ q \in Passes /\ q.actions <= MaxActions
      /\ q.failures /\ q.step = "card" /\ q.actionable = p.actionable
      /\ q.todo \subseteq p.todo
  BY <1>0 DEF PassIsSane, Passes, Failed, Rest
<1> HIDE DEF q
<1>2. PassIsSane(q, blocks) /\ Audited(q) /\ \A cards : Returning(q, cards)
  BY <1>1 DEF PassIsSane, Audited, Returning
<1> QED
  BY <1>2 DEF q

\* Every step of a tick leaves its pass sane, and all it did and saw accounted for.
LEMMA PassAdvances ==
  ASSUME Sane, QuietInv, NEW t \in Ticks, [Next]_vars,
         StartTick(t) \/ LockTick(t) \/ KillTick(t) \/ PassStep(t) \/ Raises(t)
  PROVE  \/ pass' = pass
         \/ \E q : /\ pass' = [pass EXCEPT ![t] = q]
                   /\ PassIsSane(q, blocks) /\ Audited(q) /\ Returning(q, card')
<1> DEFINE p == pass[t]
           Quiet(q) == PassIsSane(q, blocks) /\ Audited(q) /\ Returning(q, card')
           Goal == pass' = pass \/ \E q : pass' = [pass EXCEPT ![t] = q] /\ Quiet(q)
<1>1. /\ p \in Passes /\ PassIsSane(p, blocks) /\ Audited(p) /\ Returning(p, card) /\ Returning(p, card')
      /\ pass \in [Ticks -> Passes]
  BY MovedStays DEF Sane, QuietInv
<1>2. Exit(t, "one") \/ Exit(t, "zero") \/ KillTick(t) => Goal
  BY NoPassIsQuiet DEF Exit, KillTick
<1>3. Continue(t, Failed(p)) => Goal
  <2>1. p.actions \in 0..MaxActions /\ p = [p EXCEPT !.actions = p.actions]
    BY <1>1, LaneReturnAssumption DEF Passes, PassIsSane
  <2>2. Quiet(Failed(p))
    BY <1>1, <2>1, FailedIsQuiet
  <2> HIDE DEF Quiet
  <2> QED
    BY <2>2 DEF Continue
<1>4. CASE StartTick(t) \/ LockTick(t)
  BY <1>4 DEF StartTick, LockTick
<1>5. CASE Raises(t) \/ Finish(t) \/ KillTick(t)
  BY <1>2, <1>5 DEF Raises, Finish
<1>6. CASE ListBoards(t)
  <2>1. PICK dry \in BOOLEAN : Continue(t, [p EXCEPT !.step = "open", !.dry = dry]) /\ p.step = "list"
    BY <1>6 DEF ListBoards, Walks
  <2> DEFINE q == [p EXCEPT !.step = "open", !.dry = dry]
  <2>2. /\ q \in Passes /\ q.actions = p.actions /\ q.step = "open" /\ q.todo = p.todo /\ q.actionable = p.actionable
        /\ q.promoted = p.promoted /\ q.commented = p.commented /\ q.failures = p.failures
    BY <1>1 DEF Passes
  <2>3. pass' = [pass EXCEPT ![t] = q]
    BY <2>1 DEF Continue
  <2> HIDE DEF q
  <2>4. Quiet(q)
    BY <1>1, <2>1, <2>2 DEF PassIsSane, Audited, Returning
  <2> QED
    BY <2>3, <2>4
<1>7. CASE OpenBoard(t)
  <2> DEFINE b == p.board + 1
             snapshot == Snapshot(b)
             found == Verdicts(snapshot)
  <2>1. p.step = "open" /\ b \in DOMAIN Boards
    BY <1>7 DEF OpenBoard, Walks
  <2>2. /\ snapshot \in SUBSET Entries /\ found \in SUBSET Found
        /\ \A x \in found : x.block <= blocks /\ Pending(x, snapshot)
        /\ \A e \in snapshot : e.block <= blocks
    BY <2>1, SnapshotIsSane
  <2>3. b \in Nat
    BY <2>1, LaneReturnAssumption
  <2>4. CASE Continue(t, [p EXCEPT !.step = "card", !.board = b, !.todo = snapshot,
                                   !.actionable = @ \cup found])
    <3> HIDE DEF b, snapshot, found
    <3> DEFINE q == [p EXCEPT !.step = "card", !.board = b, !.todo = snapshot, !.actionable = @ \cup found]
    <3>1. /\ q \in Passes /\ q.actions = p.actions /\ q.step = "card" /\ q.todo = snapshot /\ q.actionable = p.actionable \cup found
          /\ q.promoted = p.promoted /\ q.commented = p.commented /\ q.failures = p.failures
          /\ q.dry = p.dry /\ q.capped = p.capped
      BY <1>1, <2>2, <2>3 DEF Passes
    <3>2. pass' = [pass EXCEPT ![t] = q]
      BY <2>4 DEF Continue
    <3> HIDE DEF q
    <3>3. PassIsSane(q, blocks) /\ Audited(q)
      BY <1>1, <2>1, <2>2, <3>1 DEF PassIsSane, Audited
    <3>4. Returning(q, card')
      <4>1. p.todo = {}
        BY <1>1, <2>1 DEF Returning
      <4>2. ~p.failures /\ ~p.dry /\ ~p.capped => \A x \in p.actionable : Moved(x, card')
        BY <1>1, <4>1 DEF Returning, Pending
      <4> QED
        BY <2>2, <3>1, <4>2 DEF Returning
    <3> QED
      BY <3>2, <3>3, <3>4
  <2>5. CASE Continue(t, [p EXCEPT !.board = b, !.failures = TRUE])
    <3> HIDE DEF b
    <3> DEFINE q == [p EXCEPT !.board = b, !.failures = TRUE]
    <3>1. /\ q \in Passes /\ q.actions = p.actions /\ q.step = p.step /\ q.todo = p.todo /\ q.actionable = p.actionable /\ q.failures
      BY <1>1, <2>3 DEF Passes
    <3>2. pass' = [pass EXCEPT ![t] = q]
      BY <2>5 DEF Continue
    <3> HIDE DEF q
    <3>3. Quiet(q)
      BY <1>1, <2>1, <3>1 DEF PassIsSane, Audited, Returning
    <3> QED
      BY <3>2, <3>3
  <2> QED
    BY <1>7, <2>4, <2>5 DEF OpenBoard
<1>8. CASE EndBoard(t)
  <2>1. Continue(t, [p EXCEPT !.step = "open"]) /\ p.todo = {} /\ p.step = "card"
    BY <1>8 DEF EndBoard, Walks
  <2> DEFINE q == [p EXCEPT !.step = "open"]
  <2>2. /\ q \in Passes /\ q.actions = p.actions /\ q.step = "open" /\ q.todo = p.todo /\ q.actionable = p.actionable
        /\ q.promoted = p.promoted /\ q.commented = p.commented /\ q.failures = p.failures
        /\ q.dry = p.dry /\ q.capped = p.capped
    BY <1>1 DEF Passes
  <2>3. pass' = [pass EXCEPT ![t] = q]
    BY <2>1 DEF Continue
  <2> HIDE DEF q
  <2>4. Quiet(q)
    BY <1>1, <2>1, <2>2 DEF PassIsSane, Audited, Returning
  <2> QED
    BY <2>3, <2>4
<1>9. CASE LeaveCard(t)
  <2>1. Continue(t, [p EXCEPT !.todo = Rest(@)]) /\ First(p.todo).verdict # "changes" /\ p.step = "card"
    BY <1>9 DEF LeaveCard, Walks
  <2> DEFINE q == [p EXCEPT !.todo = Rest(@)]
  <2>2. /\ q \in Passes /\ q.actions = p.actions /\ q.step = "card" /\ q.todo = Rest(p.todo) /\ q.actionable = p.actionable
        /\ q.promoted = p.promoted /\ q.commented = p.commented /\ q.failures = p.failures
        /\ q.dry = p.dry /\ q.capped = p.capped
    BY <1>1, <2>1 DEF Passes, Rest
  <2>3. pass' = [pass EXCEPT ![t] = q]
    BY <2>1 DEF Continue
  <2> HIDE DEF q
  <2>4. \A x : Pending(x, p.todo) => Pending(x, Rest(p.todo))
    BY <2>1 DEF Pending, Rest
  <2>5. Quiet(q)
    BY <1>1, <2>1, <2>2, <2>4 DEF PassIsSane, Audited, Returning, Rest
  <2> QED
    BY <2>3, <2>5
<1>10. CASE StopAtCap(t)
  <2>1. Continue(t, [p EXCEPT !.todo = {}, !.capped = TRUE]) /\ p.step = "card"
    BY <1>10 DEF StopAtCap, Walks
  <2> DEFINE q == [p EXCEPT !.todo = {}, !.capped = TRUE]
  <2>2. /\ q \in Passes /\ q.actions = p.actions /\ q.step = "card" /\ q.todo = {} /\ q.actionable = p.actionable
        /\ q.promoted = p.promoted /\ q.commented = p.commented /\ q.failures = p.failures
        /\ q.capped
    BY <1>1, <2>1 DEF Passes
  <2>3. pass' = [pass EXCEPT ![t] = q]
    BY <2>1 DEF Continue
  <2> HIDE DEF q
  <2>4. Quiet(q)
    BY <1>1, <2>1, <2>2 DEF PassIsSane, Audited, Returning
  <2> QED
    BY <2>3, <2>4
<1>11. CASE DryRun(t)
  <2>1. /\ Continue(t, [p EXCEPT !.actions = @ + 1, !.todo = Rest(@)]) /\ p.dry /\ p.step = "card"
        /\ p.actions < MaxActions
    BY <1>11 DEF DryRun, CanAct, Walks
  <2> DEFINE q == [p EXCEPT !.actions = @ + 1, !.todo = Rest(@)]
  <2>0. p.actions + 1 \in Nat /\ p.actions + 1 <= MaxActions
    BY <1>1, <2>1, LaneReturnAssumption DEF Passes
  <2>2. /\ q \in Passes /\ q.actions <= MaxActions /\ q.step = "card" /\ q.todo = Rest(p.todo) /\ q.actionable = p.actionable
        /\ q.promoted = p.promoted /\ q.commented = p.commented /\ q.failures = p.failures
        /\ q.dry
    BY <1>1, <2>0, <2>1 DEF Passes, Rest
  <2>3. pass' = [pass EXCEPT ![t] = q]
    BY <2>1 DEF Continue
  <2> HIDE DEF q
  <2>4. Quiet(q)
    BY <1>1, <2>1, <2>2 DEF PassIsSane, Audited, Returning, Rest
  <2> QED
    BY <2>3, <2>4
<1>12. CASE Promote(t)
  <2> DEFINE k == First(p.todo).card
             x == [card |-> k, block |-> card[k].block]
             moved == [p EXCEPT !.actions = @ + 1]
  <2>1. p.step = "card" /\ p.todo # {} /\ p.todo \in SUBSET Entries /\ p.actions + 1 \in 0..MaxActions
    BY <1>1, <1>12, LaneReturnAssumption DEF Promote, CanAct, Walks, Passes
  <2>2. k \in Cards
    BY <2>1, FirstIsLeft DEF Entries
  <2>3. x \in Found
    BY <2>2 DEF Sane, Found
  <2>4. Continue(t, Failed(moved)) => Goal
    <3>1. Quiet(Failed([p EXCEPT !.actions = p.actions + 1]))
      BY <1>1, <2>1, FailedIsQuiet
    <3> HIDE DEF Quiet
    <3> QED
      BY <3>1 DEF Continue
  <2>5. ASSUME Continue(t, [moved EXCEPT !.step = "verify", !.promoted = @ \cup {x}])
        PROVE  Goal
    <3> DEFINE q == [moved EXCEPT !.step = "verify", !.promoted = @ \cup {x}]
    <3> HIDE DEF x, k
    <3>1. /\ q \in Passes /\ q.actions <= MaxActions /\ q.step = "verify" /\ q.todo = p.todo /\ q.actionable = p.actionable
          /\ q.promoted = p.promoted \cup {x} /\ q.commented = p.commented /\ q.failures = p.failures
          /\ q.dry = p.dry /\ q.capped = p.capped
      <4>1. p.actions + 1 \in Nat /\ p.actions + 1 <= MaxActions
        BY <2>1, LaneReturnAssumption
      <4>2. p \in Passes
        BY <1>1
      <4> QED
        BY <2>1, <2>3, <4>1, <4>2 DEF Passes
    <3>2. pass' = [pass EXCEPT ![t] = q]
      BY <2>5 DEF Continue
    <3> HIDE DEF q
    <3>3. x.card = First(p.todo).card
      BY DEF x, k
    <3>4. Quiet(q)
      BY <1>1, <2>1, <3>1, <3>3 DEF PassIsSane, Audited, Returning
    <3> QED
      BY <3>2, <3>4
  <2> QED
    BY <1>2, <1>12, <2>4, <2>5 DEF Promote
<1>13. CASE Verify(t)
  <2>1. card' = card /\ p.step = "verify" /\ p.todo # {}
    BY <1>1, <1>13 DEF Verify, Walks, PassIsSane
  <2>2. ASSUME card[First(p.todo).card].status = "ready", Continue(t, [p EXCEPT !.step = "comment"])
        PROVE  Goal
    <3> DEFINE q == [p EXCEPT !.step = "comment"]
    <3>1. /\ q \in Passes /\ q.actions = p.actions /\ q.step = "comment" /\ q.todo = p.todo /\ q.actionable = p.actionable
          /\ q.promoted = p.promoted /\ q.commented = p.commented /\ q.failures = p.failures
          /\ q.dry = p.dry /\ q.capped = p.capped
      BY <1>1 DEF Passes
    <3>2. pass' = [pass EXCEPT ![t] = q]
      BY <2>2 DEF Continue
    <3> HIDE DEF q
    <3>3. Moved(First(p.todo), card')
      BY <2>1, <2>2 DEF Moved
    <3>4. Quiet(q)
      BY <1>1, <2>1, <3>1, <3>3 DEF PassIsSane, Audited, Returning
    <3> QED
      BY <3>2, <3>4
  <2> QED
    BY <1>3, <1>13, <2>2 DEF Verify
<1>14. CASE Comment(t)
  <2> DEFINE e == First(p.todo)
             told == {x \in p.promoted : x.card = e.card}
  <2>1. card' = card /\ p.step = "comment"
    BY <1>14 DEF Comment, Walks, Fault
  <2>2. ASSUME Continue(t, [p EXCEPT !.step = "card", !.todo = Rest(@), !.commented = @ \cup told])
        PROVE  Goal
    <3> DEFINE q == [p EXCEPT !.step = "card", !.todo = Rest(@), !.commented = @ \cup told]
    <3>0. told \subseteq p.promoted /\ \A x \in p.promoted : x.card = First(p.todo).card => x \in told
      OBVIOUS
    <3> HIDE DEF told
    <3>1. /\ q \in Passes /\ q.actions = p.actions /\ q.step = "card" /\ q.todo = Rest(p.todo) /\ q.actionable = p.actionable
          /\ q.promoted = p.promoted /\ q.commented = p.commented \cup told /\ q.failures = p.failures
          /\ q.dry = p.dry /\ q.capped = p.capped
      BY <1>1, <3>0 DEF Passes, Rest
    <3>2. pass' = [pass EXCEPT ![t] = q]
      BY <2>2 DEF Continue
    <3> HIDE DEF q
    <3>3. PassIsSane(q, blocks) /\ Audited(q)
      BY <1>1, <2>1, <3>0, <3>1 DEF PassIsSane, Audited, Rest
    <3>4. \A x : Pending(x, p.todo) => Pending(x, Rest(p.todo)) \/ Moved(x, card')
      BY <1>1, <2>1 DEF Pending, Rest, Returning, Moved
    <3>5. Returning(q, card')
      BY <1>1, <3>1, <3>4 DEF Returning
    <3> QED
      BY <3>2, <3>3, <3>5
  <2> QED
    BY <1>3, <1>14, <2>2 DEF Comment
<1> QED
  BY <1>2, <1>4, <1>5, <1>6, <1>7, <1>8, <1>9, <1>10, <1>11, <1>12, <1>13, <1>14 DEF PassStep

\* A sane pass stays sane while blocks are written.
LEMMA SaneStays ==
  ASSUME Sane, [Next]_vars, NEW p, PassIsSane(p, blocks)
  PROVE  PassIsSane(p, blocks')
<1>1. /\ blocks <= blocks' /\ blocks \in Nat /\ blocks' \in Nat
  BY MovedStays
<1>2. p \in Passes /\ p.actions <= MaxActions /\ (p.step \in {"verify", "comment"} => p.todo # {})
  BY DEF PassIsSane
<1>3. ASSUME NEW x \in p.actionable PROVE x.block <= blocks'
  <2>1. x.block \in Nat /\ x.block <= blocks
    BY <1>2 DEF PassIsSane, Passes, Found
  <2> QED
    BY <1>1, <2>1
<1>4. ASSUME NEW e \in p.todo PROVE e.block <= blocks'
  <2>1. e.block \in Nat /\ e.block <= blocks
    BY <1>2 DEF PassIsSane, Passes, Entries
  <2> QED
    BY <1>1, <2>1
<1> QED
  BY <1>2, <1>3, <1>4 DEF PassIsSane

\* No step goes beyond the faults there may be.
LEMMA FaultsAreBounded ==
  ASSUME Sane, [Next]_vars
  PROVE  faults' \in 0..MaxFaults
<1>1. faults \in 0..MaxFaults /\ MaxFaults \in Nat
  BY LaneReturnAssumption DEF Sane
<1>2. CASE UNCHANGED vars \/ World
  BY <1>1, <1>2 DEF vars, World
<1>3. ASSUME NEW t \in Ticks, StartTick(t) \/ LockTick(t) \/ KillTick(t) \/ PassStep(t) \/ Raises(t)
      PROVE  faults' = faults \/ (faults < MaxFaults /\ faults' = faults + 1)
  BY <1>3 DEF StartTick, LockTick, KillTick, Raises, PassStep, ListBoards, OpenBoard, EndBoard, LeaveCard,
              StopAtCap, DryRun, Promote, Verify, Comment, Finish, Fault
<1> QED
  BY <1>1, <1>2, <1>3 DEF Next

\* Every step keeps the invariant: a pass stands still or moves as one of its tick does.
LEMMA QuietStep ==
  ASSUME Sane, QuietInv, [Next]_vars
  PROVE  Sane' /\ QuietInv'
<1> DEFINE Quiet(q) == PassIsSane(q, blocks') /\ Audited(q) /\ Returning(q, card')
<1>1. \A t \in Ticks : Quiet(pass[t])
  BY MovedStays, SaneStays DEF Sane, QuietInv
<1>2. pass \in [Ticks -> Passes] /\ exit \in [Ticks -> {"none", "zero", "one"}]
  BY DEF Sane
<1>3. ASSUME pass' = pass
      PROVE  pass' \in [Ticks -> Passes] /\ \A t \in Ticks : Quiet(pass'[t])
  BY <1>1, <1>2, <1>3
<1>4. ASSUME NEW t \in Ticks, NEW q, pass' = [pass EXCEPT ![t] = q],
             PassIsSane(q, blocks), Audited(q), Returning(q, card')
      PROVE  pass' \in [Ticks -> Passes] /\ \A u \in Ticks : Quiet(pass'[u])
  <2>1. Quiet(q)
    BY <1>4, SaneStays
  <2>2. q \in Passes
    BY <1>4 DEF PassIsSane
  <2> HIDE DEF Quiet
  <2> QED
    BY <1>1, <1>2, <1>4, <2>1, <2>2
<1>5. pass' \in [Ticks -> Passes] /\ \A t \in Ticks : Quiet(pass'[t])
  <2>1. CASE UNCHANGED vars \/ World
    BY <1>3, <2>1 DEF vars, World
  <2>2. ASSUME NEW t \in Ticks, StartTick(t) \/ LockTick(t) \/ KillTick(t) \/ PassStep(t) \/ Raises(t)
        PROVE  pass' \in [Ticks -> Passes] /\ \A u \in Ticks : Quiet(pass'[u])
    <3> HIDE DEF Quiet
    <3> QED
      BY <1>3, <1>4, <2>2, PassAdvances
  <2> QED
    BY <2>1, <2>2 DEF Next
<1>6. exit' \in [Ticks -> {"none", "zero", "one"}]
  <2>1. ASSUME NEW t \in Ticks, NEW status \in {"none", "zero", "one"}, exit' = [exit EXCEPT ![t] = status]
        PROVE  exit' \in [Ticks -> {"none", "zero", "one"}]
    BY <1>2, <2>1
  <2>2. CASE UNCHANGED vars \/ World
    BY <1>2, <2>2 DEF vars, World
  <2>3. ASSUME NEW t \in Ticks, StartTick(t) \/ LockTick(t) \/ KillTick(t) \/ PassStep(t) \/ Raises(t)
        PROVE  exit' = exit \/ \E status \in {"none", "zero", "one"} : exit' = [exit EXCEPT ![t] = status]
    BY <2>3 DEF StartTick, LockTick, KillTick, Raises, PassStep, ListBoards, OpenBoard, EndBoard, LeaveCard,
                StopAtCap, DryRun, Promote, Verify, Comment, Finish, Continue, Exit
  <2> QED
    BY <1>2, <2>1, <2>2, <2>3 DEF Next
<1>7. faults' \in 0..MaxFaults
  BY FaultsAreBounded
<1> QED
  BY <1>5, <1>6, <1>7, CardsMove DEF Sane, QuietInv

\* Nothing has been found, promoted or blocked at first.
LEMMA QuietFromTheStart == Init => Sane /\ QuietInv
<1> SUFFICES ASSUME Init PROVE Sane /\ QuietInv
  OBVIOUS
<1>1. \A t \in Ticks : pass[t] = NoPass
  BY DEF Init
<1>2. pass \in [Ticks -> Passes]
  BY NoPassIsQuiet DEF Init, PassIsSane
<1>3. /\ card \in [Cards -> [status : Status, verdict : {"changes", "leave"}, block : Nat]]
      /\ blocks \in 0..MaxBlocks /\ \A k \in Cards : card[k].block <= blocks
      /\ faults \in 0..MaxFaults /\ exit \in [Ticks -> {"none", "zero", "one"}]
  BY LaneReturnAssumption DEF Init, Status
<1> QED
  BY <1>1, <1>2, <1>3, NoPassIsQuiet DEF Sane, QuietInv

LEMMA SaneAndQuiet == Spec => [](Sane /\ QuietInv)
<1>1. Sane /\ QuietInv /\ [Next]_vars => (Sane /\ QuietInv)'
  BY QuietStep
<1> QED
  BY <1>1, QuietFromTheStart, PTL DEF Spec

\* main returns 0 only at the end of the last board, with no failure counted; nothing is
\* promoted, written or blocked on the way out.
LEMMA QuietExitFinishes ==
  ASSUME Sane, QuietInv, [Next]_vars, NEW t \in Ticks, ExitsQuietly(t)
  PROVE  pass[t].step = "open" /\ ~pass[t].failures /\ card' = card
<1>1. exit'[t] = "zero" /\ exit[t] = "none" /\ exit \in [Ticks -> {"none", "zero", "one"}]
  BY DEF ExitsQuietly, Sane
<1>2. PICK u \in Ticks : StartTick(u) \/ LockTick(u) \/ KillTick(u) \/ PassStep(u) \/ Raises(u)
  BY <1>1 DEF Next, vars, World
<1>3. Finish(u)
  BY <1>1, <1>2 DEF StartTick, LockTick, KillTick, Raises, PassStep, ListBoards, OpenBoard, EndBoard, LeaveCard,
                    StopAtCap, DryRun, Promote, Verify, Comment, Continue, Exit
<1>4. u = t /\ ~pass[t].failures
  BY <1>1, <1>3 DEF Finish, Exit
<1> QED
  BY <1>3, <1>4 DEF Finish, Walks

\* A tick that exits 0 has verified every promotion it made on the board and put its audit
\* comment on the card, whatever people and lanes did to the cards meanwhile and
\* whichever calls of its own failed.
THEOREM QuietTicksAreAudited == Spec => QuietMeansAudited
<1>1. ASSUME Sane, QuietInv, [Next]_vars, NEW t \in Ticks, ExitsQuietly(t)
      PROVE  pass[t].promoted \subseteq pass[t].commented
  <2>1. pass[t].step = "open" /\ ~pass[t].failures
    BY <1>1, QuietExitFinishes
  <2> QED
    BY <1>1, <2>1 DEF QuietInv, Audited
<1>2. Sane /\ QuietInv /\ [Next]_vars =>
        [\A t \in Ticks : ExitsQuietly(t) => pass[t].promoted \subseteq pass[t].commented]_vars
  BY <1>1
<1> QED
  BY <1>2, SaneAndQuiet, PTL DEF Spec, QuietMeansAudited

\* A tick that exits 0 below its cap, and not in a dry run, has returned every verdict its
\* snapshots held: none of those cards sits in the same block, on any board, however the
\* cards moved between the snapshot and the promotion.
THEOREM QuietTicksReturnedAll == Spec => QuietMeansReturned
<1> DEFINE Left(x) == card[x.card].status = "blocked" /\ card[x.card].block = x.block
<1>1. ASSUME Sane, QuietInv, [Next]_vars, NEW t \in Ticks,
             ExitsQuietly(t), ~pass[t].dry, ~pass[t].capped, NEW x \in pass[t].actionable
      PROVE  ~Left(x)
  <2>1. pass[t].step = "open" /\ ~pass[t].failures
    BY <1>1, QuietExitFinishes
  <2>2. Returning(pass[t], card)
    BY <1>1 DEF QuietInv
  <2> QED
    BY <1>1, <2>1, <2>2 DEF Returning, Pending, Moved
<1>2. Sane /\ QuietInv /\ [Next]_vars =>
        [\A t \in Ticks :
           ExitsQuietly(t) /\ ~pass[t].dry /\ ~pass[t].capped => \A x \in pass[t].actionable : ~Left(x)]_vars
  BY <1>1
<1> QED
  BY <1>2, SaneAndQuiet, PTL DEF Spec, QuietMeansReturned

\* The types of the lane return: no walk passes its cap, an entry of a snapshot is of a card
\* and of a block that was made by now, and a promotion has its card.
THEOREM TypeCorrect == Spec => []TypeOK
<1>1. ASSUME Sane, LockTypeOK
      PROVE  TypeOK
  <2>1. /\ blocks \in 0..MaxBlocks /\ MaxBlocks \in Nat /\ faults \in 0..MaxFaults
        /\ exit \in [Ticks -> {"none", "zero", "one"}]
    BY <1>1, LaneReturnAssumption DEF Sane
  <2>2. card \in [Cards -> [status : Status, verdict : {"changes", "leave"}, block : 0..blocks]]
    <3>1. ASSUME NEW k \in Cards
          PROVE  card[k] \in [status : Status, verdict : {"changes", "leave"}, block : 0..blocks]
      BY <1>1, <2>1 DEF Sane
    <3> QED
      BY <1>1, <3>1 DEF Sane
  <2>3. ASSUME NEW t \in Ticks
        PROVE  /\ pass[t].step \in {"list", "open", "card", "verify", "comment"}
               /\ pass[t].todo \subseteq Entry
               /\ pass[t].actions \in 0..MaxActions
               /\ pass[t].step \in {"verify", "comment"} => pass[t].todo # {}
    <3>1. PassIsSane(pass[t], blocks) /\ pass[t] \in Passes
      BY <1>1 DEF Sane, PassIsSane
    <3>2. ASSUME NEW e \in pass[t].todo
          PROVE  e \in Entry
      <4>1. e \in Entries /\ e.block <= blocks
        BY <3>1 DEF PassIsSane, Passes
      <4> QED
        BY <2>1, <4>1 DEF Entries, Entry
    <3> QED
      BY <3>1, <3>2, LaneReturnAssumption DEF PassIsSane, Passes
  <2> QED
    BY <1>1, <2>1, <2>2, <2>3 DEF TypeOK
<1>2. LockInit => LockTypeOK
  BY LockAssumption DEF LockInit, LockTypeOK, Absent, Gone
<1>3. LockTypeOK /\ [LockNext]_lockVars => LockTypeOK'
  BY LockAssumption DEF LockTypeOK, lockVars, LockNext, Acquire, Start, TestExists, ReadPid, Unlink, Create,
     WritePid, Work, Release, Kill, Moves, Acquiring, Holding, Gone, Absent, Alive
<1> QED
  BY <1>1, <1>2, <1>3, SaneAndQuiet, TickTakesTheLock, PTL DEF LockSpec
=============================================================================
