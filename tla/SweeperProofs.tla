--------------------------- MODULE SweeperProofs ---------------------------
(* The sweeper takes its singleton by the protocol of SweeperLock, and that *)
(* is exclusive when starts are spaced; what follows for the cards, their   *)
(* reviewers and the ledger.  For any set of processes and cards, any       *)
(* crash, any recycled pid and any answer of the calls in between.          *)
EXTENDS Sweeper, FiniteSetTheorems, WellFoundedInduction, TLAPS

\* At most one process is acquiring; a holder's pid is in the file it made, whoever is
\* about to write made the file that is there, and nobody removes under a holder.
LockInv ==
  /\ LockTypeOK
  /\ \A p, q \in Sweeps : at[p] \in Acquiring /\ at[q] \in Acquiring => p = q
  /\ \A p \in Sweeps : at[p] \in Holding => file.by = p /\ file.pid = p
  /\ \A p \in Sweeps : at[p] = "write" => file.by = p
  /\ \A p \in Sweeps : at[p] = "remove" => \A q \in Sweeps : at[q] \notin Holding

\* Every system call, death and passing of time keeps the invariant.
LEMMA LockInvStep ==
  ASSUME Spaced = TRUE, LockInv, [LockNext]_lockVars
  PROVE  LockInv'
<1> USE SweeperLockAssumption DEF LockInv, LockTypeOK, Moves, Acquiring, Holding, NoFile, Free, Dead
<1>1. CASE UNCHANGED lockVars
  BY <1>1 DEF lockVars
<1>2. ASSUME NEW p \in Sweeps, Begin(p)
      PROVE  LockInv'
  BY <1>2 DEF Begin
<1>3. ASSUME NEW p \in Sweeps, Open(p)
      PROVE  LockInv'
  BY <1>3 DEF Open, Created
<1>4. ASSUME NEW p \in Sweeps, Read(p)
      PROVE  LockInv'
  BY <1>4 DEF Read, Alive
<1>5. ASSUME NEW p \in Sweeps, Remove(p)
      PROVE  LockInv'
  BY <1>5 DEF Remove
<1>6. ASSUME NEW p \in Sweeps, Reopen(p)
      PROVE  LockInv'
  BY <1>6 DEF Reopen, Created
<1>7. ASSUME NEW p \in Sweeps, Write(p)
      PROVE  LockInv'
  BY <1>7 DEF Write
<1>8. ASSUME NEW p \in Sweeps, Leave(p) \/ LetGo(p)
      PROVE  LockInv'
  BY <1>8 DEF Leave, LetGo, CheckOwn, Drop
<1>9. ASSUME NEW p \in Sweeps, Dies(p)
      PROVE  LockInv'
  BY <1>9 DEF Dies
<1>10. CASE Host
  BY <1>10 DEF Host, Recycle, Expire
<1> QED
  BY <1>1, <1>2, <1>3, <1>4, <1>5, <1>6, <1>7, <1>8, <1>9, <1>10 DEF LockNext, Acquire

\* The file and the processes stay what they are, spaced or not.
LEMMA LockTypeOKStep ==
  ASSUME LockTypeOK, [LockNext]_lockVars
  PROVE  LockTypeOK'
<1> USE DEF LockTypeOK, Moves, Acquiring, Holding, NoFile, Free, Dead
<1>1. CASE UNCHANGED lockVars \/ Host
  BY <1>1 DEF lockVars, Host, Recycle, Expire
<1>2. ASSUME NEW p \in Sweeps, Begin(p) \/ Leave(p) \/ LetGo(p)
      PROVE  LockTypeOK'
  BY <1>2 DEF Begin, Leave, LetGo, CheckOwn, Drop
<1>3. ASSUME NEW p \in Sweeps, Open(p) \/ Reopen(p)
      PROVE  LockTypeOK'
  BY <1>3 DEF Open, Reopen, Created
<1>4. ASSUME NEW p \in Sweeps, Read(p) \/ Remove(p) \/ Write(p)
      PROVE  LockTypeOK'
  BY <1>4 DEF Read, Remove, Write
<1>5. ASSUME NEW p \in Sweeps, Dies(p)
      PROVE  LockTypeOK'
  BY <1>5 DEF Dies
<1> QED
  BY <1>1, <1>2, <1>3, <1>4, <1>5 DEF LockNext, Acquire

\* A holder is the one whose pid is in the file: there is at most one.
LEMMA LockInvExcludes == LockInv => SingleInstance
<1> SUFFICES ASSUME LockInv PROVE SingleInstance
  OBVIOUS
<1> DEFINE H == {p \in Sweeps : at[p] \in Holding}
<1>1. H \subseteq {file.by}
  BY DEF LockInv
<1>2. IsFiniteSet({file.by}) /\ Cardinality({file.by}) = 1
  BY FS_Singleton
<1>3. Cardinality(H) <= 1
  BY <1>1, <1>2, FS_Subset
<1> QED
  BY <1>3 DEF SingleInstance

----------------------------------------------------------------------------
\* Every step of a run, of the world and of the host is a step of the singleton's
\* protocol or leaves its file alone.
LEMMA SweeperStepIsLockStep ==
  ASSUME [Next]_vars
  PROVE  [LockNext]_lockVars
<1> USE DEF lockVars, LockNext, Procs
<1>1. CASE UNCHANGED vars
  BY <1>1 DEF vars
<1>2. CASE World
  BY <1>2 DEF World, Block, Push, PersonMoves, ThreadGrows, OrphanEnds, Sweeper
<1>3. CASE PidsAndTime
  BY <1>3 DEF PidsAndTime
<1>4. ASSUME NEW p \in Procs, Start(p)
      PROVE  [LockNext]_lockVars
  BY <1>4 DEF Start
<1>5. ASSUME NEW p \in Procs, SingletonAcquire(p) \/ Releasing(p)
      PROVE  [LockNext]_lockVars
  BY <1>5 DEF SingletonAcquire, Releasing
<1>6. ASSUME NEW p \in Procs, Unwind(p)
      PROVE  [LockNext]_lockVars
  BY <1>6 DEF Unwind, SingletonRelease, Vanishes
<1>7. ASSUME NEW p \in Procs, Initialize(p) \/ Finish(p)
      PROVE  [LockNext]_lockVars
  BY <1>7 DEF Initialize, Finish, SingletonRelease, Vanishes
<1>8. ASSUME NEW p \in Procs,
             \/ ListQueue(p) \/ ReadDetail(p) \/ LedgerHas(p) \/ LockAcquire(p)
             \/ ScanReports(p) \/ PushPending(p) \/ Spawn(p) \/ ReviewEnds(p)
             \/ LedgerAppend(p) \/ Release(p) \/ OpenStall(p) \/ WriteStall(p)
      PROVE  [LockNext]_lockVars
  BY <1>8 DEF ListQueue, ReadDetail, LedgerHas, LockAcquire, ScanReports, PushPending, Spawn,
              ReviewEnds, LedgerAppend, Release, OpenStall, WriteStall, Files, PassOver
<1>9. ASSUME NEW p \in Procs, SkillSkip(p)
      PROVE  [LockNext]_lockVars
  BY <1>6, <1>9 DEF SkillSkip, Files
<1>10. ASSUME NEW p \in Procs, Comment(p)
       PROVE  [LockNext]_lockVars
  BY <1>6, <1>10 DEF Comment, ApplyFails, Files
<1>11. ASSUME NEW p \in Procs, Patch(p)
       PROVE  [LockNext]_lockVars
  BY <1>6, <1>11 DEF Patch, ApplyFails, Files
<1>12. ASSUME NEW p \in Procs, Kill(p)
       PROVE  [LockNext]_lockVars
  BY <1>12 DEF Kill, Vanishes
<1>13. ASSUME NEW p \in Procs, Terminate(p) \/ Raises(p)
       PROVE  [LockNext]_lockVars
  BY <1>6, <1>13 DEF Terminate, Raises
<1>14. ASSUME NEW p \in Procs, Step(p)
       PROVE  [LockNext]_lockVars
  BY <1>5, <1>7, <1>8, <1>9, <1>10, <1>11, <1>13, <1>14 DEF Step
<1> QED
  BY <1>1, <1>2, <1>3, <1>4, <1>12, <1>13, <1>14 DEF Next

\* Whole runs of the sweeper, with everything they do between taking the singleton and
\* giving it back, implement the protocol of its lock file.
THEOREM SweeperTakesTheLock == Spec => LockSpec
<1>1. Init => LockInit
  BY DEF Init
<1> QED
  BY <1>1, SweeperStepIsLockStep, PTL DEF Spec, LockSpec

\* With spaced starts at most one sweeper works the boards (singleton_acquire), whatever
\* is killed, whatever calls fail, and whoever gets the dead owner's pid.
THEOREM SpacedSweepsExclude ==
  ASSUME Spaced = TRUE
  PROVE  Spec => []SingleInstance
<1>1. LockInit => LockInv
  BY SweeperLockAssumption
     DEF LockInit, LockInv, LockTypeOK, NoFile, Acquiring, Holding, Free, Dead
<1>2. LockInv /\ [LockNext]_lockVars => LockInv'
  BY LockInvStep
<1> QED
  BY <1>1, <1>2, SweeperTakesTheLock, LockInvExcludes, PTL DEF LockSpec

----------------------------------------------------------------------------
(* What the runs do to the cards, the reviewers and the ledger. *)

Seen == [text : Texts \cup {Plain}, skipped : BOOLEAN]
Runs ==
  [at : Guarded \cup {"off", "init", "stall", "count"}, queue : SUBSET Tickets, seen : Seen,
   verdict : {"none", "approve", "changes", "escalate", "unparsed", "failed"},
   processed : Nat, warned : BOOLEAN, found : BOOLEAN, prev : Nat]
CardRecs ==
  [status : {"open", "blocked", "done"}, text : Texts \cup {Plain}, block : Nat, pushed : BOOLEAN,
   skips : Nat, patches : Nat]
Counts == [count : Nat, torn : BOOLEAN]
Pasts ==
  [done : SUBSET (Tickets \X (Texts \cup {Plain})), blind : Nat, lost : {"no", "torn", "kept"}]

Sane ==
  /\ card \in [Tickets -> CardRecs] /\ proc \in [Procs -> Runs]
  /\ live \in [Tickets -> Int] /\ stall \in Counts /\ signals \in Nat /\ history \in Pasts
  /\ \A p \in Procs : proc[p].at \in Locked \cup {"ledger", "lock"} => proc[p].queue # {}

\* A set of numbers that is not empty has a least one.
LEMMA LeastOfNats ==
  ASSUME NEW T \in SUBSET Nat, T # {}
  PROVE  \E x \in T : \A y \in T : x <= y
<1> DEFINE R == OpToRel(<, Nat)
<1>1. IsWellFoundedOn(R, Nat)
  BY NatLessThanWellFounded
<1>2. \A x, y \in Nat : <<y, x>> \in R <=> y < x
  BY DEF OpToRel
<1> HIDE DEF R
<1>3. PICK x \in T : \A y \in T : ~(<<y, x>> \in R)
  BY <1>1, WFMin
<1>4. \A y \in T : ~(y < x)
  BY <1>2, <1>3
<1> QED
  BY <1>4

\* A run with cards left is at one of them.
LEMMA CardIsQueued ==
  ASSUME NEW p \in Procs, proc[p].queue \in SUBSET Tickets, proc[p].queue # {}
  PROVE  Card(p) \in proc[p].queue /\ Card(p) \in Tickets
<1>1. proc[p].queue \in SUBSET Nat
  BY SweeperAssumption
<1>2. \E t \in proc[p].queue : \A u \in proc[p].queue : t <= u
  BY <1>1, LeastOfNats
<1> QED
  BY <1>2 DEF Card

\* What a run sees of a card, and what it is left with when it is through with it.
LEMMA PartsAreSane ==
  ASSUME Sane, NEW p \in Procs
  PROVE  /\ NoDetail \in Seen /\ Asleep \in Runs /\ Asleep.at = "off"
         /\ proc[p] \in Runs /\ Passed(p) \in Runs /\ Passed(p).at = "next"
         /\ Processed(p) \in Runs /\ Processed(p).at = "release"
         /\ Processed(p).queue = proc[p].queue /\ Passed(p).queue = proc[p].queue \ {Card(p)}
         /\ Counted(p) \in Runs /\ Counted(p).at = "stall"
<1>1. NoDetail \in Seen
  BY DEF NoDetail, Seen
<1>2. Asleep \in Runs /\ Asleep.at = "off"
  BY <1>1 DEF Asleep, Runs
<1>3. proc[p] \in Runs
  BY DEF Sane
<1>4. proc[p].queue \ {Card(p)} \in SUBSET Tickets
  BY <1>3 DEF Runs
<1>5. Passed(p) \in Runs /\ Passed(p).at = "next" /\ Passed(p).queue = proc[p].queue \ {Card(p)}
  BY <1>1, <1>3, <1>4 DEF Passed, Runs, Guarded
<1>6. proc[p].processed + 1 \in Nat
  BY <1>3 DEF Runs
<1>7. Processed(p) \in Runs /\ Processed(p).at = "release" /\ Processed(p).queue = proc[p].queue
  BY <1>3, <1>6 DEF Processed, Runs, Guarded, Locked
<1>8. StallUpdate(p) \in Nat /\ Blind(p) \in BOOLEAN
  BY <1>3, SweeperAssumption DEF StallUpdate, Blind, Runs, Least
<1>9. Counted(p) \in Runs /\ Counted(p).at = "stall"
  BY <1>2, <1>8 DEF Counted, Runs
<1> QED
  BY <1>1, <1>2, <1>3, <1>5, <1>7, <1>9

LEMMA DetailIsSeen ==
  ASSUME Sane, NEW t \in Tickets
  PROVE  Detail(t) \in Seen /\ Detail(t).text = card[t].text /\ Detail(t).skipped = (card[t].skips > 0)
<1>1. card[t] \in CardRecs
  BY DEF Sane
<1>2. card[t].text \in Texts \cup {Plain}
  BY <1>1 DEF CardRecs
<1> DEFINE skipped == card[t].skips > 0
<1>3. skipped \in BOOLEAN
  OBVIOUS
<1>4. Detail(t) = [text |-> card[t].text, skipped |-> skipped]
  BY DEF Detail
<1> HIDE DEF skipped
<1>5. Detail(t) \in Seen /\ Detail(t).text = card[t].text /\ Detail(t).skipped = skipped
  BY <1>2, <1>3, <1>4 DEF Seen
<1> QED
  BY <1>5 DEF skipped

\* A run that moves alone leaves a sane state if what it becomes is sane.
LEMMA OneRunMoves ==
  ASSUME Sane, NEW p \in Procs, NEW r \in Runs, proc' = [proc EXCEPT ![p] = r],
         r.at \in Locked \cup {"ledger", "lock"} => r.queue # {}
  PROVE  /\ proc' \in [Procs -> Runs]
         /\ \A q \in Procs : proc'[q].at \in Locked \cup {"ledger", "lock"} => proc'[q].queue # {}
BY DEF Sane

----------------------------------------------------------------------------
\* Steps of a run that leave the cards, the reviewers and the past alone.
LEMMA QuietStepsAreSane ==
  ASSUME Sane, NEW p \in Procs,
         \/ Start(p) \/ SingletonAcquire(p) \/ Releasing(p) \/ Initialize(p) \/ ListQueue(p)
         \/ ReadDetail(p) \/ LedgerHas(p) \/ LockAcquire(p) \/ ScanReports(p) \/ PushPending(p)
         \/ LedgerAppend(p) \/ Release(p) \/ Finish(p)
  PROVE  Sane'
<1> DEFINE Moved == \/ UNCHANGED proc
                    \/ \E r \in Runs : /\ proc' = [proc EXCEPT ![p] = r]
                                       /\ r.at \in Locked \cup {"ledger", "lock"} => r.queue # {}
<1>0. ASSUME NEW r \in Runs, proc' = [proc EXCEPT ![p] = r],
             r.at \in Locked \cup {"ledger", "lock"} => r.queue # {}
      PROVE  Moved
  BY <1>0
<1>00. UNCHANGED proc => Moved
  OBVIOUS
<1>1. Outside /\ UNCHANGED stall
  BY DEF Start, SingletonAcquire, Releasing, Initialize, ListQueue, ReadDetail, LedgerHas, LockAcquire,
         ScanReports, PushPending, LedgerAppend, Release, Finish, Outside, Files
<1>14. ASSUME Moved
       PROVE  Sane'
  <2>1. /\ proc' \in [Procs -> Runs]
        /\ \A q \in Procs : proc'[q].at \in Locked \cup {"ledger", "lock"} => proc'[q].queue # {}
    BY <1>14, OneRunMoves DEF Sane, Moved
  <2> QED
    BY <1>1, <2>1 DEF Sane, Outside
<1> HIDE DEF Moved
<1> SUFFICES Moved
  BY <1>14
<1>2. proc[p] \in Runs /\ proc \in [Procs -> Runs]
      /\ (proc[p].at \in Locked \cup {"ledger", "lock"} => proc[p].queue # {})
  BY DEF Sane
<1>3. ASSUME NEW there \in {"init", "off", "lock", "report", "prep", "release", "stall"}, Goto(p, there),
             there \in {"lock", "report", "prep", "release"} => proc[p].queue # {}
      PROVE  Moved
  <2> DEFINE r == [proc[p] EXCEPT !.at = there]
  <2>1. r \in Runs /\ r.at = there /\ r.queue = proc[p].queue
    BY <1>2 DEF Runs, Guarded, Locked
  <2>2. proc' = [proc EXCEPT ![p] = r]
    BY <1>2, <1>3 DEF Goto, Runs
  <2> HIDE DEF r
  <2> QED
    BY <1>0, <1>3, <2>1, <2>2 DEF Locked
<1>4. CASE Start(p) \/ SingletonAcquire(p) \/ Releasing(p)
  <2>1. UNCHANGED proc \/ Goto(p, "init")
    BY <1>4 DEF Start, SingletonAcquire, Releasing, Goto
  <2> QED
    BY <1>00, <1>3, <2>1
<1>5. CASE Initialize(p)
  <2>1. CASE Goto(p, "off")
    BY <1>3, <2>1
  <2>2. CASE proc' = [proc EXCEPT ![p].at = "list", ![p].prev = stall.count]
    <3> DEFINE r == [proc[p] EXCEPT !.at = "list", !.prev = stall.count]
    <3>1. r \in Runs /\ r.at = "list"
      BY <1>2 DEF Runs, Guarded, Locked, Sane, Counts
    <3>2. proc' = [proc EXCEPT ![p] = r]
      BY <1>2, <2>2 DEF Runs
    <3> HIDE DEF r
    <3> QED
      BY <1>0, <3>1, <3>2 DEF Locked
  <2> QED
    BY <1>5, <2>1, <2>2 DEF Initialize
<1>6. CASE ListQueue(p)
  <2>1. PICK queue \in SUBSET Tickets, w \in BOOLEAN :
          proc' = [proc EXCEPT ![p].at = "next", ![p].queue = queue, ![p].warned = w]
    <3> DEFINE all == {t \in Tickets : card[t].status = "blocked" /\ card[t].text \in Texts}
    <3>1. CASE proc' = [proc EXCEPT ![p].at = "next", ![p].queue = all]
      <4>1. proc[p].warned \in BOOLEAN
        BY <1>2 DEF Runs
      <4>2. proc' = [proc EXCEPT ![p].at = "next", ![p].queue = all, ![p].warned = proc[p].warned]
        BY <1>2, <3>1 DEF Runs
      <4> QED
        BY <4>1, <4>2
    <3>2. ASSUME NEW n \in Tickets \cup {0},
                 proc' = [proc EXCEPT ![p].at = "next", ![p].queue = {t \in all : t <= n}, ![p].warned = TRUE]
          PROVE  \E queue \in SUBSET Tickets, w \in BOOLEAN :
                   proc' = [proc EXCEPT ![p].at = "next", ![p].queue = queue, ![p].warned = w]
      <4>1. {t \in all : t <= n} \in SUBSET Tickets
        OBVIOUS
      <4> QED
        BY <3>2, <4>1
    <3> QED
      BY <1>6, <3>1, <3>2 DEF ListQueue
  <2> DEFINE r == [proc[p] EXCEPT !.at = "next", !.queue = queue, !.warned = w]
  <2>2. r \in Runs /\ r.at = "next"
    BY <1>2 DEF Runs, Guarded, Locked
  <2>3. proc' = [proc EXCEPT ![p] = r]
    BY <1>2, <2>1 DEF Runs
  <2> HIDE DEF r
  <2> QED
    BY <1>0, <2>2, <2>3 DEF Locked
<1>7. CASE ReadDetail(p)
  <2>1. CASE PassOver(p)
    BY <1>0, <2>1, PartsAreSane DEF PassOver, Locked
  <2>2. CASE proc' = [proc EXCEPT ![p].at = "ledger", ![p].seen = Detail(Card(p)), ![p].found = TRUE]
    <3> DEFINE d == Detail(Card(p))
               r == [proc[p] EXCEPT !.at = "ledger", !.seen = d, !.found = TRUE]
    <3>1. proc[p].queue # {} /\ Card(p) \in Tickets
      BY <1>2, <1>7, CardIsQueued DEF ReadDetail, Runs
    <3>2. d \in Seen
      BY <3>1, DetailIsSeen
    <3> HIDE DEF d
    <3>3. r \in Runs /\ r.queue = proc[p].queue
      BY <1>2, <3>2 DEF Runs, Guarded, Locked
    <3>4. proc' = [proc EXCEPT ![p] = r]
      BY <1>2, <2>2 DEF Runs, d
    <3> HIDE DEF r
    <3> QED
      BY <1>0, <3>1, <3>3, <3>4
  <2>3. CASE proc' = [proc EXCEPT ![p] = [Passed(p) EXCEPT !.warned = TRUE]]
    <3> DEFINE r == [Passed(p) EXCEPT !.warned = TRUE]
    <3>1. r \in Runs /\ r.at = "next"
      BY PartsAreSane, ZenonT(40) DEF Runs
    <3> HIDE DEF r
    <3> QED
      BY <1>0, <2>3, <3>1 DEF Locked, r
  <2> QED
    BY <1>7, <2>1, <2>2, <2>3 DEF ReadDetail
<1>8. CASE LedgerHas(p)
  <2>1. PassOver(p) \/ Goto(p, "lock")
    BY <1>8 DEF LedgerHas
  <2>2. proc[p].queue # {}
    BY <1>2, <1>8 DEF LedgerHas, At
  <2> QED
    BY <1>0, <1>3, <2>1, <2>2, PartsAreSane DEF PassOver, Locked
<1>9. CASE LockAcquire(p)
  <2>1. PassOver(p) \/ Goto(p, "report") \/ Goto(p, "prep")
    BY <1>9 DEF LockAcquire
  <2>2. proc[p].queue # {}
    BY <1>2, <1>9 DEF LockAcquire, At
  <2> QED
    BY <1>0, <1>3, <2>1, <2>2, PartsAreSane DEF PassOver, Locked
<1>10. CASE ScanReports(p)
  BY <1>2, <1>3, <1>10 DEF ScanReports, At, Locked
<1>11. CASE PushPending(p) \/ LedgerAppend(p)
  <2>1. proc' = [proc EXCEPT ![p] = Processed(p)] /\ proc[p].queue # {}
    BY <1>2, <1>11 DEF PushPending, LedgerAppend, At, Locked
  <2> QED
    BY <1>0, <2>1, PartsAreSane
<1>12. CASE Release(p)
  BY <1>0, <1>12, PartsAreSane DEF Release, PassOver, Locked
<1>13. CASE Finish(p)
  BY <1>0, <1>13, PartsAreSane DEF Finish, Locked
<1> QED
  BY <1>4, <1>5, <1>6, <1>7, <1>8, <1>9, <1>10, <1>11, <1>12, <1>13

\* What else moves: one run at most, and fields of the cards.
LEMMA SaneAgain ==
  ASSUME Sane, card' \in [Tickets -> CardRecs], live' \in [Tickets -> Int], stall' \in Counts,
         signals' \in Nat, history' \in Pasts,
         \/ UNCHANGED proc
         \/ \E p \in Procs, r \in Runs :
              proc' = [proc EXCEPT ![p] = r] /\ (r.at \in Locked \cup {"ledger", "lock"} => r.queue # {})
  PROVE  Sane'
<1>1. /\ proc' \in [Procs -> Runs]
      /\ \A q \in Procs : proc'[q].at \in Locked \cup {"ledger", "lock"} => proc'[q].queue # {}
  BY DEF Sane
<1> QED
  BY <1>1 DEF Sane

LEMMA WorldIsSane ==
  ASSUME Sane, World
  PROVE  Sane'
<1> PICK t \in Tickets : Block(t) \/ Push(t) \/ PersonMoves(t) \/ ThreadGrows(t) \/ OrphanEnds(t)
  BY DEF World
<1>1. UNCHANGED <<proc, stall, signals, history>>
  BY DEF Block, Push, PersonMoves, ThreadGrows, OrphanEnds, Sweeper
<1>2. card[t] \in CardRecs /\ card \in [Tickets -> CardRecs] /\ live \in [Tickets -> Int]
  BY DEF Sane
<1>3. card' \in [Tickets -> CardRecs]
  <2>1. CASE Block(t)
    <3>1. PICK text \in Texts \cup {Plain}, pushed \in BOOLEAN :
            card' = [card EXCEPT ![t].status = "blocked", ![t].text = text, ![t].pushed = pushed,
                                 ![t].block = @ + 1, ![t].patches = 0]
      BY <2>1 DEF Block
    <3> DEFINE k == [card[t] EXCEPT !.status = "blocked", !.text = text, !.pushed = pushed,
                                    !.block = @ + 1, !.patches = 0]
    <3>0. card[t].block + 1 \in Nat
      BY <1>2 DEF CardRecs
    <3>2. k \in CardRecs
      BY <1>2, <3>0 DEF CardRecs
    <3>3. card' = [card EXCEPT ![t] = k]
      BY <1>2, <3>1 DEF CardRecs
    <3> HIDE DEF k
    <3> QED
      BY <1>2, <3>2, <3>3
  <2>2. CASE Push(t)
    BY <1>2, <2>2 DEF Push, CardRecs
  <2>3. CASE PersonMoves(t)
    BY <1>2, <2>3 DEF PersonMoves, CardRecs
  <2>4. CASE OrphanEnds(t)
    BY <1>2, <2>4 DEF OrphanEnds
  <2>5. CASE ThreadGrows(t)
    <3>1. PICK skips \in 0..card[t].skips - 1 : card' = [card EXCEPT ![t].skips = skips]
      BY <2>5 DEF ThreadGrows
    <3>2. [card[t] EXCEPT !.skips = skips] \in CardRecs
      BY <1>2 DEF CardRecs
    <3> QED
      BY <1>2, <3>1, <3>2
  <2> QED
    BY <2>1, <2>2, <2>3, <2>4, <2>5
<1>4. live' \in [Tickets -> Int]
  <2>1. CASE Block(t) \/ Push(t) \/ PersonMoves(t) \/ ThreadGrows(t)
    BY <1>2, <2>1 DEF Block, Push, PersonMoves, ThreadGrows
  <2>2. CASE OrphanEnds(t)
    <3>1. live[t] - 1 \in Int
      BY <1>2
    <3> QED
      BY <1>2, <2>2, <3>1 DEF OrphanEnds
  <2> QED
    BY <2>1, <2>2
<1> QED
  BY <1>1, <1>3, <1>4, SaneAgain DEF Sane

\* Steps that change a card, a reviewer or the past.
LEMMA LoudStepsAreSane ==
  ASSUME Sane, NEW p \in Procs,
         \/ SkillSkip(p) \/ Spawn(p) \/ ReviewEnds(p) \/ Comment(p) \/ Patch(p) \/ Raises(p)
         \/ OpenStall(p) \/ WriteStall(p) \/ Kill(p) \/ Terminate(p)
  PROVE  Sane'
<1> DEFINE Moved == \/ UNCHANGED proc
                    \/ \E r \in Runs : /\ proc' = [proc EXCEPT ![p] = r]
                                       /\ r.at \in Locked \cup {"ledger", "lock"} => r.queue # {}
<1>1. proc[p] \in Runs /\ proc \in [Procs -> Runs]
      /\ (proc[p].at \in Locked \cup {"ledger", "lock"} => proc[p].queue # {})
  BY DEF Sane
<1>2. proc[p].at \in {"prep", "reviewing", "comment", "patch"} => Card(p) \in Tickets
  BY <1>1, CardIsQueued DEF Runs, Locked
<1>3. ASSUME NEW r \in Runs, proc' = [proc EXCEPT ![p] = r],
             r.at \in Locked \cup {"ledger", "lock"} => r.queue # {}
      PROVE  Moved
  BY <1>3
<1> HIDE DEF Moved
<1>4. ASSUME Unwind(p)
      PROVE  Moved
  BY <1>3, <1>4, PartsAreSane DEF Unwind, Locked
<1>5. ASSUME proc' = [proc EXCEPT ![p] = Processed(p)], proc[p].queue # {}
      PROVE  Moved
  BY <1>3, <1>5, PartsAreSane
<1>6. ASSUME NEW there \in {"reviewing", "patch", "append"}, Goto(p, there), proc[p].queue # {}
      PROVE  Moved
  <2> DEFINE r == [proc[p] EXCEPT !.at = there]
  <2>1. r \in Runs /\ r.queue = proc[p].queue
    BY <1>1 DEF Runs, Guarded, Locked
  <2>2. proc' = [proc EXCEPT ![p] = r]
    BY <1>1, <1>6 DEF Goto, Runs
  <2> HIDE DEF r
  <2> QED
    BY <1>3, <1>6, <2>1, <2>2
<1>7. ASSUME NEW r \in Runs, r.queue = proc[p].queue, proc[p].queue # {}, proc' = [proc EXCEPT ![p] = r]
      PROVE  Moved
  BY <1>3, <1>7
<1>8. ASSUME ApplyFails(p), proc[p].queue # {}
      PROVE  Moved
  <2>1. CASE proc' = [proc EXCEPT ![p] = [Processed(p) EXCEPT !.warned = TRUE]]
    <3> DEFINE r == [Processed(p) EXCEPT !.warned = TRUE]
    <3>1. r \in Runs /\ r.queue = proc[p].queue
      BY PartsAreSane, ZenonT(40) DEF Runs
    <3> HIDE DEF r
    <3>2. proc' = [proc EXCEPT ![p] = r]
      BY <2>1 DEF r
    <3> QED
      BY <1>7, <1>8, <3>1, <3>2
  <2> QED
    BY <1>4, <1>8, <2>1 DEF ApplyFails
<1>9. Moved
  <2>1. ASSUME SkillSkip(p)
        PROVE  Moved
    BY <1>1, <1>4, <1>5, <2>1 DEF SkillSkip, At, Locked
  <2>2. ASSUME Spawn(p)
        PROVE  Moved
    BY <1>1, <1>6, <2>2 DEF Spawn, At, Locked
  <2>3. ASSUME ReviewEnds(p)
        PROVE  Moved
    <3>1. ASSUME NEW v \in {"approve", "changes", "escalate", "unparsed"},
                 proc' = [proc EXCEPT ![p].at = "comment", ![p].verdict = v]
          PROVE  Moved
      <4> DEFINE r == [proc[p] EXCEPT !.at = "comment", !.verdict = v]
      <4>1. r \in Runs /\ r.queue = proc[p].queue
        BY <1>1 DEF Runs, Guarded, Locked
      <4>2. proc' = [proc EXCEPT ![p] = r]
        BY <1>1, <3>1 DEF Runs
      <4> HIDE DEF r
      <4> QED
        BY <1>1, <1>7, <2>3, <4>1, <4>2 DEF ReviewEnds, At, Locked
    <3>2. ASSUME proc' = [proc EXCEPT ![p] = [Processed(p) EXCEPT !.verdict = "failed"]]
          PROVE  Moved
      <4> DEFINE r == [Processed(p) EXCEPT !.verdict = "failed"]
      <4>1. r \in Runs /\ r.queue = proc[p].queue
        BY PartsAreSane DEF Runs
      <4> HIDE DEF r
      <4>2. proc' = [proc EXCEPT ![p] = r]
        BY <3>2 DEF r
      <4> QED
        BY <1>1, <1>7, <2>3, <4>1, <4>2 DEF ReviewEnds, At, Locked
    <3> QED
      BY <2>3, <3>1, <3>2 DEF ReviewEnds
  <2>4. ASSUME Comment(p)
        PROVE  Moved
    <3>1. proc[p].queue # {}
      BY <1>1, <2>4 DEF Comment, At, Locked
    <3> QED
      BY <1>6, <1>8, <2>4, <3>1 DEF Comment
  <2>5. ASSUME Patch(p)
        PROVE  Moved
    <3>1. proc[p].queue # {}
      BY <1>1, <2>5 DEF Patch, At, Locked
    <3> QED
      BY <1>6, <1>8, <2>5, <3>1 DEF Patch
  <2>6. ASSUME WriteStall(p) \/ Kill(p)
        PROVE  Moved
    BY <1>3, <2>6, PartsAreSane DEF WriteStall, Kill, Locked
  <2>7. ASSUME Terminate(p) \/ Raises(p)
        PROVE  Moved
    BY <1>4, <2>7 DEF Terminate, Raises
  <2>8. ASSUME OpenStall(p)
        PROVE  Moved
    <3>1. CASE Goto(p, "count")
      <4> DEFINE r == [proc[p] EXCEPT !.at = "count"]
      <4>1. r \in Runs /\ r.at = "count"
        BY <1>1 DEF Runs
      <4>2. proc' = [proc EXCEPT ![p] = r]
        BY <1>1, <3>1 DEF Goto, Runs
      <4> HIDE DEF r
      <4> QED
        BY <1>3, <4>1, <4>2 DEF Locked
    <3> QED
      BY <1>3, <2>8, <3>1, PartsAreSane DEF OpenStall, Locked
  <2> QED
    BY <2>1, <2>2, <2>3, <2>4, <2>5, <2>6, <2>7, <2>8
<1>10. card' \in [Tickets -> CardRecs]
  <2>1. ASSUME NEW t \in Tickets
        PROVE  /\ [card[t] EXCEPT !.skips = @ + 1] \in CardRecs
               /\ \A s \in {"open", "done"} : [card[t] EXCEPT !.status = s, !.patches = @ + 1] \in CardRecs
    <3>1. card[t] \in CardRecs
      BY DEF Sane
    <3>2. card[t].skips + 1 \in Nat /\ card[t].patches + 1 \in Nat
      BY <3>1 DEF CardRecs
    <3> QED
      BY <3>1, <3>2 DEF CardRecs
  <2>2. card \in [Tickets -> CardRecs] /\ \A t \in Tickets : card[t] \in CardRecs
    BY DEF Sane
  <2>3. ASSUME NEW t \in Tickets, NEW k \in CardRecs, card' = [card EXCEPT ![t] = k]
        PROVE  card' \in [Tickets -> CardRecs]
    BY <2>2, <2>3
  <2>4. CASE SkillSkip(p)
    <3> DEFINE k == [card[Card(p)] EXCEPT !.skips = @ + 1]
    <3>1. Card(p) \in Tickets
      BY <1>2, <2>4 DEF SkillSkip, At
    <3>2. card' = card \/ card' = [card EXCEPT ![Card(p)] = k]
      BY <2>2, <2>4, <3>1 DEF SkillSkip, CardRecs
    <3>3. k \in CardRecs
      BY <2>1, <3>1
    <3> HIDE DEF k
    <3> QED
      BY <2>2, <2>3, <3>1, <3>2, <3>3
  <2>6. CASE Patch(p)
    <3> DEFINE s == IF proc[p].verdict = "approve" THEN "done" ELSE "open"
               k == [card[Card(p)] EXCEPT !.status = s, !.patches = @ + 1]
    <3>1. Card(p) \in Tickets
      BY <1>2, <2>6 DEF Patch, At
    <3>2. Patched(p) = [card EXCEPT ![Card(p)] = k]
      BY <2>2, <3>1 DEF Patched, CardRecs
    <3>3. k \in CardRecs
      BY <2>1, <3>1
    <3>4. card' = card \/ card' = Patched(p)
      BY <2>6 DEF Patch
    <3> HIDE DEF k
    <3> QED
      BY <2>2, <2>3, <3>1, <3>2, <3>3, <3>4
  <2> QED
    BY <2>2, <2>4, <2>6 DEF Comment, Spawn, ReviewEnds, Raises, OpenStall, WriteStall, Kill, Terminate
<1>11. live' \in [Tickets -> Int]
  <2>1. live \in [Tickets -> Int] /\ \A t \in Tickets : live[t] + 1 \in Int /\ live[t] - 1 \in Int
    BY DEF Sane
  <2>2. CASE Spawn(p)
    BY <1>2, <2>1, <2>2 DEF Spawn, At
  <2>3. CASE ReviewEnds(p)
    BY <1>2, <2>1, <2>3 DEF ReviewEnds, At
  <2> QED
    BY <2>1, <2>2, <2>3 DEF SkillSkip, Comment, Patch, Raises, OpenStall, WriteStall, Kill, Terminate
<1>12. stall' \in Counts /\ history' \in Pasts
  <2>1. stall \in Counts /\ history \in Pasts
    BY DEF Sane
  <2>2. CASE OpenStall(p)
    <3>1. PICK n \in Nat, l \in {"no", "torn", "kept"} :
            history' = [history EXCEPT !.blind = n, !.lost = l]
      <4> DEFINE n == IF proc[p].warned THEN Least(history.blind + 1, StallThreshold) ELSE 0
      <4>1. n \in Nat
        BY <2>1, SweeperAssumption DEF Least, Pasts
      <4>2. history.lost \in {"no", "torn", "kept"}
        BY <2>1 DEF Pasts
      <4>3. \E l \in {"no", "torn", "kept"} : history' = [history EXCEPT !.blind = n, !.lost = l]
        <5> HIDE DEF n
        <5>1. \/ history' = [history EXCEPT !.blind = n,
                   !.lost = IF ~proc[p].warned THEN "no" ELSE IF stall.torn THEN "torn" ELSE @]
              \/ history' = [history EXCEPT !.blind = n,
                   !.lost = IF proc[p].prev = stall.count THEN @ ELSE "kept"]
          BY <2>2 DEF OpenStall, n
        <5> QED
          BY <4>2, <5>1
      <4> QED
        BY <4>1, <4>3
    <3>2. proc[p].warned \in BOOLEAN
      BY <1>1 DEF Runs
    <3>3. stall' = stall \/ stall' = [count |-> 0, torn |-> proc[p].warned]
      BY <2>2 DEF OpenStall
    <3>4. stall' \in Counts
      <4>1. [count |-> 0, torn |-> proc[p].warned] \in Counts
        BY <3>2 DEF Counts
      <4> QED
        BY <2>1, <3>3, <4>1
    <3>5. history' \in Pasts
      BY <2>1, <3>1 DEF Pasts
    <3> QED
      BY <3>4, <3>5
  <2>3. ASSUME proc[p].at \in {"comment", "patch"}, history' = Settled(p)
        PROVE  history' \in Pasts
    <3>1. proc[p].seen.text \in Texts \cup {Plain}
      BY <1>1 DEF Runs, Seen
    <3>2. history.done \cup {<<Card(p), proc[p].seen.text>>} \in SUBSET (Tickets \X (Texts \cup {Plain}))
      BY <1>2, <2>1, <2>3, <3>1 DEF Pasts
    <3> QED
      BY <2>1, <2>3, <3>2 DEF Settled, Pasts
  <2>4. CASE Comment(p) \/ Patch(p)
    <3>1. stall' = stall
      BY <2>4 DEF Comment, Patch, Files, ApplyFails, Unwind
    <3>2. history' = history \/ history' = Settled(p)
      BY <2>4 DEF Comment, Patch
    <3>3. proc[p].at \in {"comment", "patch"}
      BY <2>4 DEF Comment, Patch, At
    <3> QED
      BY <2>1, <2>3, <3>1, <3>2, <3>3
  <2>5. CASE WriteStall(p)
    <3>1. proc[p].prev \in Nat
      BY <1>1 DEF Runs
    <3>2. history' = history /\ (stall' = stall \/ stall' = [count |-> proc[p].prev, torn |-> FALSE])
      BY <2>5 DEF WriteStall
    <3>3. [count |-> proc[p].prev, torn |-> FALSE] \in Counts
      BY <3>1 DEF Counts
    <3> QED
      BY <2>1, <3>2, <3>3
  <2>6. CASE SkillSkip(p) \/ Spawn(p) \/ ReviewEnds(p) \/ Raises(p) \/ Kill(p) \/ Terminate(p)
    <3>1. stall' = stall /\ history' = history
      BY <2>6 DEF SkillSkip, Spawn, ReviewEnds, Raises, Kill, Terminate, Files, Unwind
    <3> QED
      BY <2>1, <3>1
  <2> QED
    BY <2>2, <2>4, <2>5, <2>6
<1>13. signals' \in Nat
  <2>1. signals \in Nat
    BY DEF Sane
  <2>2. signals' = signals \/ signals' = signals + 1
    BY DEF SkillSkip, Spawn, ReviewEnds, Comment, Patch, Raises, OpenStall, WriteStall, Kill, Terminate, Signal
  <2> QED
    BY <2>1, <2>2
<1> QED
  BY <1>9, <1>10, <1>11, <1>12, <1>13, SaneAgain DEF Moved

\* Every step leaves a sane state.
LEMMA SaneStep ==
  ASSUME Sane, [Next]_vars
  PROVE  Sane'
<1>1. CASE UNCHANGED vars
  BY <1>1 DEF vars, Sane
<1>2. CASE World
  BY <1>2, WorldIsSane
<1>3. CASE PidsAndTime
  BY <1>3 DEF PidsAndTime, Sane
<1>4. ASSUME NEW p \in Procs, Start(p) \/ Step(p) \/ Kill(p) \/ Terminate(p)
      PROVE  Sane'
  BY <1>4, QuietStepsAreSane, LoudStepsAreSane DEF Step
<1> QED
  BY <1>1, <1>2, <1>3, <1>4 DEF Next

LEMMA SaneAtFirst == Init => Sane
<1> SUFFICES ASSUME Init PROVE Sane
  OBVIOUS
<1>1. NoDetail \in Seen
  BY DEF NoDetail, Seen
<1>2. Asleep \in Runs /\ Asleep.at = "off"
  BY <1>1 DEF Asleep, Runs
<1>3. \A p \in Procs : proc[p] = Asleep
  BY DEF Init
<1>4. proc \in [Procs -> Runs]
  BY <1>2 DEF Init
<1>5. \A p \in Procs : proc[p].at = "off"
  BY <1>2, <1>3
<1>6. card \in [Tickets -> CardRecs]
  BY DEF Init, CardRecs
<1>7. \A p \in Procs : ~(proc[p].at \in Locked \cup {"ledger", "lock"})
  BY <1>5 DEF Locked
<1>8. live \in [Tickets -> Int] /\ stall \in Counts /\ signals \in Nat
  BY DEF Init, Counts
<1>9. history \in Pasts
  BY DEF Init, Pasts
<1> QED
  BY <1>4, <1>6, <1>7, <1>8, <1>9 DEF Sane

----------------------------------------------------------------------------
(* A step of one run, by what it may do. *)

\* Where a run with a card in hand goes with it.
Edges == {<<"ledger", "lock">>, <<"lock", "report">>, <<"lock", "prep">>, <<"report", "release">>,
          <<"prep", "reviewing">>, <<"prep", "release">>, <<"reviewing", "comment">>,
          <<"reviewing", "release">>, <<"comment", "patch">>, <<"comment", "append">>,
          <<"comment", "release">>, <<"patch", "append">>, <<"patch", "release">>,
          <<"append", "release">>}

\* What becomes of the run: its queue is a listing of blocked cards, or what it was, or
\* that without the card in hand.
Follows(p) ==
  \/ proc'[p] = proc[p]
  \/ proc'[p].at \in {"off", "init", "list", "stall", "count"}
  \/ /\ proc[p].at = "list" /\ proc'[p].at = "next"
     /\ \A t \in proc'[p].queue : card[t].status = "blocked"
  \/ /\ proc[p].at \in {"next", "ledger", "lock", "release"} /\ proc'[p].at = "next"
     /\ proc'[p].queue = proc[p].queue \ {Card(p)}
  \/ /\ proc[p].at = "next" /\ proc'[p].at = "ledger"
     /\ proc[p].queue # {} /\ proc'[p].queue = proc[p].queue /\ proc'[p].seen = Detail(Card(p))
  \/ /\ <<proc[p].at, proc'[p].at>> \in Edges
     /\ (proc'[p].at = "prep" => p \notin Scans) /\ (proc'[p].at = "report" => p \in Scans)
     /\ proc'[p].queue = proc[p].queue /\ proc'[p].seen = proc[p].seen

\* What it does to the cards: one SKIPPED comment or one PATCH, on the card in hand.
TouchesCards(p) ==
  \/ card' = card
  \/ /\ proc[p].at = "prep" /\ ~proc[p].seen.skipped /\ proc'[p].at \in {"release", "off"}
     /\ card' = [card EXCEPT ![Card(p)].skips = @ + 1]
  \/ /\ proc[p].at = "patch" /\ proc'[p].at \in {"append", "release", "off"}
     /\ card' = Patched(p)

\* What it does to the reviewers, unless the host interferes.
TouchesReviewers(p) ==
  \/ signals' # 0
  \/ live' = live /\ (proc'[p] = proc[p] \/ "reviewing" \notin {proc[p].at, proc'[p].at})
  \/ /\ proc[p].at = "prep" /\ proc'[p].at = "reviewing"
     /\ live' = [live EXCEPT ![Card(p)] = @ + 1]
  \/ /\ proc[p].at = "reviewing" /\ proc'[p].at \in {"comment", "release"}
     /\ live' = [live EXCEPT ![Card(p)] = @ - 1]

\* What it does to the ledger, and what of the past allows it.
TouchesLedger(p) ==
  /\ history.done \subseteq history'.done
  /\ proc'[p].at = "append" /\ proc[p].at # "append" =>
       <<Card(p), proc[p].seen.text>> \in history'.done
  /\ \/ ledger' = ledger
     \/ proc[p].at = "append" /\ ledger' = ledger \cup {<<Card(p), proc[p].seen.text>>}

RunStep(p) ==
  /\ \A q \in Procs \ {p} : proc'[q] = proc[q]
  /\ Follows(p) /\ TouchesCards(p) /\ TouchesReviewers(p) /\ TouchesLedger(p)

LEMMA GotoKeeps ==
  ASSUME Sane, NEW p \in Procs, NEW there, Goto(p, there)
  PROVE  /\ \A q \in Procs \ {p} : proc'[q] = proc[q]
         /\ proc'[p].at = there /\ proc'[p].queue = proc[p].queue /\ proc'[p].seen = proc[p].seen
<1>1. proc[p] \in Runs /\ proc \in [Procs -> Runs]
  BY DEF Sane
<1> QED
  BY <1>1 DEF Goto, Runs

LEMMA BecomesThat ==
  ASSUME Sane, NEW p \in Procs, NEW r, proc' = [proc EXCEPT ![p] = r]
  PROVE  proc'[p] = r /\ \A q \in Procs \ {p} : proc'[q] = proc[q]
BY DEF Sane

\* The card is passed over, or counted as processed.
LEMMA ThroughWithIt ==
  ASSUME Sane, NEW p \in Procs
  PROVE  /\ Passed(p).at = "next" /\ Passed(p).queue = proc[p].queue \ {Card(p)}
         /\ Processed(p).at = "release" /\ Processed(p).queue = proc[p].queue
         /\ Processed(p).seen = proc[p].seen
<1>1. proc[p] \in Runs
  BY DEF Sane
<1> QED
  BY <1>1 DEF Passed, Processed, Runs

LEMMA UnwindFalls ==
  ASSUME Sane, NEW p \in Procs, Unwind(p)
  PROVE  /\ \A q \in Procs \ {p} : proc'[q] = proc[q]
         /\ proc'[p].at = "off" /\ ledger' = ledger
<1>1. proc' = [proc EXCEPT ![p] = Asleep] /\ ledger' = ledger
  BY DEF Unwind
<1>2. Asleep.at = "off"
  BY DEF Asleep
<1> QED
  BY <1>1, <1>2, BecomesThat

LEMMA ApplyFailsFalls ==
  ASSUME Sane, NEW p \in Procs, ApplyFails(p)
  PROVE  /\ \A q \in Procs \ {p} : proc'[q] = proc[q]
         /\ ledger' = ledger
         /\ \/ proc'[p].at = "off"
            \/ /\ proc'[p].at = "release" /\ proc'[p].queue = proc[p].queue
               /\ proc'[p].seen = proc[p].seen
<1>1. CASE Unwind(p)
  BY <1>1, UnwindFalls
<1>2. CASE proc' = [proc EXCEPT ![p] = [Processed(p) EXCEPT !.warned = TRUE]] /\ Files
  <2> DEFINE r == [Processed(p) EXCEPT !.warned = TRUE]
  <2>1. Processed(p) \in Runs
    BY PartsAreSane
  <2>2. r.at = Processed(p).at /\ r.queue = Processed(p).queue /\ r.seen = Processed(p).seen
    BY <2>1 DEF Runs
  <2> HIDE DEF r
  <2>3. proc' = [proc EXCEPT ![p] = r]
    BY <1>2 DEF r
  <2> QED
    BY <1>2, <2>2, <2>3, BecomesThat, ThroughWithIt DEF Files
<1> QED
  BY <1>1, <1>2 DEF ApplyFails

\* A sweep works only while it holds the singleton.
HoldersWork == \A p \in Sweeps : proc[p].at \notin {"off", "stall", "count"} => at[p] = "holds"

LEMMA RunsStepByStep ==
  ASSUME Sane, HoldersWork, NEW p \in Procs, Start(p) \/ Step(p) \/ Kill(p) \/ Terminate(p)
  PROVE  RunStep(p)
<1> DEFINE Others == \A q \in Procs \ {p} : proc'[q] = proc[q]
           Kept   == proc'[p].queue = proc[p].queue /\ proc'[p].seen = proc[p].seen
           Past   == UNCHANGED <<card, ledger>> /\ history'.done = history.done
<1>1. ASSUME Others, Past, live' = live,
             \/ proc'[p] = proc[p]
             \/ proc'[p].at \in {"off", "init", "list", "stall", "count"} /\ proc[p].at # "reviewing"
      PROVE  RunStep(p)
  BY <1>1 DEF RunStep, Follows, TouchesCards, TouchesReviewers, TouchesLedger
<1>2. ASSUME Others, Past, live' = live, Follows(p), proc'[p].at \notin {"append", "reviewing"},
             proc[p].at # "reviewing"
      PROVE  RunStep(p)
  BY <1>2 DEF RunStep, TouchesCards, TouchesReviewers, TouchesLedger
<1>3. ASSUME Past, live' = live, proc' = [proc EXCEPT ![p] = Processed(p)], proc[p].at = "prep"
      PROVE  RunStep(p)
  BY <1>2, <1>3, BecomesThat, ThroughWithIt DEF Follows, Edges
<1>4. CASE Start(p) \/ SingletonAcquire(p) \/ Releasing(p)
  <2>1. Past /\ live' = live
    BY <1>4 DEF Start, SingletonAcquire, Releasing, Outside
  <2>2. UNCHANGED proc \/ (Goto(p, "init") /\ proc[p].at # "reviewing")
    <3>1. CASE SingletonAcquire(p)
      <4>1. proc[p].at \in {"off", "stall", "count"}
        BY <3>1 DEF HoldersWork, SingletonAcquire, Acquire, Open, Read, Remove, Reopen, Write, Moves
      <4> QED
        BY <3>1, <4>1 DEF SingletonAcquire, Goto
    <3> QED
      BY <1>4, <3>1 DEF Start, Releasing, Goto, At
  <2> QED
    BY <1>1, <2>1, <2>2, GotoKeeps
<1>5. CASE Initialize(p)
  <2>1. Past /\ live' = live /\ proc[p].at = "init"
    BY <1>5 DEF Initialize, Outside, At
  <2>2. CASE Goto(p, "off")
    BY <1>1, <2>1, <2>2, GotoKeeps
  <2>3. CASE proc' = [proc EXCEPT ![p].at = "list", ![p].prev = stall.count]
    <3>1. Others /\ proc'[p].at = "list"
      BY <2>3 DEF Sane, Runs
    <3> QED
      BY <1>1, <2>1, <3>1
  <2> QED
    BY <1>5, <2>2, <2>3 DEF Initialize
<1>6. CASE ListQueue(p)
  <2> DEFINE queue == {t \in Tickets : card[t].status = "blocked" /\ card[t].text \in Texts}
  <2>1. Past /\ live' = live /\ proc[p].at = "list"
    BY <1>6 DEF ListQueue, Outside, Files, At
  <2>2. Others /\ proc'[p].at = "next" /\ \A t \in proc'[p].queue : t \in queue
    <3>1. CASE proc' = [proc EXCEPT ![p].at = "next", ![p].queue = queue]
      BY <3>1 DEF Sane, Runs
    <3>2. ASSUME NEW n,
                 proc' = [proc EXCEPT ![p].at = "next", ![p].queue = {t \in queue : t <= n}, ![p].warned = TRUE]
          PROVE  Others /\ proc'[p].at = "next" /\ \A t \in proc'[p].queue : t \in queue
      <4> DEFINE some == {t \in queue : t <= n}
      <4>1. \A t \in some : t \in queue
        OBVIOUS
      <4>2. proc' = [proc EXCEPT ![p].at = "next", ![p].queue = some, ![p].warned = TRUE]
        BY <3>2
      <4> HIDE DEF some, queue
      <4> QED
        BY <4>1, <4>2 DEF Sane, Runs
    <3> QED
      BY <1>6, <3>1, <3>2 DEF ListQueue
  <2> QED
    BY <1>2, <2>1, <2>2 DEF Follows
<1>7. CASE ReadDetail(p)
  <2>1. Past /\ live' = live /\ proc[p].at = "next" /\ proc[p].queue # {}
    BY <1>7 DEF ReadDetail, Outside, Files, At
  <2>2. CASE PassOver(p)
    BY <1>2, <2>1, <2>2, BecomesThat, ThroughWithIt DEF PassOver, Follows
  <2>3. CASE proc' = [proc EXCEPT ![p].at = "ledger", ![p].seen = Detail(Card(p)), ![p].found = TRUE]
    <3> DEFINE d == Detail(Card(p))
    <3> HIDE DEF d
    <3>1. proc' = [proc EXCEPT ![p].at = "ledger", ![p].seen = d, ![p].found = TRUE]
      BY <2>3 DEF d
    <3>2. Others /\ proc'[p].at = "ledger" /\ proc'[p].queue = proc[p].queue /\ proc'[p].seen = d
      BY <3>1 DEF Sane, Runs
    <3> QED
      BY <1>2, <2>1, <3>2 DEF Follows, d
  <2>4. CASE proc' = [proc EXCEPT ![p] = [Passed(p) EXCEPT !.warned = TRUE]]
    <3> DEFINE r == [Passed(p) EXCEPT !.warned = TRUE]
    <3>1. r.at = "next" /\ r.queue = proc[p].queue \ {Card(p)}
      BY PartsAreSane DEF Runs
    <3> HIDE DEF r
    <3>2. proc' = [proc EXCEPT ![p] = r]
      BY <2>4 DEF r
    <3> QED
      BY <1>2, <2>1, <3>1, <3>2, BecomesThat DEF Follows
  <2> QED
    BY <1>7, <2>2, <2>3, <2>4 DEF ReadDetail
<1>8. CASE LedgerHas(p)
  <2>1. Past /\ live' = live /\ proc[p].at = "ledger"
    BY <1>8 DEF LedgerHas, Outside, Files, At
  <2>2. CASE PassOver(p)
    BY <1>2, <2>1, <2>2, BecomesThat, ThroughWithIt DEF PassOver, Follows
  <2>3. CASE Goto(p, "lock")
    BY <1>2, <2>1, <2>3, GotoKeeps DEF Follows, Edges
  <2> QED
    BY <1>8, <2>2, <2>3 DEF LedgerHas
<1>9. CASE LockAcquire(p)
  <2>1. Past /\ live' = live /\ proc[p].at = "lock"
    BY <1>9 DEF LockAcquire, Outside, At
  <2>2. CASE PassOver(p)
    BY <1>2, <2>1, <2>2, BecomesThat, ThroughWithIt DEF PassOver, Follows
  <2>3. CASE Goto(p, "report") /\ p \in Scans
    BY <1>2, <2>1, <2>3, GotoKeeps DEF Follows, Edges
  <2>4. CASE Goto(p, "prep") /\ p \notin Scans
    BY <1>2, <2>1, <2>4, GotoKeeps DEF Follows, Edges
  <2> QED
    BY <1>9, <2>2, <2>3, <2>4 DEF LockAcquire
<1>10. CASE ScanReports(p)
  <2>1. Past /\ live' = live /\ proc[p].at = "report" /\ Goto(p, "release")
    BY <1>10 DEF ScanReports, Outside, At
  <2> QED
    BY <1>2, <2>1, GotoKeeps DEF Follows, Edges
<1>11. CASE PushPending(p)
  BY <1>3, <1>11 DEF PushPending, Outside, Files, At
<1>12. CASE Release(p)
  <2>1. Past /\ live' = live /\ proc[p].at = "release" /\ PassOver(p)
    BY <1>12 DEF Release, Outside, At
  <2> QED
    BY <1>2, <2>1, BecomesThat, ThroughWithIt DEF PassOver, Follows
<1>13. CASE Finish(p)
  <2>1. Past /\ live' = live /\ proc[p].at = "next" /\ proc' = [proc EXCEPT ![p] = Counted(p)]
    BY <1>13 DEF Finish, Outside, At
  <2>2. Others /\ proc'[p].at = "stall"
    BY <2>1, BecomesThat, PartsAreSane
  <2> QED
    BY <1>1, <2>1, <2>2
<1>14. CASE LedgerAppend(p)
  <2>1. proc[p].at = "append" /\ Outside /\ ledger' = ledger \cup {<<Card(p), proc[p].seen.text>>}
        /\ proc' = [proc EXCEPT ![p] = Processed(p)]
    BY <1>14 DEF LedgerAppend, At
  <2>2. Others /\ proc'[p].at = "release" /\ Kept
    <3>1. Others /\ proc'[p] = Processed(p)
      BY <2>1, BecomesThat
    <3> QED
      BY <3>1, ThroughWithIt
  <2>3. Follows(p)
    BY <2>1, <2>2 DEF Follows, Edges
  <2> QED
    BY <2>1, <2>2, <2>3 DEF RunStep, TouchesCards, TouchesReviewers, TouchesLedger, Outside
<1>15. CASE OpenStall(p) \/ WriteStall(p)
  <2>1. Past /\ live' = live /\ proc[p].at \in {"stall", "count"}
    <3>1. history'.done = history.done
      BY <1>15 DEF OpenStall, WriteStall, Sane, Pasts
    <3> QED
      BY <1>15, <3>1 DEF OpenStall, WriteStall, At
  <2>2. Others /\ proc'[p].at \in {"off", "count"}
    <3>1. Asleep.at = "off"
      BY DEF Asleep
    <3>2. Goto(p, "count") \/ proc' = [proc EXCEPT ![p] = Asleep]
      BY <1>15 DEF OpenStall, WriteStall
    <3> QED
      BY <3>1, <3>2, GotoKeeps, BecomesThat
  <2> QED
    BY <1>1, <2>1, <2>2
<1>16. CASE SkillSkip(p)
  <2>1. proc[p].at = "prep" /\ UNCHANGED <<live, history, signals>>
    BY <1>16 DEF SkillSkip, At
  <2>2. CASE card' = card /\ proc' = [proc EXCEPT ![p] = Processed(p)] /\ Files
    BY <1>3, <2>1, <2>2 DEF Files
  <2>3. CASE card' = card /\ Unwind(p)
    BY <1>1, <2>1, <2>3, UnwindFalls
  <2>4. CASE /\ ~proc[p].seen.skipped /\ card' = [card EXCEPT ![Card(p)].skips = @ + 1]
             /\ Unwind(p) \/ (proc' = [proc EXCEPT ![p] = Processed(p)] /\ Files)
    <3>1. /\ Others /\ ledger' = ledger
          /\ proc'[p].at = "off" \/ (proc'[p].at = "release" /\ Kept)
      <4>1. CASE Unwind(p)
        BY <4>1, UnwindFalls
      <4>2. CASE proc' = [proc EXCEPT ![p] = Processed(p)] /\ Files
        <5>1. Others /\ proc'[p] = Processed(p)
          BY <4>2, BecomesThat
        <5> QED
          BY <4>2, <5>1, ThroughWithIt DEF Files
      <4> QED
        BY <2>4, <4>1, <4>2
    <3>2. Follows(p)
      BY <2>1, <3>1 DEF Follows, Edges
    <3> QED
      BY <2>1, <2>4, <3>1, <3>2 DEF RunStep, TouchesCards, TouchesReviewers, TouchesLedger
  <2> QED
    BY <1>16, <2>2, <2>3, <2>4 DEF SkillSkip
<1>17. CASE Spawn(p)
  <2>1. /\ proc[p].at = "prep" /\ UNCHANGED <<card, history, ledger>>
        /\ live' = [live EXCEPT ![Card(p)] = @ + 1] /\ Goto(p, "reviewing")
    BY <1>17 DEF Spawn, At, Files
  <2>2. Others /\ proc'[p].at = "reviewing" /\ Kept
    BY <2>1, GotoKeeps
  <2>3. Follows(p)
    BY <2>1, <2>2 DEF Follows, Edges
  <2> QED
    BY <2>1, <2>2, <2>3 DEF RunStep, TouchesCards, TouchesReviewers, TouchesLedger
<1>18. CASE ReviewEnds(p)
  <2>1. /\ proc[p].at = "reviewing" /\ UNCHANGED <<card, history, ledger>>
        /\ live' = [live EXCEPT ![Card(p)] = @ - 1]
    BY <1>18 DEF ReviewEnds, At
  <2>2. Others /\ proc'[p].at \in {"comment", "release"} /\ Kept
    <3>1. ASSUME NEW v \in {"approve", "changes", "escalate", "unparsed"},
                 proc' = [proc EXCEPT ![p].at = "comment", ![p].verdict = v]
          PROVE  Others /\ proc'[p].at \in {"comment", "release"} /\ Kept
      BY <3>1 DEF Sane, Runs
    <3>2. CASE proc' = [proc EXCEPT ![p] = [Processed(p) EXCEPT !.verdict = "failed"]]
      <4> DEFINE r == [Processed(p) EXCEPT !.verdict = "failed"]
      <4>1. r.at = Processed(p).at /\ r.queue = Processed(p).queue /\ r.seen = Processed(p).seen
        BY PartsAreSane DEF Runs
      <4> HIDE DEF r
      <4>2. proc' = [proc EXCEPT ![p] = r]
        BY <3>2 DEF r
      <4> QED
        BY <4>1, <4>2, BecomesThat, ThroughWithIt
    <3> QED
      BY <1>18, <3>1, <3>2 DEF ReviewEnds
  <2>3. Follows(p)
    BY <2>1, <2>2 DEF Follows, Edges
  <2> QED
    BY <2>1, <2>2, <2>3 DEF RunStep, TouchesCards, TouchesReviewers, TouchesLedger
<1>19. ASSUME proc[p].at \in {"comment", "patch"}, live' = live,
              \/ Goto(p, "append") /\ Files /\ history' = Settled(p)
              \/ Goto(p, "patch") /\ Files /\ proc[p].at = "comment" /\ history' = history
              \/ ApplyFails(p) /\ history' = history
       PROVE  /\ Others /\ Follows(p) /\ TouchesReviewers(p) /\ TouchesLedger(p)
              /\ proc[p].at = "patch" => proc'[p].at \in {"append", "release", "off"}
  <2>1. Settled(p).done = history.done \cup {<<Card(p), proc[p].seen.text>>}
    BY DEF Settled, Sane, Pasts
  <2>2. /\ Others /\ ledger' = ledger
        /\ \/ proc'[p].at = "append" /\ Kept /\ history' = Settled(p)
           \/ proc[p].at = "comment" /\ proc'[p].at = "patch" /\ Kept /\ history' = history
           \/ proc'[p].at = "release" /\ Kept /\ history' = history
           \/ proc'[p].at = "off" /\ history' = history
    BY <1>19, GotoKeeps, ApplyFailsFalls DEF Files
  <2> HIDE DEF Others, Kept
  <2>3. Follows(p)
    BY <1>19, <2>2 DEF Follows, Edges, Kept
  <2>4. TouchesLedger(p)
    BY <1>19, <2>1, <2>2 DEF TouchesLedger
  <2> QED
    BY <1>19, <2>2, <2>3, <2>4 DEF TouchesReviewers
<1>20. CASE Comment(p)
  <2>1. proc[p].at = "comment" /\ live' = live /\ card' = card
    BY <1>20 DEF Comment, At
  <2>2. Others /\ Follows(p) /\ TouchesReviewers(p) /\ TouchesLedger(p)
    BY <1>19, <1>20, <2>1 DEF Comment
  <2> QED
    BY <2>1, <2>2 DEF RunStep, TouchesCards
<1>21. CASE Patch(p)
  <2>1. proc[p].at = "patch" /\ live' = live /\ card' \in {card, Patched(p)}
    BY <1>21 DEF Patch, At
  <2>2. /\ Others /\ Follows(p) /\ TouchesReviewers(p) /\ TouchesLedger(p)
        /\ proc'[p].at \in {"append", "release", "off"}
    BY <1>19, <1>21, <2>1 DEF Patch
  <2> QED
    BY <2>1, <2>2 DEF RunStep, TouchesCards
<1>22. CASE Kill(p) \/ Terminate(p)
  <2>1. /\ UNCHANGED <<card, history, live>> /\ signals' # 0
        /\ ledger' = ledger /\ proc' = [proc EXCEPT ![p] = Asleep]
    <3>1. signals \in Nat
      BY DEF Sane
    <3> QED
      BY <1>22, <3>1 DEF Kill, Terminate, Signal, Unwind
  <2>2. Others /\ proc'[p].at = "off"
    <3>1. Asleep.at = "off"
      BY DEF Asleep
    <3> QED
      BY <2>1, <3>1, BecomesThat
  <2> QED
    BY <2>1, <2>2 DEF RunStep, Follows, TouchesCards, TouchesReviewers, TouchesLedger
<1>23. CASE Raises(p)
  <2>1. Past /\ live' = live /\ proc[p].at # "reviewing"
    BY <1>23 DEF Raises, Uncaught, Unwind
  <2> QED
    BY <1>1, <1>23, <2>1, UnwindFalls DEF Raises
<1> QED
  BY <1>4, <1>5, <1>6, <1>7, <1>8, <1>9, <1>10, <1>11, <1>12, <1>13, <1>14, <1>15, <1>16, <1>17,
     <1>18, <1>20, <1>21, <1>22, <1>23 DEF Step

LEMMA CardStays ==
  ASSUME NEW p, proc'[p].queue = proc[p].queue
  PROVE  Card(p)' = Card(p)
BY DEF Card

\* A run that came by its place keeping its queue is at the same card still.
LEMMA SameCard ==
  ASSUME NEW p, Follows(p),
         proc'[p].at \in {"ledger", "lock", "report", "prep", "reviewing", "comment", "patch", "append", "release"}
  PROVE  proc'[p].queue = proc[p].queue /\ Card(p)' = Card(p)
<1>1. proc'[p].queue = proc[p].queue
  BY DEF Follows
<1> QED
  BY <1>1, CardStays

LEMMA WorldLeavesRuns ==
  ASSUME World \/ PidsAndTime
  PROVE  UNCHANGED <<at, lock, ledger, stall, proc, signals, history>>
BY DEF World, Block, Push, PersonMoves, ThreadGrows, OrphanEnds, Sweeper, PidsAndTime, Host

----------------------------------------------------------------------------
(* The ledger. *)

LedgerInv ==
  /\ LedgerIsEarned
  /\ \A p \in Procs : proc[p].at = "append" => <<Card(p), proc[p].seen.text>> \in history.done

LEMMA LedgerInvStep ==
  ASSUME Sane, HoldersWork, LedgerInv, [Next]_vars
  PROVE  LedgerInv'
<1>1. CASE UNCHANGED vars \/ World \/ PidsAndTime
  <2>1. UNCHANGED <<ledger, proc, history>>
    BY <1>1, WorldLeavesRuns DEF vars
  <2>2. \A p : Card(p)' = Card(p)
    BY <2>1, CardStays
  <2> QED
    BY <2>1, <2>2 DEF LedgerInv, LedgerIsEarned
<1>2. ASSUME NEW p \in Procs, Start(p) \/ Step(p) \/ Kill(p) \/ Terminate(p)
      PROVE  LedgerInv'
  <2>1. RunStep(p)
    BY <1>2, RunsStepByStep
  <2>2. LedgerIsEarned'
    BY <2>1 DEF RunStep, TouchesLedger, LedgerInv, LedgerIsEarned
  <2>3. ASSUME NEW q \in Procs, proc'[q].at = "append"
        PROVE  <<Card(q)', proc'[q].seen.text>> \in history'.done
    <3>1. CASE q = p
      <4>1. Card(p)' = Card(p)
        BY <2>1, <2>3, <3>1, SameCard DEF RunStep
      <4>2. proc'[p].seen = proc[p].seen
        BY <2>1, <2>3, <3>1 DEF RunStep, Follows
      <4> QED
        BY <2>1, <2>3, <3>1, <4>1, <4>2 DEF RunStep, TouchesLedger, LedgerInv
    <3>2. CASE q # p
      <4>1. proc'[q] = proc[q]
        BY <2>1, <3>2 DEF RunStep
      <4>2. Card(q)' = Card(q)
        BY <4>1, CardStays
      <4> QED
        BY <2>1, <2>3, <4>1, <4>2 DEF RunStep, TouchesLedger, LedgerInv
    <3> QED
      BY <3>1, <3>2
  <2> QED
    BY <2>2, <2>3 DEF LedgerInv
<1> QED
  BY <1>1, <1>2 DEF Next

----------------------------------------------------------------------------
(* Sweeps are alone at work, and scans only report. *)

ScansOnlyReport ==
  /\ \A p \in Scans : proc[p].at \notin {"prep", "reviewing", "comment", "patch", "append"}
  /\ \A p \in Sweeps : proc[p].at # "report"

LEMMA OnlyItsOwn ==
  ASSUME LockTypeOK, NEW p \in Procs, Start(p) \/ Step(p) \/ Kill(p) \/ Terminate(p)
  PROVE  \A q \in Sweeps : q # p => at'[q] = at[q]
<1> DEFINE Own == \A q \in Sweeps : q # p => at'[q] = at[q]
<1>1. ASSUME Begin(p) \/ Acquire(p) \/ Leave(p) \/ LetGo(p) \/ Dies(p) \/ UNCHANGED at
      PROVE  Own
  <2>1. (\E from, to : Moves(p, from, to)) \/ Dies(p) \/ UNCHANGED at
    BY <1>1 DEF Begin, Acquire, Open, Read, Remove, Reopen, Write, Leave, LetGo, CheckOwn, Drop
  <2> QED
    BY <2>1 DEF Moves, Dies, LockTypeOK
<1>2. ASSUME Unwind(p)
      PROVE  Own
  BY <1>1, <1>2 DEF Unwind, SingletonRelease, Vanishes
<1>3. CASE Start(p) \/ SingletonAcquire(p) \/ Releasing(p) \/ Initialize(p) \/ Finish(p) \/ Kill(p)
  BY <1>1, <1>3 DEF Start, SingletonAcquire, Releasing, Initialize, Finish, Kill, SingletonRelease, Vanishes
<1>4. CASE \/ ListQueue(p) \/ ReadDetail(p) \/ LedgerHas(p) \/ LockAcquire(p) \/ ScanReports(p)
           \/ PushPending(p) \/ Spawn(p) \/ ReviewEnds(p) \/ LedgerAppend(p) \/ Release(p)
           \/ OpenStall(p) \/ WriteStall(p)
  BY <1>1, <1>4 DEF ListQueue, ReadDetail, LedgerHas, LockAcquire, ScanReports, PushPending, Spawn,
                    ReviewEnds, LedgerAppend, Release, OpenStall, WriteStall, Files
<1>5. CASE SkillSkip(p) \/ Comment(p) \/ Patch(p) \/ Raises(p) \/ Terminate(p)
  BY <1>1, <1>2, <1>5 DEF SkillSkip, Comment, Patch, Raises, Terminate, ApplyFails, Files
<1> QED
  BY <1>3, <1>4, <1>5 DEF Step

LEMMA HoldersWorkStep ==
  ASSUME LockTypeOK, Sane, HoldersWork, [Next]_vars
  PROVE  HoldersWork'
<1>1. CASE UNCHANGED vars \/ World \/ PidsAndTime
  BY <1>1, WorldLeavesRuns DEF vars, HoldersWork
<1>2. ASSUME NEW p \in Procs, Start(p) \/ Step(p) \/ Kill(p) \/ Terminate(p)
      PROVE  HoldersWork'
  <2>1. RunStep(p)
    BY <1>2, RunsStepByStep
  <2>2. \A q \in Sweeps : q # p => at'[q] = at[q] /\ proc'[q] = proc[q]
    BY <1>2, <2>1, OnlyItsOwn DEF RunStep, Procs
  <2> SUFFICES ASSUME p \in Sweeps, proc'[p].at \notin {"off", "stall", "count"}
               PROVE  at'[p] = "holds"
    BY <2>2 DEF HoldersWork
  <2> USE DEF HoldersWork, At
  <2>3. CASE Start(p)
    BY <2>3, SweeperAssumption DEF Start
  <2>4. CASE SingletonAcquire(p)
    BY <2>4 DEF SingletonAcquire, Acquire, Open, Read, Remove, Reopen, Write, Moves
  <2>5. CASE Releasing(p)
    BY <2>5 DEF Releasing, LetGo, CheckOwn, Drop, Moves
  <2>6. CASE Initialize(p)
    BY <2>6, GotoKeeps DEF Initialize
  <2>7. CASE Finish(p)
    <3>1. proc'[p] = Counted(p)
      BY <2>7, BecomesThat DEF Finish
    <3>2. Counted(p).at = "stall"
      BY DEF Counted, Asleep
    <3> QED
      BY <3>1, <3>2
  <2>8. CASE \/ ListQueue(p) \/ ReadDetail(p) \/ LedgerHas(p) \/ LockAcquire(p) \/ ScanReports(p)
             \/ PushPending(p) \/ Spawn(p) \/ ReviewEnds(p) \/ LedgerAppend(p) \/ Release(p)
    BY <2>8 DEF ListQueue, ReadDetail, LedgerHas, LockAcquire, ScanReports, PushPending, Spawn,
                ReviewEnds, LedgerAppend, Release, Files
  <2>9. CASE OpenStall(p) \/ WriteStall(p) \/ Raises(p) \/ Kill(p) \/ Terminate(p)
    <3>1. Goto(p, "count") \/ proc' = [proc EXCEPT ![p] = Asleep]
      BY <2>9 DEF OpenStall, WriteStall, Raises, Kill, Terminate, Unwind
    <3>2. Asleep.at = "off"
      BY DEF Asleep
    <3>3. CASE Goto(p, "count")
      BY <3>3, GotoKeeps
    <3>4. CASE proc' = [proc EXCEPT ![p] = Asleep]
      BY <3>2, <3>4, BecomesThat
    <3> QED
      BY <3>1, <3>3, <3>4
  <2>10. CASE SkillSkip(p) \/ Comment(p) \/ Patch(p)
    <3>1. proc[p].at \in {"prep", "comment", "patch"}
      BY <2>10 DEF SkillSkip, Comment, Patch
    <3>2. ~Unwind(p)
      BY UnwindFalls
    <3> QED
      BY <2>10, <3>1, <3>2 DEF SkillSkip, Comment, Patch, ApplyFails, Files
  <2> QED
    BY <1>2, <2>3, <2>4, <2>5, <2>6, <2>7, <2>8, <2>9, <2>10 DEF Step
<1> QED
  BY <1>1, <1>2 DEF Next

LEMMA ScansOnlyReportStep ==
  ASSUME Sane, HoldersWork, ScansOnlyReport, [Next]_vars
  PROVE  ScansOnlyReport'
<1>1. CASE UNCHANGED vars \/ World \/ PidsAndTime
  BY <1>1, WorldLeavesRuns DEF vars, ScansOnlyReport
<1>2. ASSUME NEW p \in Procs, Start(p) \/ Step(p) \/ Kill(p) \/ Terminate(p)
      PROVE  ScansOnlyReport'
  <2>1. RunStep(p)
    BY <1>2, RunsStepByStep
  <2> QED
    BY <2>1, SweeperAssumption DEF RunStep, Follows, Edges, ScansOnlyReport, Procs
<1> QED
  BY <1>1, <1>2 DEF Next

\* Two sweeps are not at work at once.
LEMMA AloneAtWork ==
  ASSUME LockInv, HoldersWork, NEW p \in Sweeps, NEW q \in Sweeps,
         proc[p].at \notin {"off", "stall", "count"}, proc[q].at \notin {"off", "stall", "count"}
  PROVE  p = q
BY DEF LockInv, HoldersWork, Holding

----------------------------------------------------------------------------
(* The sweeper's marks on the cards. *)

\* A blocked card was not moved since; the cards left to a sweep were not moved since it
\* listed them, and a card whose SKIPPED comment it did not see shows none.
CardsInv ==
  /\ MovedOnce /\ SkippedOnce
  /\ \A t \in Tickets : card[t].status = "blocked" => card[t].patches = 0
  /\ \A p \in Sweeps : \A t \in proc[p].queue :
       \/ proc[p].at \in {"next", "ledger", "lock", "prep", "reviewing", "comment", "patch"}
       \/ proc[p].at \in {"append", "release"} /\ t # Card(p)
       => card[t].patches = 0
  /\ \A p \in Sweeps :
       proc[p].at \in {"ledger", "lock", "prep"} /\ ~proc[p].seen.skipped => card[Card(p)].skips = 0

\* What others do to the cards: a block forgets the move, and other comments may hide the
\* sweeper's.
LEMMA WorldKeepsMarks ==
  ASSUME Sane, World
  PROVE  \A t \in Tickets :
           /\ card'[t].skips \in 0..card[t].skips
           /\ card'[t].patches = card[t].patches \/ card'[t].patches = 0
           /\ card'[t].status = "blocked" => card[t].status = "blocked" \/ card'[t].patches = 0
<1>1. card \in [Tickets -> CardRecs] /\ \A t \in Tickets : card[t] \in CardRecs
  BY DEF Sane
<1> PICK t \in Tickets : Block(t) \/ Push(t) \/ PersonMoves(t) \/ ThreadGrows(t) \/ OrphanEnds(t)
  BY DEF World
<1>2. CASE Block(t)
  <2>1. PICK text, pushed :
          card' = [card EXCEPT ![t].status = "blocked", ![t].text = text, ![t].pushed = pushed,
                               ![t].block = @ + 1, ![t].patches = 0]
    BY <1>2 DEF Block
  <2>2. /\ \A u \in Tickets \ {t} : card'[u] = card[u]
        /\ card'[t].skips = card[t].skips /\ card'[t].patches = 0
    BY <1>1, <2>1 DEF CardRecs
  <2>3. \A u \in Tickets : card'[u].skips = card[u].skips
    BY <2>2
  <2> QED
    BY <1>1, <2>2, <2>3 DEF CardRecs
<1>3. CASE Push(t)
  BY <1>1, <1>3 DEF Push, CardRecs
<1>4. CASE PersonMoves(t)
  BY <1>1, <1>4 DEF PersonMoves, CardRecs
<1>5. CASE OrphanEnds(t)
  BY <1>1, <1>5 DEF OrphanEnds, CardRecs
<1>6. CASE ThreadGrows(t)
  <2>1. PICK skips \in 0..card[t].skips - 1 : card' = [card EXCEPT ![t].skips = skips]
    BY <1>6 DEF ThreadGrows
  <2>2. card[t].skips \in Nat /\ card'[t].skips = skips
    BY <1>1, <2>1 DEF CardRecs
  <2>3. \A u \in Tickets : card'[u].patches = card[u].patches /\ card'[u].status = card[u].status
    BY <1>1, <2>1 DEF CardRecs
  <2>4. \A u \in Tickets \ {t} : card'[u].skips = card[u].skips /\ card[u].skips \in Nat
    BY <1>1, <2>1 DEF CardRecs
  <2> QED
    BY <2>1, <2>2, <2>3, <2>4
<1> QED
  BY <1>2, <1>3, <1>4, <1>5, <1>6

\* What a run does to them.
LEMMA RunKeepsMarks ==
  ASSUME Sane, NEW p \in Procs, TouchesCards(p)
  PROVE  \A t \in Tickets :
           /\ \/ card'[t].skips = card[t].skips
              \/ /\ proc[p].at = "prep" /\ ~proc[p].seen.skipped /\ t = Card(p)
                 /\ proc'[p].at \in {"release", "off"} /\ card'[t].skips = card[t].skips + 1
           /\ \/ card'[t].patches = card[t].patches /\ card'[t].status = card[t].status
              \/ /\ proc[p].at = "patch" /\ proc'[p].at \in {"append", "release", "off"} /\ t = Card(p)
                 /\ card'[t].patches = card[t].patches + 1 /\ card'[t].status # "blocked"
<1>1. card \in [Tickets -> CardRecs] /\ \A t \in Tickets : card[t] \in CardRecs
  BY DEF Sane
<1>2. proc[p].at \in {"prep", "patch"} => Card(p) \in Tickets
  BY CardIsQueued DEF Sane, Runs, Locked
<1>3. CASE card' = card
  BY <1>3
<1>4. CASE /\ proc[p].at = "prep" /\ ~proc[p].seen.skipped /\ proc'[p].at \in {"release", "off"}
           /\ card' = [card EXCEPT ![Card(p)].skips = @ + 1]
  BY <1>1, <1>2, <1>4 DEF CardRecs
<1>5. CASE /\ proc[p].at = "patch" /\ proc'[p].at \in {"append", "release", "off"}
           /\ card' = Patched(p)
  <2> DEFINE s == IF proc[p].verdict = "approve" THEN "done" ELSE "open"
  <2>1. s # "blocked" /\ card' = [card EXCEPT ![Card(p)].status = s, ![Card(p)].patches = @ + 1]
    BY <1>5 DEF Patched
  <2> HIDE DEF s
  <2> QED
    BY <1>1, <1>2, <1>5, <2>1 DEF CardRecs
<1> QED
  BY <1>3, <1>4, <1>5 DEF TouchesCards

LEMMA CardsInvStep ==
  ASSUME Sane, LockInv, HoldersWork, ScansOnlyReport, CardsInv, [Next]_vars
  PROVE  CardsInv'
<1> USE DEF MovedOnce, SkippedOnce
<1>0. \A t \in Tickets : card[t].skips \in Nat /\ card[t].patches \in Nat
  BY DEF Sane, CardRecs
<1>00. \A p \in Procs : /\ proc[p].queue \subseteq Tickets
                        /\ proc[p].queue # {} => Card(p) \in proc[p].queue
                        /\ proc[p].at \in {"ledger", "lock", "prep", "patch"} => proc[p].queue # {}
  BY CardIsQueued DEF Sane, Runs, Locked
<1>1. CASE UNCHANGED vars \/ PidsAndTime
  <2>1. UNCHANGED <<card, proc>>
    BY <1>1 DEF vars, PidsAndTime
  <2>2. \A p : Card(p)' = Card(p)
    BY <2>1, CardStays
  <2> QED
    BY <2>1, <2>2 DEF CardsInv
<1>2. CASE World
  <2>1. UNCHANGED proc
    BY <1>2, WorldLeavesRuns
  <2>2. \A p : Card(p)' = Card(p)
    BY <2>1, CardStays
  <2> QED
    BY <1>2, <1>0, <1>00, <2>1, <2>2, WorldKeepsMarks DEF CardsInv, Procs
<1>3. ASSUME NEW p \in Procs, Start(p) \/ Step(p) \/ Kill(p) \/ Terminate(p)
      PROVE  CardsInv'
  <2>1. RunStep(p)
    BY <1>3, RunsStepByStep
  <2>2. \A q \in Procs : q # p => proc'[q] = proc[q] /\ Card(q)' = Card(q)
    BY <2>1, CardStays DEF RunStep
  <2>3. /\ Follows(p) /\ TouchesCards(p)
        /\ proc[p].at \in {"prep", "patch"} => p \in Sweeps /\ Card(p) \in proc[p].queue /\ Card(p) \in Tickets
    BY <1>00, <2>1 DEF RunStep, ScansOnlyReport, Procs
  <2>4. MovedOnce' /\ SkippedOnce' /\ \A t \in Tickets : card'[t].status = "blocked" => card'[t].patches = 0
    <3>1. ASSUME NEW t \in Tickets
          PROVE  card'[t].skips <= 1
      <4>1. card[t].skips <= 1 /\ card[t].skips \in Nat
        BY <1>0 DEF CardsInv
      <4>2. proc[p].at = "prep" /\ ~proc[p].seen.skipped /\ t = Card(p) => card[t].skips = 0
        BY <2>3 DEF CardsInv
      <4> QED
        BY <2>3, <4>1, <4>2, RunKeepsMarks
    <3>2. ASSUME NEW t \in Tickets
          PROVE  card'[t].patches <= 1 /\ (card'[t].status = "blocked" => card'[t].patches = 0)
      <4>1. card[t].patches <= 1 /\ (card[t].status = "blocked" => card[t].patches = 0)
        BY DEF CardsInv
      <4>2. proc[p].at = "patch" /\ t = Card(p) => card[t].patches = 0
        BY <2>3 DEF CardsInv
      <4> QED
        BY <2>3, <4>1, <4>2, RunKeepsMarks
    <3> QED
      BY <3>1, <3>2
  <2>5. ASSUME NEW q \in Sweeps, NEW t \in proc'[q].queue,
               \/ proc'[q].at \in {"next", "ledger", "lock", "prep", "reviewing", "comment", "patch"}
               \/ proc'[q].at \in {"append", "release"} /\ t # Card(q)'
        PROVE  card'[t].patches = 0
    <3>0. Sane'
      BY SaneStep
    <3>1. t \in Tickets
      BY <3>0 DEF Sane, Runs, Procs
    <3>2. CASE q # p
      <4>1. card[t].patches = 0
        BY <2>2, <2>5, <3>2 DEF CardsInv, Procs
      <4>2. proc[p].at # "patch"
        BY <2>2, <2>3, <2>5, <3>2, AloneAtWork DEF Procs
      <4> QED
        BY <2>3, <3>1, <4>1, <4>2, RunKeepsMarks
    <3>3. CASE q = p
      <4>1. card[t].patches = 0
        <5>1. CASE proc'[p] = proc[p]
          <6>1. Card(p)' = Card(p)
            BY <5>1, CardStays
          <6> QED
            BY <2>5, <3>3, <5>1, <6>1 DEF CardsInv
        <5>2. CASE proc[p].at = "list"
          BY <2>3, <2>5, <3>1, <3>3, <5>2 DEF CardsInv, Follows, Edges
        <5>3. CASE proc'[p] # proc[p] /\ proc'[p].at = "next" /\ proc[p].at # "list"
          BY <2>3, <2>5, <3>3, <5>3 DEF CardsInv, Follows, Edges
        <5>4. CASE proc'[p] # proc[p] /\ proc'[p].at # "next" /\ proc[p].at # "list"
          <6>1. proc'[p].queue = proc[p].queue /\ Card(p)' = Card(p)
            BY <2>3, <2>5, <3>3, SameCard, <5>4
          <6> QED
            BY <2>3, <2>5, <3>3, <5>4, <6>1 DEF CardsInv, Follows, Edges, ScansOnlyReport
        <5> QED
          BY <5>1, <5>2, <5>3, <5>4
      <4>2. ~(proc[p].at = "patch" /\ proc'[p].at \in {"append", "release", "off"} /\ t = Card(p))
        BY <2>3, <2>5, <3>3, SameCard
      <4> QED
        BY <2>3, <3>1, <4>1, <4>2, RunKeepsMarks
    <3> QED
      BY <3>2, <3>3
  <2>6. ASSUME NEW q \in Sweeps, proc'[q].at \in {"ledger", "lock", "prep"}, ~proc'[q].seen.skipped
        PROVE  card'[Card(q)'].skips = 0
    <3>1. CASE q # p
      <4>1. proc'[q] = proc[q] /\ Card(q)' = Card(q) /\ Card(q) \in Tickets
        BY <1>00, <2>2, <2>6, <3>1 DEF Procs
      <4>2. proc[p].at # "prep"
        BY <2>3, <2>6, <3>1, <4>1, AloneAtWork
      <4>3. card'[Card(q)].skips = card[Card(q)].skips
        BY <2>3, <4>1, <4>2, RunKeepsMarks
      <4> QED
        BY <2>6, <4>1, <4>3 DEF CardsInv
    <3>2. CASE q = p
      <4>1. proc'[p].queue = proc[p].queue /\ Card(p)' = Card(p)
        BY <2>3, <2>6, <3>2, SameCard
      <4>2. Card(p) \in Tickets
        BY <1>00, <2>3, <2>6, <3>2 DEF Follows, Edges
      <4>3. card'[Card(p)].skips = card[Card(p)].skips
        BY <2>3, <2>6, <3>2, <4>2, RunKeepsMarks
      <4>4. card[Card(p)].skips = 0
        <5>1. CASE proc[p].at \in {"ledger", "lock", "prep"} /\ proc'[p].seen = proc[p].seen
          BY <2>6, <3>2, <5>1 DEF CardsInv
        <5>2. CASE proc'[p].seen = Detail(Card(p))
          <6> DEFINE some == card[Card(p)].skips > 0
          <6>1. Detail(Card(p)).skipped = some
            BY <4>2, DetailIsSeen
          <6>2. ~some
            BY <2>6, <3>2, <5>2, <6>1
          <6> QED
            BY <1>0, <4>2, <6>2
        <5> QED
          BY <2>3, <2>6, <3>2, <5>1, <5>2 DEF Follows, Edges
      <4> QED
        BY <3>2, <4>1, <4>3, <4>4
    <3> QED
      BY <3>1, <3>2
  <2> QED
    BY <2>4, <2>5, <2>6 DEF CardsInv
<1> QED
  BY <1>1, <1>2, <1>3 DEF Next

----------------------------------------------------------------------------
(* The reviewers. *)

Reviewed(t) == \E p \in Procs : proc[p].at = "reviewing" /\ Card(p) = t

\* While the host lets them, there are as many reviewers as runs that wait for one.
ReviewersInv == signals = 0 => \A t \in Tickets : live[t] = IF Reviewed(t) THEN 1 ELSE 0

LEMMA ReviewersInvStep ==
  ASSUME Sane, LockInv, HoldersWork, ScansOnlyReport, ReviewersInv, [Next]_vars
  PROVE  ReviewersInv'
<1>0. live \in [Tickets -> Int]
  BY DEF Sane
<1>1. ASSUME NEW p \in Procs, NEW q \in Procs, proc[p].at = "reviewing",
             proc[q].at \in {"prep", "reviewing"}
      PROVE  p = q
  BY <1>1, AloneAtWork DEF ScansOnlyReport, Procs
<1>2. CASE UNCHANGED vars \/ PidsAndTime
  <2>1. UNCHANGED <<live, proc, signals>>
    BY <1>2 DEF vars, PidsAndTime
  <2>2. \A p : Card(p)' = Card(p)
    BY <2>1, CardStays
  <2> QED
    BY <2>1, <2>2 DEF ReviewersInv, Reviewed
<1>3. CASE World
  <2>1. UNCHANGED <<proc, signals>>
    BY <1>3, WorldLeavesRuns
  <2>2. \A p : Card(p)' = Card(p)
    BY <2>1, CardStays
  <2>3. ASSUME signals = 0, NEW t \in Tickets, OrphanEnds(t)
        PROVE  FALSE
    <3>1. CASE Reviewed(t)
      <4>1. PICK p \in Procs : proc[p].at = "reviewing" /\ Card(p) = t
        BY <3>1 DEF Reviewed
      <4>2. AtWork(t) = {p}
        BY <1>1, <4>1 DEF AtWork
      <4>3. live[t] = 1 /\ Cardinality(AtWork(t)) = 1
        BY <2>3, <3>1, <4>2, FS_Singleton DEF ReviewersInv
      <4> QED
        BY <2>3, <4>3 DEF OrphanEnds
    <3>2. CASE ~Reviewed(t)
      <4>1. AtWork(t) = {}
        BY <3>2 DEF AtWork, Reviewed
      <4>2. live[t] = 0 /\ Cardinality(AtWork(t)) = 0
        BY <2>3, <3>2, <4>1, FS_EmptySet DEF ReviewersInv
      <4> QED
        BY <2>3, <4>2 DEF OrphanEnds
    <3> QED
      BY <3>1, <3>2
  <2>4. signals = 0 => live' = live
    BY <1>3, <2>3 DEF World, Block, Push, PersonMoves, ThreadGrows
  <2> QED
    BY <2>1, <2>2, <2>4 DEF ReviewersInv, Reviewed
<1>4. ASSUME NEW p \in Procs, Start(p) \/ Step(p) \/ Kill(p) \/ Terminate(p)
      PROVE  ReviewersInv'
  <2> SUFFICES ASSUME signals' = 0, NEW t \in Tickets
               PROVE  live'[t] = IF Reviewed(t)' THEN 1 ELSE 0
    BY DEF ReviewersInv
  <2>1. RunStep(p)
    BY <1>4, RunsStepByStep
  <2>2. \A q \in Procs : q # p => proc'[q] = proc[q] /\ Card(q)' = Card(q)
    BY <2>1, CardStays DEF RunStep
  <2>3. signals = 0
    <3>1. signals \in Nat
      BY DEF Sane
    <3>2. signals' = signals \/ signals' = signals + 1
      BY <1>4 DEF Start, Step, SingletonAcquire, Releasing, Initialize, ListQueue, ReadDetail, LedgerHas,
                  LockAcquire, ScanReports, PushPending, LedgerAppend, Release, Finish, Outside,
                  SkillSkip, Spawn, ReviewEnds, Comment, Patch, Raises, OpenStall, WriteStall, Kill,
                  Terminate, Signal
    <3> QED
      BY <3>1, <3>2
  <2>4. live[t] = IF Reviewed(t) THEN 1 ELSE 0
    BY <2>3 DEF ReviewersInv
  <2>5. CASE live' = live /\ (proc'[p] = proc[p] \/ "reviewing" \notin {proc[p].at, proc'[p].at})
    <3>1. Reviewed(t)' <=> Reviewed(t)
      BY <2>2, <2>5, CardStays DEF Reviewed
    <3> QED
      BY <2>4, <2>5, <3>1
  <2>6. CASE /\ proc[p].at = "prep" /\ proc'[p].at = "reviewing"
             /\ live' = [live EXCEPT ![Card(p)] = @ + 1]
    <3>1. ~Reviewed(t) /\ (Reviewed(t)' <=> t = Card(p)')
      <4>1. \A q \in Procs : proc[q].at # "reviewing"
        BY <1>1, <2>6
      <4> QED
        BY <2>2, <2>6, <4>1 DEF Reviewed
    <3>2. Card(p)' = Card(p)
      BY <2>1, <2>6, SameCard DEF RunStep
    <3> QED
      BY <1>0, <2>4, <2>6, <3>1, <3>2
  <2>7. CASE /\ proc[p].at = "reviewing" /\ proc'[p].at \in {"comment", "release"}
             /\ live' = [live EXCEPT ![Card(p)] = @ - 1]
    <3>1. Reviewed(t) <=> t = Card(p)
      BY <1>1, <2>7 DEF Reviewed
    <3>2. ~Reviewed(t)'
      BY <1>1, <2>2, <2>7 DEF Reviewed
    <3> QED
      BY <1>0, <2>4, <2>7, <3>1, <3>2
  <2> QED
    BY <2>1, <2>5, <2>6, <2>7 DEF RunStep, TouchesReviewers
<1> QED
  BY <1>2, <1>3, <1>4 DEF Next

----------------------------------------------------------------------------
(* What a run carries along: the cards it has counted and the stall count. *)

\* A run has a card in hand that it has not counted yet.
Hand == (Locked \cup {"ledger", "lock"}) \ {"release"}

\* A card is counted once, on the way to its release, and taken in hand only below the
\* bound; the stall count is read at the start, carried, and decided at the end.
Accounts(p) ==
  /\ \/ proc'[p].processed \in {0, proc[p].processed}
     \/ proc[p].at \in Hand /\ proc'[p].at = "release" /\ proc'[p].processed = proc[p].processed + 1
  /\ proc[p].at = "next" /\ proc'[p].at = "ledger" =>
       proc[p].processed < MaxTickets /\ card[Card(p)].text # Plain
  /\ proc'[p].at \in Guarded \cup {"stall"} =>
       \/ proc'[p] = proc[p]
       \/ proc'[p].at = "list" /\ proc'[p].prev = stall.count
       \/ {proc[p].at, proc'[p].at} \subseteq Guarded /\ proc'[p].prev = proc[p].prev
       \/ /\ proc[p].at \in Guarded /\ proc'[p].at = "stall"
          /\ proc'[p].prev = IF proc'[p].warned THEN Least(proc[p].prev + 1, StallThreshold) ELSE 0
  /\ proc'[p].at = "count" => proc'[p] = proc[p] \/ OpenStall(p)

LEMMA RunsAccount ==
  ASSUME Sane, HoldersWork, NEW p \in Procs, Start(p) \/ Step(p) \/ Kill(p) \/ Terminate(p)
  PROVE  Accounts(p)
<1>0. proc[p] \in Runs /\ proc \in [Procs -> Runs]
  BY DEF Sane
<1>1. ASSUME NEW r, proc' = [proc EXCEPT ![p] = r], r.at \in Guarded, proc[p].at \in Guarded,
             r.prev = proc[p].prev,
             \/ r.processed = proc[p].processed
             \/ proc[p].at \in Hand /\ r.at = "release" /\ r.processed = proc[p].processed + 1,
             ~(proc[p].at = "next" /\ r.at = "ledger")
      PROVE  Accounts(p)
  <2>1. proc'[p] = r
    BY <1>0, <1>1
  <2> QED
    BY <1>1, <2>1 DEF Accounts, Guarded, Locked
<1>2. ASSUME NEW there, Goto(p, there), there \in {"off", "init"}
      PROVE  Accounts(p)
  <2>1. proc'[p].at = there /\ proc'[p].processed = proc[p].processed
    BY <1>0, <1>2 DEF Goto, Runs
  <2> QED
    BY <1>2, <2>1 DEF Accounts, Guarded, Locked
<1>3. ASSUME NEW there \in Guarded, Goto(p, there), proc[p].at \in Guarded \ {"next"}
      PROVE  Accounts(p)
  <2> DEFINE r == [proc[p] EXCEPT !.at = there]
  <2>1. r.at = there /\ r.prev = proc[p].prev /\ r.processed = proc[p].processed
    BY <1>0 DEF Runs
  <2>2. proc' = [proc EXCEPT ![p] = r]
    BY <1>3 DEF Goto
  <2> HIDE DEF r
  <2> QED
    BY <1>1, <1>3, <2>1, <2>2
<1>4. ASSUME PassOver(p), proc[p].at \in Guarded
      PROVE  Accounts(p)
  <2>1. Passed(p).at = "next" /\ Passed(p).prev = proc[p].prev /\ Passed(p).processed = proc[p].processed
    BY <1>0 DEF Passed, Runs
  <2> QED
    BY <1>1, <1>4, <2>1 DEF PassOver, Guarded
<1>5. /\ Processed(p).at = "release" /\ Processed(p).prev = proc[p].prev
      /\ Processed(p).processed = proc[p].processed + 1
  BY <1>0 DEF Processed, Runs
<1>6. ASSUME proc' = [proc EXCEPT ![p] = Processed(p)], proc[p].at \in Hand
      PROVE  Accounts(p)
  BY <1>1, <1>5, <1>6 DEF Guarded, Locked, Hand
<1>7. ASSUME proc' = [proc EXCEPT ![p] = Asleep]
      PROVE  Accounts(p)
  <2>1. Asleep.at = "off" /\ Asleep.processed = 0
    BY DEF Asleep
  <2>2. proc'[p] = Asleep
    BY <1>0, <1>7
  <2> QED
    BY <2>1, <2>2 DEF Accounts, Guarded, Locked
<1>8. ASSUME ApplyFails(p), proc[p].at \in Hand
      PROVE  Accounts(p)
  <2>1. CASE Unwind(p)
    BY <1>7, <2>1 DEF Unwind
  <2>2. CASE proc' = [proc EXCEPT ![p] = [Processed(p) EXCEPT !.warned = TRUE]]
    <3> DEFINE r == [Processed(p) EXCEPT !.warned = TRUE]
    <3>1. r.at = Processed(p).at /\ r.prev = Processed(p).prev /\ r.processed = Processed(p).processed
      BY PartsAreSane DEF Runs
    <3>2. proc' = [proc EXCEPT ![p] = r]
      BY <2>2
    <3> HIDE DEF r
    <3> QED
      BY <1>1, <1>5, <1>8, <3>1, <3>2 DEF Guarded, Locked, Hand
  <2> QED
    BY <1>8, <2>1, <2>2 DEF ApplyFails
<1>9. CASE Start(p) \/ SingletonAcquire(p) \/ Releasing(p)
  <2>1. UNCHANGED proc \/ Goto(p, "init")
    BY <1>9 DEF Start, SingletonAcquire, Releasing, Goto
  <2>2. CASE UNCHANGED proc
    <3>1. ~(proc[p].at = "next" /\ proc'[p].at = "ledger")
      BY <2>2
    <3> QED
      BY <2>2, <3>1 DEF Accounts
  <2> QED
    BY <1>2, <2>1, <2>2
<1>10. CASE Initialize(p)
  <2>1. CASE proc' = [proc EXCEPT ![p].at = "list", ![p].prev = stall.count]
    <3>1. proc'[p].at = "list" /\ proc'[p].prev = stall.count /\ proc'[p].processed = proc[p].processed
      BY <1>0, <2>1 DEF Runs
    <3> QED
      BY <3>1 DEF Accounts
  <2> QED
    BY <1>2, <1>10, <2>1 DEF Initialize
<1>11. CASE ListQueue(p)
  <2>0. proc[p].at = "list"
    BY <1>11 DEF ListQueue, At
  <2>1. PICK q, w : proc' = [proc EXCEPT ![p].at = "next", ![p].queue = q, ![p].warned = w]
    <3> DEFINE queue == {t \in Tickets : card[t].status = "blocked" /\ card[t].text \in Texts}
    <3>1. CASE proc' = [proc EXCEPT ![p].at = "next", ![p].queue = queue]
      <4>1. proc' = [proc EXCEPT ![p].at = "next", ![p].queue = queue, ![p].warned = proc[p].warned]
        <5> HIDE DEF queue
        <5> QED
          BY <1>0, <3>1 DEF Runs
      <4> QED
        BY <4>1
    <3> QED
      BY <1>11, <3>1 DEF ListQueue
  <2> DEFINE r == [proc[p] EXCEPT !.at = "next", !.queue = q, !.warned = w]
  <2>2. r.at = "next" /\ r.prev = proc[p].prev /\ r.processed = proc[p].processed
    BY <1>0 DEF Runs
  <2>3. proc' = [proc EXCEPT ![p] = r]
    BY <1>0, <2>1 DEF Runs
  <2> HIDE DEF r
  <2> QED
    BY <1>1, <2>0, <2>2, <2>3 DEF Guarded
<1>12. CASE ReadDetail(p)
  <2>0. proc[p].at = "next" /\ proc[p].at \in Guarded /\ proc[p].processed < MaxTickets
    BY <1>12 DEF ReadDetail, At, Guarded
  <2>1. CASE PassOver(p)
    BY <1>4, <2>0, <2>1
  <2>2. CASE /\ card[Card(p)].text # Plain
             /\ proc' = [proc EXCEPT ![p].at = "ledger", ![p].seen = Detail(Card(p)), ![p].found = TRUE]
    <3> DEFINE d == Detail(Card(p))
               r == [proc[p] EXCEPT !.at = "ledger", !.seen = d, !.found = TRUE]
    <3> HIDE DEF d
    <3>1. proc' = [proc EXCEPT ![p].at = "ledger", ![p].seen = d, ![p].found = TRUE]
      BY <2>2 DEF d
    <3>2. r.at = "ledger" /\ r.prev = proc[p].prev /\ r.processed = proc[p].processed
      BY <1>0 DEF Runs
    <3>3. proc'[p] = r
      BY <1>0, <3>1 DEF Runs
    <3> HIDE DEF r
    <3>4. "ledger" \in Guarded
      BY DEF Guarded
    <3> QED
      BY <2>0, <2>2, <3>2, <3>3, <3>4 DEF Accounts
  <2>3. CASE proc' = [proc EXCEPT ![p] = [Passed(p) EXCEPT !.warned = TRUE]]
    <3> DEFINE r == [Passed(p) EXCEPT !.warned = TRUE]
    <3>1. Passed(p).at = "next" /\ Passed(p).prev = proc[p].prev /\ Passed(p).processed = proc[p].processed
      BY <1>0 DEF Passed, Runs
    <3>2. r.at = Passed(p).at /\ r.prev = Passed(p).prev /\ r.processed = Passed(p).processed
      BY PartsAreSane DEF Runs
    <3>3. proc' = [proc EXCEPT ![p] = r]
      BY <2>3
    <3> HIDE DEF r
    <3> QED
      BY <1>1, <2>0, <3>1, <3>2, <3>3
  <2> QED
    BY <1>12, <2>1, <2>2, <2>3 DEF ReadDetail
<1>13. CASE LedgerHas(p) \/ LockAcquire(p) \/ ScanReports(p) \/ Spawn(p) \/ Release(p)
  <2>1. proc[p].at \in Guarded \ {"next"}
    BY <1>13 DEF LedgerHas, LockAcquire, ScanReports, Spawn, Release, At, Guarded, Locked
  <2>2. PassOver(p) \/ \E there \in Guarded : Goto(p, there)
    BY <1>13 DEF LedgerHas, LockAcquire, ScanReports, Spawn, Release, Guarded, Locked
  <2> QED
    BY <1>3, <1>4, <2>1, <2>2
<1>14. CASE PushPending(p) \/ LedgerAppend(p)
  BY <1>6, <1>14 DEF PushPending, LedgerAppend, At, Hand, Locked
<1>15. CASE SkillSkip(p)
  <2>1. proc[p].at \in Hand
    BY <1>15 DEF SkillSkip, At, Hand, Locked
  <2>2. Unwind(p) \/ proc' = [proc EXCEPT ![p] = Processed(p)]
    BY <1>15 DEF SkillSkip
  <2> QED
    BY <1>6, <1>7, <2>1, <2>2 DEF Unwind
<1>16. CASE ReviewEnds(p)
  <2>0. proc[p].at = "reviewing" /\ proc[p].at \in Guarded /\ proc[p].at \in Hand
    BY <1>16 DEF ReviewEnds, At, Guarded, Locked, Hand
  <2>1. ASSUME NEW v, proc' = [proc EXCEPT ![p].at = "comment", ![p].verdict = v]
        PROVE  Accounts(p)
    <3> DEFINE r == [proc[p] EXCEPT !.at = "comment", !.verdict = v]
    <3>1. r.at = "comment" /\ r.prev = proc[p].prev /\ r.processed = proc[p].processed
      BY <1>0 DEF Runs
    <3>2. proc' = [proc EXCEPT ![p] = r]
      BY <1>0, <2>1 DEF Runs
    <3> HIDE DEF r
    <3> QED
      BY <1>1, <2>0, <3>1, <3>2 DEF Guarded, Locked
  <2>2. CASE proc' = [proc EXCEPT ![p] = [Processed(p) EXCEPT !.verdict = "failed"]]
    <3> DEFINE r == [Processed(p) EXCEPT !.verdict = "failed"]
    <3>1. r.at = Processed(p).at /\ r.prev = Processed(p).prev /\ r.processed = Processed(p).processed
      BY PartsAreSane DEF Runs
    <3>2. proc' = [proc EXCEPT ![p] = r]
      BY <2>2
    <3> HIDE DEF r
    <3> QED
      BY <1>1, <1>5, <2>0, <3>1, <3>2 DEF Guarded, Locked
  <2> QED
    BY <1>16, <2>1, <2>2 DEF ReviewEnds
<1>17. CASE Comment(p) \/ Patch(p)
  <2>1. proc[p].at \in Guarded \ {"next"} /\ proc[p].at \in Hand
    BY <1>17 DEF Comment, Patch, At, Guarded, Locked, Hand
  <2>2. ApplyFails(p) \/ \E there \in {"patch", "append"} : Goto(p, there)
    BY <1>17 DEF Comment, Patch
  <2>3. {"patch", "append"} \subseteq Guarded
    BY DEF Guarded, Locked
  <2> QED
    BY <1>3, <1>8, <2>1, <2>2, <2>3
<1>18. CASE Finish(p)
  <2>1. proc[p].at \in Guarded /\ proc[p].at = "next" /\ proc'[p] = Counted(p)
    BY <1>0, <1>18 DEF Finish, At, Guarded
  <2>2. /\ Counted(p).at = "stall" /\ Counted(p).processed = 0
        /\ Counted(p).prev = StallUpdate(p) /\ Counted(p).warned = Blind(p)
    BY DEF Counted, Asleep
  <2>3. StallUpdate(p) = IF Blind(p) THEN Least(proc[p].prev + 1, StallThreshold) ELSE 0
    BY DEF StallUpdate
  <2> QED
    BY <2>1, <2>2, <2>3 DEF Accounts
<1>19. CASE WriteStall(p) \/ Kill(p) \/ Terminate(p) \/ Raises(p)
  BY <1>7, <1>19 DEF WriteStall, Kill, Terminate, Raises, Unwind
<1>20. CASE OpenStall(p)
  <2>1. CASE Goto(p, "count")
    <3>1. proc'[p].at = "count" /\ proc'[p].processed = proc[p].processed
      BY <1>0, <2>1 DEF Goto, Runs
    <3> QED
      BY <1>20, <3>1 DEF Accounts, Guarded, Locked
  <2> QED
    BY <1>7, <1>20, <2>1 DEF OpenStall
<1> QED
  BY <1>9, <1>10, <1>11, <1>12, <1>13, <1>14, <1>15, <1>16, <1>17, <1>18, <1>19, <1>20 DEF Step

\* The counter and its history change when a run opens or writes it, and then only.
LEMMA CountsAreWritten ==
  ASSUME Sane, NEW p \in Procs, Start(p) \/ Step(p) \/ Kill(p) \/ Terminate(p),
         ~OpenStall(p), ~WriteStall(p)
  PROVE  stall' = stall /\ history'.blind = history.blind /\ history'.lost = history.lost
<1>1. Settled(p).blind = history.blind /\ Settled(p).lost = history.lost
  BY DEF Settled, Sane, Pasts
<1>2. ApplyFails(p) \/ Unwind(p) => stall' = stall
  BY DEF ApplyFails, Unwind, Files
<1>3. CASE Comment(p) \/ Patch(p)
  <2>1. history' \in {history, Settled(p)}
    BY <1>3 DEF Comment, Patch
  <2>2. stall' = stall
    BY <1>2, <1>3 DEF Comment, Patch, Files
  <2> QED
    BY <1>1, <2>1, <2>2
<1>4. CASE SkillSkip(p) \/ Raises(p) \/ Terminate(p) \/ Kill(p)
  BY <1>2, <1>4 DEF SkillSkip, Raises, Terminate, Kill, Files
<1>5. CASE ~(Comment(p) \/ Patch(p) \/ SkillSkip(p) \/ Raises(p) \/ Terminate(p) \/ Kill(p))
  BY <1>5 DEF Start, Step, SingletonAcquire, Releasing, Initialize, ListQueue, ReadDetail, LedgerHas,
              LockAcquire, ScanReports, PushPending, LedgerAppend, Release, Finish, Outside, Files,
              Spawn, ReviewEnds
<1> QED
  BY <1>3, <1>4, <1>5

Apart == \A p, q \in Procs : ~At(p, "off") /\ ~At(q, "off") => p = q

\* While runs do not overlap, the one under way carries the count of those before it; a file
\* it has opened reads as 0 until it writes what is due.
BlindInv ==
  /\ history.lost = "no" /\ ~stall.torn => stall.count = history.blind
  /\ history.lost # "kept" => stall.count <= history.blind
  /\ stall.torn => stall.count = 0
  /\ \A p \in Procs :
       /\ proc[p].at \in Guarded => proc[p].prev = stall.count
       /\ proc[p].at = "stall" =>
            proc[p].prev = IF proc[p].warned THEN Least(stall.count + 1, StallThreshold) ELSE 0
       /\ proc[p].at = "count" =>
            /\ history.lost = "no" => proc[p].prev = history.blind
            /\ history.lost # "kept" => proc[p].prev <= history.blind

LEMMA BlindInvStep ==
  ASSUME Sane, HoldersWork, Apart, BlindInv, [Next]_vars
  PROVE  BlindInv'
<1>1. CASE UNCHANGED vars \/ World \/ PidsAndTime
  BY <1>1, WorldLeavesRuns DEF vars, BlindInv
<1>2. ASSUME NEW p \in Procs, Start(p) \/ Step(p) \/ Kill(p) \/ Terminate(p)
      PROVE  BlindInv'
  <2>0. /\ stall \in Counts /\ history \in Pasts /\ proc[p] \in Runs
        /\ stall = [count |-> stall.count, torn |-> stall.torn] /\ stall.count \in Nat
        /\ history.blind \in Nat /\ StallThreshold \in Nat \ {0}
    BY SweeperAssumption DEF Sane, Counts, Pasts
  <2>1. \A q \in Procs \ {p} : proc'[q] = proc[q]
    BY <1>2, RunsStepByStep DEF RunStep
  <2>2. ASSUME ~OpenStall(p), ~WriteStall(p)
        PROVE  BlindInv'
    <3>1. stall' = stall /\ history'.blind = history.blind /\ history'.lost = history.lost
      BY <1>2, <2>2, CountsAreWritten
    <3>2. Accounts(p)
      BY <1>2, RunsAccount
    <3>3. /\ proc'[p].at \in Guarded => proc'[p].prev = stall.count
          /\ proc'[p].at = "stall" =>
               proc'[p].prev = IF proc'[p].warned THEN Least(stall.count + 1, StallThreshold) ELSE 0
          /\ proc'[p].at = "count" => proc'[p] = proc[p]
      BY <2>2, <3>2 DEF Accounts, BlindInv, Guarded, Locked
    <3> QED
      BY <2>1, <3>1, <3>3 DEF BlindInv
  <2>3. ASSUME OpenStall(p) \/ WriteStall(p)
        PROVE  \A q \in Procs \ {p} : proc'[q].at = "off"
    BY <2>1, <2>3 DEF Apart, At, OpenStall, WriteStall
  <2>4. ASSUME proc' = [proc EXCEPT ![p] = Asleep]
        PROVE  proc'[p].at = "off"
    <3>1. Asleep.at = "off"
      BY DEF Asleep
    <3> QED
      BY <2>4, <3>1, BecomesThat
  <2>5. CASE OpenStall(p)
    <3> DEFINE blind == IF proc[p].warned THEN Least(history.blind + 1, StallThreshold) ELSE 0
    <3>1. /\ proc[p].at = "stall" /\ blind \in Nat
          /\ proc[p].prev = IF proc[p].warned THEN Least(stall.count + 1, StallThreshold) ELSE 0
      BY <2>0, <2>5 DEF OpenStall, At, BlindInv, Least
    <3>2. CASE /\ stall' = [count |-> 0, torn |-> proc[p].warned] /\ Goto(p, "count")
               /\ history' = [history EXCEPT !.blind = blind,
                    !.lost = IF ~proc[p].warned THEN "no" ELSE IF stall.torn THEN "torn" ELSE @]
      <4>1. stall'.count = 0 /\ stall'.torn = proc[p].warned
        BY <3>2
      <4>2. /\ history'.blind = blind
            /\ history'.lost = IF ~proc[p].warned THEN "no" ELSE IF stall.torn THEN "torn" ELSE history.lost
        BY <2>0, <3>2 DEF Pasts
      <4>3. proc'[p].at = "count" /\ proc'[p].prev = proc[p].prev
        BY <3>2 DEF Goto, Sane, Runs
      <4>4. /\ history'.lost = "no" => proc[p].prev = blind
            /\ history'.lost # "kept" => proc[p].prev <= blind
        <5>1. CASE ~proc[p].warned
          BY <3>1, <5>1
        <5>2. CASE proc[p].warned
          <6>1. /\ history'.lost = "no" => stall.count = history.blind
                /\ history'.lost # "kept" => stall.count <= history.blind
            BY <2>0, <4>2, <5>2 DEF BlindInv, Pasts
          <6> QED
            BY <2>0, <3>1, <5>2, <6>1 DEF Least
        <5> QED
          BY <5>1, <5>2
      <4>5. /\ history'.lost = "no" /\ ~stall'.torn => stall'.count = history'.blind
            /\ stall'.count <= history'.blind
        BY <3>1, <4>1, <4>2
      <4> HIDE DEF blind
      <4> QED
        BY <2>3, <2>5, <4>1, <4>2, <4>3, <4>4, <4>5 DEF BlindInv, Guarded, Locked
    <3>3. CASE /\ stall' = stall /\ proc' = [proc EXCEPT ![p] = Asleep]
               /\ history' = [history EXCEPT !.blind = blind,
                    !.lost = IF proc[p].prev = stall.count THEN @ ELSE "kept"]
      <4>1. /\ history'.blind = blind
            /\ history'.lost = IF proc[p].prev = stall.count THEN history.lost ELSE "kept"
        BY <2>0, <3>3 DEF Pasts
      <4>2. CASE proc[p].prev # stall.count
        BY <2>3, <2>4, <2>5, <3>3, <4>1, <4>2 DEF BlindInv, Guarded, Locked
      <4>3. CASE proc[p].prev = stall.count
        <5>1. /\ history.lost = "no" /\ ~stall.torn => stall.count = blind
              /\ history.lost # "kept" => stall.count <= blind
          <6>1. CASE ~proc[p].warned
            BY <3>1, <4>3, <6>1
          <6>2. CASE proc[p].warned
            <7>1. stall.count = StallThreshold
              BY <2>0, <3>1, <4>3, <6>2 DEF Least
            <7> QED
              BY <2>0, <6>2, <7>1 DEF BlindInv, Least
          <6> QED
            BY <6>1, <6>2
        <5> HIDE DEF blind
        <5> QED
          BY <2>3, <2>4, <2>5, <3>3, <4>1, <4>3, <5>1 DEF BlindInv, Guarded, Locked
      <4> QED
        BY <4>2, <4>3
    <3> QED
      BY <2>5, <3>2, <3>3 DEF OpenStall
  <2>6. CASE WriteStall(p)
    <3>1. /\ proc[p].at = "count" /\ history' = history /\ proc' = [proc EXCEPT ![p] = Asleep]
          /\ stall' = stall \/ stall' = [count |-> proc[p].prev, torn |-> FALSE]
      BY <2>6 DEF WriteStall, At
    <3>2. \A q \in Procs : proc'[q].at = "off"
      BY <2>3, <2>4, <2>6, <3>1
    <3>3. CASE stall' = stall
      BY <3>1, <3>2, <3>3 DEF BlindInv, Guarded, Locked
    <3>4. CASE stall' = [count |-> proc[p].prev, torn |-> FALSE]
      <4>1. stall'.count = proc[p].prev /\ ~stall'.torn
        BY <3>4
      <4> QED
        BY <3>1, <3>2, <4>1 DEF BlindInv, Guarded, Locked
    <3> QED
      BY <3>1, <3>3, <3>4
  <2> QED
    BY <2>2, <2>5, <2>6
<1> QED
  BY <1>1, <1>2 DEF Next

----------------------------------------------------------------------------
(* The theorems. *)

LEMMA StartsWell == Init => Sane /\ LockInv /\ HoldersWork /\ ScansOnlyReport /\ LedgerInv /\ CardsInv /\ ReviewersInv
<1> SUFFICES ASSUME Init PROVE Sane /\ LockInv /\ HoldersWork /\ ScansOnlyReport /\ LedgerInv /\ CardsInv /\ ReviewersInv
  OBVIOUS
<1>1. Sane
  BY SaneAtFirst
<1>2. LockInv
  BY SweeperLockAssumption
     DEF Init, LockInit, LockInv, LockTypeOK, NoFile, Acquiring, Holding, Free, Dead
<1>3. \A p \in Procs : proc[p].at = "off"
  BY DEF Init, Asleep
<1>4. HoldersWork /\ ScansOnlyReport
  BY <1>3 DEF HoldersWork, ScansOnlyReport, Procs
<1>5. LedgerInv
  BY <1>3 DEF Init, LedgerInv, LedgerIsEarned
<1>6. CardsInv
  BY <1>3 DEF Init, CardsInv, MovedOnce, SkippedOnce, Procs
<1>7. ReviewersInv
  BY <1>3 DEF Init, ReviewersInv, Reviewed
<1> QED
  BY <1>1, <1>2, <1>4, <1>5, <1>6, <1>7

\* A sweep does everything but starting and writing the stall counter under the
\* singleton; this needs no spacing of the starts.
LEMMA RunsHoldAndAreSane == Spec => [](Sane /\ HoldersWork /\ LockTypeOK)
<1> DEFINE I == Sane /\ HoldersWork /\ LockTypeOK
<1>1. Init => I
  BY StartsWell DEF LockInv
<1>2. I /\ [Next]_vars => I'
  <2> SUFFICES ASSUME I, [Next]_vars PROVE I'
    OBVIOUS
  <2>1. Sane' /\ HoldersWork'
    BY SaneStep, HoldersWorkStep
  <2>2. LockTypeOK'
    BY SweeperStepIsLockStep, LockTypeOKStep
  <2> QED
    BY <2>1, <2>2
<1> QED
  BY <1>1, <1>2, PTL DEF Spec

\* "A ledger line is written only after a verdict is applied": whatever is killed, fails or
\* overlaps, no line is of a card and a block text on which no verdict was carried out.
THEOREM LedgerLinesAreEarned == Spec => []LedgerIsEarned
<1>1. Init => LedgerInv
  BY StartsWell
<1>2. Sane /\ HoldersWork /\ LedgerInv /\ [Next]_vars => LedgerInv'
  BY LedgerInvStep
<1>3. LedgerInv => LedgerIsEarned
  BY DEF LedgerInv
<1> QED
  BY <1>1, <1>2, <1>3, RunsHoldAndAreSane, PTL DEF Spec

LEMMA SpacedRunsAreAlone ==
  ASSUME Spaced = TRUE
  PROVE  Spec => [](Sane /\ HoldersWork /\ LockInv /\ ScansOnlyReport)
<1> DEFINE I == LockInv /\ ScansOnlyReport
<1>1. Init => I
  BY StartsWell
<1>2. Sane /\ HoldersWork /\ I /\ [Next]_vars => I'
  BY ScansOnlyReportStep, SweeperStepIsLockStep, LockInvStep
<1> QED
  BY <1>1, <1>2, RunsHoldAndAreSane, PTL DEF Spec

LEMMA SpacedMarksAgree ==
  ASSUME Spaced = TRUE
  PROVE  Spec => []CardsInv
<1>1. Init => CardsInv
  BY StartsWell
<1>2. Sane /\ HoldersWork /\ LockInv /\ ScansOnlyReport /\ CardsInv /\ [Next]_vars => CardsInv'
  BY CardsInvStep
<1> QED
  BY <1>1, <1>2, SpacedRunsAreAlone, PTL DEF Spec

\* A block is moved by the sweeper at most once: between the listing and the PATCH the
\* cards change, calls lose their answers and runs die.
THEOREM SpacedSweepsMoveOnce ==
  ASSUME Spaced = TRUE
  PROVE  Spec => []MovedOnce
<1>1. CardsInv => MovedOnce
  BY DEF CardsInv
<1> QED
  BY <1>1, SpacedMarksAgree, PTL

\* A broken skill name is commented on a card once (comment_skill_skip), though every tick
\* meets it again and a comment whose answer was lost may be there: ticket_get never shows
\* two, and a second one is posted only when it no longer shows the first.
THEOREM SpacedSweepsSkipOnce ==
  ASSUME Spaced = TRUE
  PROVE  Spec => []SkippedOnce
<1>1. CardsInv => SkippedOnce
  BY DEF CardsInv
<1> QED
  BY <1>1, SpacedMarksAgree, PTL

\* While nobody is killed or terminated a card has at most one reviewer: a timeout
\* leaves none behind, and a lock a scan removed lets no second one in.
THEOREM SpacedSweepsReviewOnce ==
  ASSUME Spaced = TRUE
  PROVE  Spec => []OneReviewer
<1>1. Init => ReviewersInv
  BY StartsWell
<1>2. Sane /\ HoldersWork /\ LockInv /\ ScansOnlyReport /\ ReviewersInv /\ [Next]_vars => ReviewersInv'
  BY ReviewersInvStep
<1>3. ReviewersInv => OneReviewer
  BY DEF ReviewersInv, OneReviewer
<1> QED
  BY <1>1, <1>2, <1>3, SpacedRunsAreAlone, PTL DEF Spec

\* stall_update over runs that come one after the other (two that overlap read the counter
\* before either writes it), whatever is killed or fails: if no count was lost since the last
\* run that was not blind, the counter is the number of blind runs in a row, up to the
\* threshold; if counts were lost with the content of a torn file only, it is no more.
THEOREM BlindRunsAreCounted == Spec /\ []Apart => []BlindnessIsCounted
<1>1. Init => BlindInv
  BY DEF Init, Asleep, BlindInv, Guarded, Locked, Least
<1>2. Sane /\ HoldersWork /\ Apart /\ BlindInv /\ [Next]_vars => BlindInv'
  BY BlindInvStep
<1>3. BlindInv => BlindnessIsCounted
  BY DEF BlindInv, BlindnessIsCounted
<1> QED
  BY <1>1, <1>2, <1>3, RunsHoldAndAreSane, PTL DEF Spec

----------------------------------------------------------------------------
(* The types. *)

\* The lock files, the counters at their bounds, and a reviewer for every run that waits
\* for one; a card in hand asked for a review when it was read.
LockRecs == [owner : Procs \cup {Free, Dead}, reviewer : {"none", "ended"}]
Bounded ==
  /\ lock \in [Tickets -> LockRecs]
  /\ ledger \subseteq Tickets \X Texts
  /\ \A t \in Tickets : card[t].block <= MaxBlocks
  /\ \A t \in Tickets : IsFiniteSet(AtWork(t)) /\ live[t] >= Cardinality(AtWork(t))
  /\ \A p \in Procs :
       /\ proc[p].processed <= MaxTickets
       /\ proc[p].at \in Hand => proc[p].processed < MaxTickets /\ proc[p].seen.text \in Texts

\* A lock file is made, marked and removed only for the card in hand, or left by a dead owner.
LEMMA LocksStayTyped ==
  ASSUME Sane, NEW p \in Procs, Start(p) \/ Step(p) \/ Kill(p) \/ Terminate(p),
         lock \in [Tickets -> LockRecs]
  PROVE  lock' \in [Tickets -> LockRecs]
<1> DEFINE Typed == lock' \in [Tickets -> LockRecs]
<1>1. NoLock \in LockRecs /\ [owner |-> p, reviewer |-> "none"] \in LockRecs
  BY DEF NoLock, LockRecs
<1>2. \A k \in LockRecs : [k EXCEPT !.reviewer = "ended"] \in LockRecs /\ [k EXCEPT !.owner = Dead] \in LockRecs
  BY DEF LockRecs
<1>3. ASSUME NEW k, NEW r \in LockRecs, lock' = [lock EXCEPT ![k] = r]
      PROVE  Typed
  BY <1>3
<1>4. CASE UNCHANGED lock
  BY <1>4
<1>5. CASE Unwind(p)
  BY <1>1, <1>3, <1>4, <1>5 DEF Unwind
<1>6. CASE LockAcquire(p) \/ ScanReports(p) \/ Release(p)
  BY <1>1, <1>3, <1>4, <1>6 DEF LockAcquire, ScanReports, Release, LockRelease
<1>7. CASE ReviewEnds(p)
  <2>1. proc[p].queue \in SUBSET Tickets /\ proc[p].queue # {}
    BY <1>7 DEF ReviewEnds, At, Sane, Runs, Locked
  <2>2. Card(p) \in Tickets
    BY <2>1, CardIsQueued
  <2> DEFINE r == [lock[Card(p)] EXCEPT !.reviewer = "ended"]
  <2>3. r \in LockRecs
    BY <1>2, <2>2
  <2>4. lock' = lock \/ lock' = [lock EXCEPT ![Card(p)] = r]
    BY <1>7 DEF ReviewEnds
  <2> HIDE DEF r
  <2> QED
    BY <1>3, <2>3, <2>4
<1>8. CASE Kill(p)
  BY <1>2, <1>8 DEF Kill
<1>9. CASE Comment(p) \/ Patch(p) \/ SkillSkip(p) \/ Raises(p) \/ Terminate(p)
  BY <1>4, <1>5, <1>9 DEF Comment, Patch, SkillSkip, Raises, Terminate, ApplyFails, Files
<1>10. CASE \/ Start(p) \/ SingletonAcquire(p) \/ Releasing(p) \/ Initialize(p) \/ ListQueue(p)
            \/ ReadDetail(p) \/ LedgerHas(p) \/ PushPending(p) \/ Spawn(p) \/ LedgerAppend(p)
            \/ Finish(p) \/ OpenStall(p) \/ WriteStall(p)
  BY <1>4, <1>10 DEF Start, SingletonAcquire, Releasing, Initialize, ListQueue, ReadDetail, LedgerHas,
                     PushPending, Spawn, LedgerAppend, Finish, OpenStall, WriteStall, Files
<1> QED
  BY <1>6, <1>7, <1>8, <1>9, <1>10 DEF Step

\* What a run does to the reviewers, signals or not.
LEMMA ReviewersCome ==
  ASSUME Sane, HoldersWork, NEW p \in Procs, Start(p) \/ Step(p) \/ Kill(p) \/ Terminate(p)
  PROVE  \/ live' = live /\ (proc'[p] = proc[p] \/ proc'[p].at # "reviewing")
         \/ /\ proc[p].at = "prep" /\ proc'[p].at = "reviewing"
            /\ live' = [live EXCEPT ![Card(p)] = @ + 1]
         \/ /\ proc[p].at = "reviewing" /\ proc'[p].at \in {"comment", "release"}
            /\ live' = [live EXCEPT ![Card(p)] = @ - 1]
<1>1. RunStep(p)
  BY RunsStepByStep
<1>2. CASE Kill(p) \/ Terminate(p) \/ Raises(p)
  <2>1. proc' = [proc EXCEPT ![p] = Asleep] /\ Asleep.at = "off" /\ live' = live
    BY <1>2 DEF Kill, Terminate, Raises, Unwind, Asleep
  <2> QED
    BY <2>1, BecomesThat
<1>3. CASE Spawn(p)
  BY <1>3, GotoKeeps DEF Spawn, At
<1>4. CASE ReviewEnds(p)
  <2>1. proc[p].at = "reviewing" /\ live' = [live EXCEPT ![Card(p)] = @ - 1]
    BY <1>4 DEF ReviewEnds, At
  <2>2. proc'[p].at \in {"comment", "release"}
    <3>1. CASE \E v \in {"approve", "changes", "escalate", "unparsed"} :
                 proc' = [proc EXCEPT ![p].at = "comment", ![p].verdict = v]
      BY <3>1 DEF Sane, Runs
    <3>2. CASE proc' = [proc EXCEPT ![p] = [Processed(p) EXCEPT !.verdict = "failed"]]
      <4>1. [Processed(p) EXCEPT !.verdict = "failed"].at = "release"
        BY PartsAreSane DEF Runs
      <4> QED
        BY <3>2, <4>1 DEF Sane
    <3> QED
      BY <1>4, <3>1, <3>2 DEF ReviewEnds
  <2> QED
    BY <2>1, <2>2
<1>5. CASE ~(Spawn(p) \/ ReviewEnds(p) \/ Kill(p) \/ Terminate(p) \/ Raises(p))
  <2>1. live' = live
    BY <1>5 DEF Start, Step, SingletonAcquire, Releasing, Initialize, ListQueue, ReadDetail, LedgerHas,
                LockAcquire, ScanReports, PushPending, LedgerAppend, Release, Finish, Outside,
                SkillSkip, Comment, Patch, OpenStall, WriteStall
  <2>2. proc'[p] = proc[p] \/ proc'[p].at # "reviewing"
    <3>1. ASSUME proc'[p] # proc[p], proc'[p].at = "reviewing"
          PROVE  FALSE
      <4>1. proc[p].at = "prep"
        BY <1>1, <3>1 DEF RunStep, Follows, Edges
      <4>2. PushPending(p) \/ SkillSkip(p) \/ SingletonAcquire(p) \/ Start(p) \/ Releasing(p)
        BY <1>5, <4>1 DEF Step, Initialize, ListQueue, ReadDetail, LedgerHas, LockAcquire, ScanReports,
                          LedgerAppend, Release, Finish, Comment, Patch, OpenStall, WriteStall, At
      <4>3. UNCHANGED proc \/ Goto(p, "init") \/ Unwind(p) \/ proc' = [proc EXCEPT ![p] = Processed(p)]
        BY <4>2 DEF PushPending, SkillSkip, SingletonAcquire, Start, Releasing, Goto
      <4> QED
        BY <3>1, <4>3, GotoKeeps, UnwindFalls, BecomesThat, ThroughWithIt
    <3> QED
      BY <3>1
  <2> QED
    BY <2>1, <2>2
<1> QED
  BY <1>2, <1>3, <1>4, <1>5

\* So there are never fewer reviewers of a card than runs that wait for one.
LEMMA ReviewersSuffice ==
  ASSUME Sane, HoldersWork, NEW t \in Tickets, IsFiniteSet(AtWork(t)), live[t] >= Cardinality(AtWork(t)),
         [Next]_vars
  PROVE  (IsFiniteSet(AtWork(t)) /\ live[t] >= Cardinality(AtWork(t)))'
<1>0. live \in [Tickets -> Int] /\ live[t] \in Int /\ Cardinality(AtWork(t)) \in Nat
  BY FS_CardinalityType DEF Sane
<1>00. live'[t] \in Int
  BY SaneStep DEF Sane
<1>1. ASSUME live'[t] >= live[t], AtWork(t)' \subseteq AtWork(t)
      PROVE  IsFiniteSet(AtWork(t)') /\ live'[t] >= Cardinality(AtWork(t)')
  <2>1. IsFiniteSet(AtWork(t)') /\ Cardinality(AtWork(t)') <= Cardinality(AtWork(t))
    BY <1>1, FS_Subset
  <2>2. Cardinality(AtWork(t)') \in Nat
    BY <2>1, FS_CardinalityType
  <2> QED
    BY <1>0, <1>00, <1>1, <2>1, <2>2
<1>2. CASE UNCHANGED vars \/ World \/ PidsAndTime
  <2>1. proc' = proc
    BY <1>2, WorldLeavesRuns DEF vars
  <2>2. \A p : Card(p)' = Card(p)
    BY <2>1, CardStays
  <2>3. AtWork(t)' = AtWork(t)
    BY <2>1, <2>2 DEF AtWork
  <2>4. live'[t] = live[t] \/ (OrphanEnds(t) /\ live'[t] = live[t] - 1)
    BY <1>0, <1>2 DEF vars, World, Block, Push, PersonMoves, ThreadGrows, OrphanEnds, PidsAndTime
  <2> QED
    BY <1>0, <2>3, <2>4 DEF OrphanEnds
<1>3. ASSUME NEW p \in Procs, Start(p) \/ Step(p) \/ Kill(p) \/ Terminate(p)
      PROVE  IsFiniteSet(AtWork(t)') /\ live'[t] >= Cardinality(AtWork(t)')
  <2>1. RunStep(p)
    BY <1>3, RunsStepByStep
  <2>2. \A q \in Procs : q # p => proc'[q] = proc[q] /\ Card(q)' = Card(q)
    BY <2>1, CardStays DEF RunStep
  <2>3. CASE live' = live /\ (proc'[p] = proc[p] \/ proc'[p].at # "reviewing")
    <3>1. proc'[p] = proc[p] => Card(p)' = Card(p)
      BY CardStays
    <3>2. AtWork(t)' \subseteq AtWork(t)
      BY <2>2, <2>3, <3>1 DEF AtWork
    <3> QED
      BY <1>0, <1>1, <2>3, <3>2
  <2>4. CASE /\ proc[p].at = "prep" /\ proc'[p].at = "reviewing"
             /\ live' = [live EXCEPT ![Card(p)] = @ + 1]
    <3>1. Card(p)' = Card(p) /\ p \notin AtWork(t)
      BY <2>1, <2>4, SameCard DEF RunStep, AtWork
    <3>2. CASE Card(p) = t
      <4>1. AtWork(t)' = AtWork(t) \cup {p}
        BY <2>2, <2>4, <3>1, <3>2 DEF AtWork
      <4>2. live'[t] = live[t] + 1
        BY <1>0, <2>4, <3>2
      <4>3. IsFiniteSet(AtWork(t) \cup {p}) /\ Cardinality(AtWork(t) \cup {p}) = Cardinality(AtWork(t)) + 1
        BY <3>1, FS_AddElement
      <4> QED
        BY <1>0, <4>1, <4>2, <4>3
    <3>3. CASE Card(p) # t
      <4>1. AtWork(t)' \subseteq AtWork(t) /\ live'[t] = live[t]
        BY <1>0, <2>2, <2>4, <3>1, <3>3 DEF AtWork
      <4> QED
        BY <1>0, <1>1, <4>1
    <3> QED
      BY <3>2, <3>3
  <2>5. CASE /\ proc[p].at = "reviewing" /\ proc'[p].at \in {"comment", "release"}
             /\ live' = [live EXCEPT ![Card(p)] = @ - 1]
    <3>1. CASE Card(p) = t
      <4>1. AtWork(t)' = AtWork(t) \ {p} /\ p \in AtWork(t)
        BY <2>2, <2>5, <3>1 DEF AtWork
      <4>2. live'[t] = live[t] - 1
        BY <1>0, <2>5, <3>1
      <4>3. IsFiniteSet(AtWork(t) \ {p}) /\ Cardinality(AtWork(t) \ {p}) = Cardinality(AtWork(t)) - 1
        BY <4>1, FS_RemoveElement
      <4> QED
        BY <1>0, <4>1, <4>2, <4>3
    <3>2. CASE Card(p) # t
      <4>1. AtWork(t)' \subseteq AtWork(t) /\ live'[t] = live[t]
        BY <1>0, <2>2, <2>5, <3>2 DEF AtWork
      <4> QED
        BY <1>0, <1>1, <4>1
    <3> QED
      BY <3>1, <3>2
  <2> QED
    BY <1>3, <2>3, <2>4, <2>5, ReviewersCome
<1> QED
  BY <1>2, <1>3 DEF Next

\* Blocks are counted up to their bound, and by a block only.
LEMMA BlocksAreBounded ==
  ASSUME Sane, HoldersWork, \A t \in Tickets : card[t].block <= MaxBlocks, [Next]_vars
  PROVE  \A t \in Tickets : card'[t].block <= MaxBlocks
<1>0. card \in [Tickets -> CardRecs]
  BY DEF Sane
<1>1. CASE card' = card
  BY <1>1
<1>2. ASSUME NEW u \in Tickets, Block(u)
      PROVE  \A t \in Tickets : card'[t].block <= MaxBlocks
  <2>1. \A t \in Tickets : card'[t].block = IF t = u THEN card[t].block + 1 ELSE card[t].block
    BY <1>0, <1>2 DEF Block, CardRecs
  <2>2. card[u].block + 1 <= MaxBlocks
    BY <1>0, <1>2, SweeperAssumption DEF Block, CardRecs
  <2> QED
    BY <2>1, <2>2
<1>3. ASSUME \A t \in Tickets : card'[t].block = card[t].block
      PROVE  \A t \in Tickets : card'[t].block <= MaxBlocks
  BY <1>3
<1>4. ASSUME NEW u \in Tickets, Push(u) \/ PersonMoves(u) \/ ThreadGrows(u) \/ OrphanEnds(u)
      PROVE  \A t \in Tickets : card'[t].block = card[t].block
  BY <1>0, <1>4 DEF Push, PersonMoves, ThreadGrows, OrphanEnds, CardRecs
<1>5. ASSUME NEW p \in Procs, Start(p) \/ Step(p) \/ Kill(p) \/ Terminate(p)
      PROVE  \A t \in Tickets : card'[t].block = card[t].block
  <2>1. TouchesCards(p)
    BY <1>5, RunsStepByStep DEF RunStep
  <2> QED
    BY <1>0, <2>1 DEF TouchesCards, Patched, CardRecs
<1> QED
  BY <1>1, <1>2, <1>3, <1>4, <1>5 DEF Next, World, PidsAndTime, vars

LEMMA BoundedStep ==
  ASSUME Sane, HoldersWork, Bounded, [Next]_vars
  PROVE  Bounded'
<1>1. \A t \in Tickets : card'[t].block <= MaxBlocks
  BY BlocksAreBounded DEF Bounded
<1>2. \A t \in Tickets : IsFiniteSet(AtWork(t)') /\ live'[t] >= Cardinality(AtWork(t)')
  BY ReviewersSuffice DEF Bounded
<1>3. CASE UNCHANGED vars \/ World \/ PidsAndTime
  <2>1. UNCHANGED <<lock, ledger, proc>>
    BY <1>3, WorldLeavesRuns DEF vars
  <2> QED
    BY <1>1, <1>2, <2>1 DEF Bounded
<1>4. ASSUME NEW p \in Procs, Start(p) \/ Step(p) \/ Kill(p) \/ Terminate(p)
      PROVE  Bounded'
  <2>1. RunStep(p) /\ Accounts(p)
    BY <1>4, RunsStepByStep, RunsAccount
  <2>2. lock' \in [Tickets -> LockRecs]
    BY <1>4, LocksStayTyped DEF Bounded
  <2>3. proc[p] \in Runs /\ (proc[p].at \in Hand => proc[p].processed < MaxTickets /\ proc[p].seen.text \in Texts)
    BY DEF Sane, Bounded
  <2>4. proc[p].queue # {} => Card(p) \in Tickets
    BY <2>3, CardIsQueued DEF Runs
  <2>5. ledger' \subseteq Tickets \X Texts
    <3>1. CASE ledger' = ledger
      BY <3>1 DEF Bounded
    <3>2. CASE proc[p].at = "append" /\ ledger' = ledger \cup {<<Card(p), proc[p].seen.text>>}
      <4>1. proc[p].queue # {} /\ proc[p].at \in Hand
        BY <3>2 DEF Sane, Hand, Locked
      <4> QED
        BY <2>3, <2>4, <3>2, <4>1 DEF Bounded
    <3> QED
      BY <2>1, <3>1, <3>2 DEF RunStep, TouchesLedger
  <2>6. proc'[p].processed <= MaxTickets
    BY <2>1, <2>3, SweeperAssumption DEF Accounts, Bounded, Runs
  <2>7. ASSUME proc'[p].at \in Hand, proc'[p] # proc[p]
        PROVE  proc'[p].processed < MaxTickets /\ proc'[p].seen.text \in Texts
    <3>1. CASE proc[p].at = "next" /\ proc'[p].at = "ledger"
      <4>1. proc[p].processed < MaxTickets /\ card[Card(p)].text # Plain
        BY <2>1, <3>1 DEF Accounts
      <4>2. proc'[p].seen = Detail(Card(p)) /\ proc[p].queue # {}
        BY <2>1, <2>7, <3>1 DEF RunStep, Follows, Edges
      <4>3. card[Card(p)].text \in Texts /\ Detail(Card(p)).text = card[Card(p)].text
        BY <2>4, <4>1, <4>2, DetailIsSeen DEF Sane, CardRecs
      <4>4. proc'[p].processed < MaxTickets
        BY <2>1, <2>3, <3>1, <4>1, SweeperAssumption DEF Accounts, Runs
      <4> QED
        BY <4>2, <4>3, <4>4
    <3>2. CASE <<proc[p].at, proc'[p].at>> \in Edges /\ proc'[p].seen = proc[p].seen
      <4>1. proc[p].at \in Hand
        BY <2>7, <3>2 DEF Edges, Hand, Locked
      <4>2. proc'[p].processed < MaxTickets
        BY <2>1, <2>3, <2>7, <4>1, SweeperAssumption DEF Accounts, Runs, Hand
      <4> QED
        BY <2>3, <3>2, <4>1, <4>2
    <3>3. proc'[p].at \notin {"off", "init", "list", "stall", "count", "next"}
      BY <2>7 DEF Hand, Locked
    <3> QED
      BY <2>1, <2>7, <3>1, <3>2, <3>3 DEF RunStep, Follows
  <2>8. ASSUME NEW q \in Procs
        PROVE  /\ proc'[q].processed <= MaxTickets
               /\ proc'[q].at \in Hand => proc'[q].processed < MaxTickets /\ proc'[q].seen.text \in Texts
    <3>1. CASE proc'[q] = proc[q]
      BY <3>1 DEF Bounded
    <3>2. CASE q = p /\ proc'[q] # proc[q]
      BY <2>6, <2>7, <3>2
    <3> QED
      BY <2>1, <3>1, <3>2 DEF RunStep
  <2> QED
    BY <1>1, <1>2, <2>2, <2>5, <2>8 DEF Bounded
<1> QED
  BY <1>3, <1>4 DEF Next

LEMMA BoundedAtFirst == Init => Bounded
<1> SUFFICES ASSUME Init PROVE Bounded
  OBVIOUS
<1>1. \A p \in Procs : proc[p].at = "off" /\ proc[p].processed = 0
  BY DEF Init, Asleep
<1>2. \A t \in Tickets : AtWork(t) = {}
  BY <1>1 DEF AtWork
<1>3. lock \in [Tickets -> LockRecs] /\ ledger = {} /\ \A t \in Tickets : card[t].block = 0 /\ live[t] = 0
  BY DEF Init, NoLock, LockRecs
<1>4. \A t \in Tickets : IsFiniteSet(AtWork(t)) /\ live[t] >= Cardinality(AtWork(t))
  <2> SUFFICES ASSUME NEW t \in Tickets
               PROVE  IsFiniteSet(AtWork(t)) /\ live[t] >= Cardinality(AtWork(t))
    OBVIOUS
  <2>1. IsFiniteSet({}) /\ Cardinality({}) = 0
    BY FS_EmptySet
  <2>2. AtWork(t) = {} /\ live[t] = 0
    BY <1>2, <1>3
  <2> HIDE <1>2, <1>3
  <2> QED
    BY <2>1, <2>2
<1>5. \A p \in Procs : proc[p].processed <= MaxTickets /\ ~(proc[p].at \in Hand)
  BY <1>1, SweeperAssumption DEF Hand, Locked
<1> QED
  BY <1>3, <1>4, <1>5, SweeperAssumption DEF Bounded

\* The types hold: no run takes on more cards than its bound, no card is blocked beyond
\* the model's, what the ledger holds asked for a review, and no reviewer ends that was
\* never started.
THEOREM TypeCorrect == Spec => []TypeOK
<1>1. Init => Bounded
  BY BoundedAtFirst
<1>2. Sane /\ HoldersWork /\ Bounded /\ [Next]_vars => Bounded'
  BY BoundedStep
<1>3. Sane /\ LockTypeOK /\ Bounded => TypeOK
  <2> SUFFICES ASSUME Sane, LockTypeOK, Bounded PROVE TypeOK
    OBVIOUS
  <2>1. ASSUME NEW t \in Tickets
        PROVE  /\ card[t].status \in {"open", "blocked", "done"} /\ card[t].text \in Texts \cup {Plain}
               /\ card[t].block \in 0..MaxBlocks /\ card[t].skips \in Nat /\ card[t].patches \in Nat
               /\ live[t] \in Nat
               /\ lock[t].owner \in Procs \cup {Free, Dead} /\ lock[t].reviewer \in {"none", "ended"}
    <3>1. card[t] \in CardRecs /\ live[t] \in Int /\ lock[t] \in LockRecs /\ card[t].block <= MaxBlocks
      BY DEF Sane, Bounded
    <3>2. live[t] \in Nat
      <4>1. IsFiniteSet(AtWork(t)) /\ live[t] >= Cardinality(AtWork(t))
        BY DEF Bounded
      <4>2. Cardinality(AtWork(t)) \in Nat
        BY <4>1, FS_CardinalityType
      <4> QED
        BY <3>1, <4>1, <4>2
    <3>3. card[t].block \in 0..MaxBlocks
      BY <3>1, SweeperAssumption DEF CardRecs
    <3> QED
      BY <3>1, <3>2, <3>3 DEF CardRecs, LockRecs
  <2>2. ASSUME NEW p \in Procs
        PROVE  /\ proc[p].at \in Guarded \cup {"off", "init", "stall", "count"}
               /\ proc[p].processed \in 0..MaxTickets
               /\ proc[p].verdict \in {"none", "approve", "changes", "escalate", "unparsed", "failed"}
               /\ proc[p].at \in Locked \cup {"ledger", "lock"} => proc[p].queue # {}
    <3>1. proc[p] \in Runs /\ proc[p].processed <= MaxTickets
      BY DEF Sane, Bounded
    <3> QED
      BY <3>1, SweeperAssumption DEF Runs, Sane
  <2> QED
    BY <2>1, <2>2 DEF TypeOK, Sane, Bounded, Counts
<1> QED
  BY <1>1, <1>2, <1>3, RunsHoldAndAreSane, PTL DEF Spec
=============================================================================
