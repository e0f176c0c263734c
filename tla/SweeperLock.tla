---------------------------- MODULE SweeperLock ----------------------------
(***************************************************************************)
(* The singleton of the review sweeper (singleton_acquire and              *)
(* singleton_release of sweeper/review_sweeper.py) at the level of its     *)
(* system calls: O_EXCL create, read, remove, create again, write.  A lock *)
(* whose pid is dead or that is older than its TTL is stale; the pid of a  *)
(* dead owner may be given to a process of somebody else's, which then     *)
(* looks like a live owner.                                                *)
(***************************************************************************)
EXTENDS Naturals, FiniteSets

CONSTANTS
  Sweeps,  \* sweeper processes that take the singleton: ticks and manual runs
  Spaced   \* TRUE: no process starts while another is still acquiring

Free == "free"  \* no owner
Dead == "dead"  \* an owner that no longer runs

ASSUME SweeperLockAssumption == {Free, Dead} \cap Sweeps = {} /\ Spaced \in BOOLEAN

VARIABLES
  file,  \* sweeper.pid: who created it, the pid it says, and its age
  at     \* where each process is with it

lockVars == <<file, at>>

NoFile == [by |-> Free, pid |-> Free, age |-> "fresh"]

Acquiring == {"open", "read", "remove", "reopen", "write"}
Holding   == {"holds", "check", "drop"}

LockTypeOK ==
  /\ file \in [by : Sweeps \cup {Free, Dead}, pid : Sweeps \cup {Free, Dead},
               age : {"fresh", "recycled", "old"}]
  /\ at \in [Sweeps -> Acquiring \cup Holding \cup {"off"}]

LockInit == file = NoFile /\ at = [p \in Sweeps |-> "off"]

Moves(p, from, to) == at[p] = from /\ at' = [at EXCEPT ![p] = to]

\* A new process, with a pid that is nobody's.
Begin(p) ==
  /\ Spaced => \A q \in Sweeps : at[q] \notin Acquiring
  /\ Moves(p, "off", "open") /\ UNCHANGED file

Created(p) == file' = [NoFile EXCEPT !.by = p]

\* os.open with O_EXCL
Open(p) ==
  \/ file = NoFile /\ Moves(p, "open", "write") /\ Created(p)
  \/ file # NoFile /\ Moves(p, "open", "read") /\ UNCHANGED file

\* os.kill(pid, 0) finds a process with the owner's pid.
Alive == file.pid \in Sweeps \/ (file.pid = Dead /\ file.age = "recycled")

\* Mutant of Read: a stale file is taken for a live owner's.
ReadRefuses(p) == Moves(p, "read", "off") /\ UNCHANGED file

\* An unreadable file, a dead pid and a file past its TTL are stale.
Read(p) ==
  /\ IF Alive THEN Moves(p, "read", "off") ELSE Moves(p, "read", "remove")
  /\ UNCHANGED file

\* os.remove of the path, whichever file is there; a missing one refuses.
Remove(p) ==
  /\ \/ file # NoFile /\ Moves(p, "remove", "reopen")
     \/ file = NoFile /\ Moves(p, "remove", "off")
  /\ file' = NoFile

\* The second O_EXCL create is not guarded: it raises when somebody was faster.
Reopen(p) ==
  \/ file = NoFile /\ Moves(p, "reopen", "write") /\ Created(p)
  \/ file # NoFile /\ Moves(p, "reopen", "off") /\ UNCHANGED file

\* Mutant of Write: the lock file stays empty.
WriteNot(p) == Moves(p, "write", "holds") /\ UNCHANGED file

Write(p) ==
  /\ Moves(p, "write", "holds")
  /\ file' = IF file.by = p THEN [file EXCEPT !.pid = p] ELSE file

Acquire(p) == Open(p) \/ Read(p) \/ Remove(p) \/ Reopen(p) \/ Write(p)

\* singleton_release is called: it reads the file, and removes only its own pid's.
Leave(p)    == Moves(p, "holds", "check") /\ UNCHANGED file
CheckOwn(p) == Moves(p, "check", IF file.pid = p THEN "drop" ELSE "off") /\ UNCHANGED file
Drop(p)     == Moves(p, "drop", "off") /\ file' = NoFile

LetGo(p) == CheckOwn(p) \/ Drop(p)

\* The process dies where it is; a file of its own says a dead pid from now on.
Dies(p) ==
  LET orDead(q) == IF q = p THEN Dead ELSE q IN
  /\ at' = [at EXCEPT ![p] = "off"]
  /\ file' = [file EXCEPT !.by = orDead(@), !.pid = orDead(@)]

\* The host gives the dead owner's pid to another process.
Recycle == file.pid = Dead /\ file.age = "fresh" /\ file' = [file EXCEPT !.age = "recycled"]

\* LOCK_TTL passes; a run ends long before it (two reviewers at their timeout).
Expire == file.pid = Dead /\ file.age # "old" /\ file' = [file EXCEPT !.age = "old"]

Host == (Recycle \/ Expire) /\ UNCHANGED at

LockNext ==
  Host \/ \E p \in Sweeps : Begin(p) \/ Acquire(p) \/ Leave(p) \/ LetGo(p) \/ Dies(p)

LockSpec == LockInit /\ [][LockNext]_lockVars

----------------------------------------------------------------------------
\* "Cron tick + manual runs must never overlap": one holder, whatever dies where.
SingleInstance == Cardinality({p \in Sweeps : at[p] \in Holding}) <= 1
=============================================================================
