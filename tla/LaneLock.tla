------------------------------ MODULE LaneLock ------------------------------
(***************************************************************************)
(* The single-instance guard of the lane-return cron (class Lock of        *)
(* scripts/lane_return.py): a pid file that a tick tests, reads, clears,   *)
(* creates, fills and removes, each a system call of its own.  A tick is a *)
(* process that the operating system may kill between any two of them.     *)
(***************************************************************************)
EXTENDS Naturals, FiniteSets

CONSTANTS
  Ticks,     \* pids of the processes cron (and a hand at the shell) starts
  NoPid,     \* what an empty or unreadable pid file says
  Spaced     \* TRUE: no tick is started while another is still acquiring

ASSUME LockAssumption ==
  /\ NoPid \notin Ticks
  /\ Spaced \in BOOLEAN

VARIABLES
  file,   \* the pid file: absent, or who created it and what it says
  at      \* where the process with each pid is

lockVars == <<file, at>>

Absent == [by |-> NoPid, pid |-> NoPid]

Acquiring == {"exists", "read", "unlink", "create", "write"}
Holding   == {"holds", "release"}
Gone      == {"idle", "refused", "finished", "killed"}

LockTypeOK ==
  /\ file \in [by : Ticks \cup {NoPid}, pid : Ticks \cup {NoPid}]
  /\ at \in [Ticks -> Acquiring \cup Holding \cup Gone]

LockInit ==
  /\ file = Absent
  /\ at = [t \in Ticks |-> "idle"]

\* _alive: os.kill(pid, 0).
Alive(t) == at[t] \notin Gone

Moves(t, from, to) == at[t] = from /\ at' = [at EXCEPT ![t] = to]

\* A process starts; its pid is not the one in the pid file.
Start(t) ==
  /\ Spaced => \A u \in Ticks : at[u] \notin Acquiring
  /\ at[t] \in Gone /\ file.by # t
  /\ at' = [at EXCEPT ![t] = "exists"]
  /\ UNCHANGED file

\* os.path.exists
TestExists(t) ==
  /\ \/ file # Absent /\ Moves(t, "exists", "read")
     \/ file = Absent /\ Moves(t, "exists", "create")
  /\ UNCHANGED file

\* Mutant of ReadPid: an empty pid file is somebody's, so it refuses.
ReadPidKeepsEmpty(t) ==
  /\ IF file.pid = NoPid \/ Alive(file.pid)
     THEN Moves(t, "read", "refused") ELSE Moves(t, "read", "unlink")
  /\ UNCHANGED file

\* open and _alive: a live pid refuses; a dead one, an empty file and a file that
\* is gone by now are all stale.
ReadPid(t) ==
  /\ IF file.pid \in Ticks /\ Alive(file.pid)
     THEN Moves(t, "read", "refused") ELSE Moves(t, "read", "unlink")
  /\ UNCHANGED file

\* os.unlink of the path, whichever file is there by now.
Unlink(t) ==
  /\ Moves(t, "unlink", "create")
  /\ file' = Absent

\* os.open with O_EXCL
Create(t) ==
  /\ \/ /\ file = Absent /\ Moves(t, "create", "write")
        /\ file' = [by |-> t, pid |-> NoPid]
     \/ /\ file # Absent /\ Moves(t, "create", "refused")
        /\ UNCHANGED file

\* Mutant of WritePid: the winner leaves its file empty.
WritePidNot(t) == Moves(t, "write", "holds") /\ UNCHANGED file

\* The pid goes to the file this tick created, if that is still the one at the path.
WritePid(t) ==
  /\ Moves(t, "write", "holds")
  /\ file' = IF file.by = t THEN [file EXCEPT !.pid = t] ELSE file

Acquire(t) == TestExists(t) \/ ReadPid(t) \/ Unlink(t) \/ Create(t) \/ WritePid(t)

\* release unlinks the path, whichever file is there.
Release(t) ==
  /\ Moves(t, "release", "finished")
  /\ file' = Absent

\* kill -9: the finally clause does not run.
Kill(t) ==
  /\ Alive(t)
  /\ at' = [at EXCEPT ![t] = "killed"]
  /\ UNCHANGED file

\* What a tick does while it holds the lock is over.
Work(t) == Moves(t, "holds", "release") /\ UNCHANGED file

LockNext == \E t \in Ticks : Start(t) \/ Acquire(t) \/ Work(t) \/ Release(t) \/ Kill(t)

LockSpec == LockInit /\ [][LockNext]_lockVars

----------------------------------------------------------------------------
\* Single instance: at most one tick is past acquire and not yet released.
SingleInstance == Cardinality({t \in Ticks : at[t] \in Holding}) <= 1
=============================================================================
