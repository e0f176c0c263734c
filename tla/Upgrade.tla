------------------------------ MODULE Upgrade ------------------------------
(***************************************************************************)
(* deploy/upgrade.py: preflight, build, backup, install, restart, verify   *)
(* of the bridge's binary, with what moves under it: the working tree, the *)
(* service and systemd restarting it (cmd/kanban-mcp: it answers /healthz  *)
(* before it logs its version), and the journal.                           *)
(***************************************************************************)
EXTENDS Integers

CONSTANTS
  Commits,   \* commits of the branch, 1..n: a later one contains the earlier ones
  Expect,    \* --expect, or 0
  AllowDirty,\* --allow-dirty
  Placed,    \* whether a binary was installed before: TRUE, FALSE or both
  Crashes,   \* TRUE: the service may die, and systemd restarts it
  Edits,     \* TRUE: the working tree may change while the script runs
  Tries,     \* probes that fit into HEALTH_TIMEOUT and VERSION_TIMEOUT
  Missing,   \* no file, no version line
  Half,      \* a torn file
  MaxRuns    \* bound: upgrades run

ASSUME UpgradeAssumption ==
  /\ {Commits, {Tries, MaxRuns}} \subseteq SUBSET (Nat \ {0})
  /\ Expect \in Commits \cup {0}
  /\ {AllowDirty, Crashes, Edits} \cup Placed \subseteq BOOLEAN

Trees == [commit : Commits, dirty : BOOLEAN]

\* A binary is the tree it was compiled from and the version stamped into it.
Binaries == [code : Trees, version : Trees]
Oldest == CHOOSE c \in Commits : \A d \in Commits : c <= d
First == [code |-> [commit |-> Oldest, dirty |-> FALSE], version |-> [commit |-> Oldest, dirty |-> FALSE]]

VARIABLES
  tree,    \* the working tree
  disk,    \* /usr/local/bin/kanban-mcp
  service, \* the process systemd runs: its binary and how far it has come
  line,    \* the last version in the journal window
  run,     \* the upgrade under way
  runs,    \* upgrades run so far
  before   \* history: the disk when the upgrade began

vars == <<tree, disk, service, line, run, runs, before>>

Files == Binaries \cup {Missing, Half}
Rest == [at |-> "off", version |-> [commit |-> Oldest, dirty |-> FALSE], built |-> Missing,
         backup |-> Missing, installed |-> FALSE, tries |-> 0, verdict |-> "none"]

\* The state is well typed: what is built, installed, saved and served is missing or was made
\* from some tree.
TypeOK ==
  /\ tree \in Trees /\ disk \in Files /\ before \in Files
  /\ service.bin \in Files /\ service.at \in {"down", "starting", "serving", "logged"}
  /\ line \in Trees \cup {Missing}
  /\ run.at \in {"off", "preflight", "build", "backup", "install", "restart", "health", "version", "smoke"}
  /\ run.version \in Trees /\ run.built \in Files /\ run.backup \in Files
  /\ run.installed \in BOOLEAN /\ run.tries \in 0..Tries
  /\ run.verdict \in {"none", "refused", "deployed", "failed", "unhealthy", "different", "silent"}
  /\ runs \in 0..MaxRuns

Init ==
  /\ tree \in Trees
  /\ \/ TRUE \in Placed /\ disk = First /\ service = [bin |-> First, at |-> "logged"]
     \/ FALSE \in Placed /\ disk = Missing /\ service = [bin |-> Missing, at |-> "down"]
  /\ line = Missing
  /\ run = Rest /\ runs = 0 /\ before = disk

----------------------------------------------------------------------------
(* The tree, and the service under systemd. *)

Script == UNCHANGED <<run, runs, before>>

Edit ==
  /\ Edits \/ run.at = "off"
  /\ tree' \in Trees /\ UNCHANGED <<disk, service, line>> /\ Script

\* systemd starts whatever is on disk; a torn or missing file does not start.
Started == IF disk \in Binaries THEN [bin |-> disk, at |-> "starting"] ELSE [bin |-> disk, at |-> "down"]

Crash ==
  /\ Crashes /\ service.at # "down"
  /\ service' = Started /\ UNCHANGED <<tree, disk, line>> /\ Script

\* main: the listeners serve as soon as they are bound, ...
Bind ==
  /\ service.at = "starting" /\ service' = [service EXCEPT !.at = "serving"]
  /\ UNCHANGED <<tree, disk, line>> /\ Script

\* ... and "startup complete" with the version is logged after that.
LogVersion ==
  /\ service.at = "serving" /\ service' = [service EXCEPT !.at = "logged"]
  /\ line' = service.bin.version
  /\ UNCHANGED <<tree, disk>> /\ Script

World == Edit \/ Crash \/ Bind \/ LogVersion

----------------------------------------------------------------------------
(* main *)

Host == UNCHANGED <<tree, disk, service>>
Ends(verdict) == run' = [run EXCEPT !.at = "off", !.verdict = verdict]
Goes(there) == run' = [run EXCEPT !.at = there]
Steady == UNCHANGED <<runs, before>>

\* The journal window opens before the preflight.
Begin ==
  /\ run.at = "off" /\ runs < MaxRuns /\ runs' = runs + 1
  /\ run' = [Rest EXCEPT !.at = "preflight"] /\ before' = disk
  /\ line' = Missing
  /\ Host

Acceptable == (tree.dirty => AllowDirty) /\ Expect <= tree.commit

\* Mutant of Preflight: what it read of the tree is not checked.
PreflightLax ==
  /\ run.at = "preflight"
  /\ run' = [run EXCEPT !.at = "build", !.version = tree]
  /\ Host /\ Steady /\ UNCHANGED line

\* The stamp is what the preflight saw: HEAD, and whether the tree is dirty.
Preflight ==
  /\ run.at = "preflight"
  /\ \/ Acceptable /\ run' = [run EXCEPT !.at = "build", !.version = tree]
     \/ Ends("refused")
  /\ Host /\ Steady /\ UNCHANGED line

\* go build compiles the tree that is there by now, under the version of the preflight.
Build ==
  /\ run.at = "build"
  /\ \/ run' = [run EXCEPT !.at = "backup", !.built = [code |-> tree, version |-> run.version]]
     \/ Ends("failed")
  /\ Host /\ Steady /\ UNCHANGED line

\* Mutant of Backup: the copy is taken of the new binary.
BackupLate ==
  /\ run.at = "backup"
  /\ run' = [run EXCEPT !.at = "install", !.backup = IF disk = Missing THEN Missing ELSE run.built]
  /\ Host /\ Steady /\ UNCHANGED line

\* backup_binary: nothing to copy where nothing is installed.
Backup ==
  /\ run.at = "backup"
  /\ \/ run' = [run EXCEPT !.at = "install", !.backup = disk]
     \/ Ends("failed")
  /\ Host /\ Steady /\ UNCHANGED line

\* install(1): one that fails may leave a torn file.
Install ==
  /\ run.at = "install"
  /\ \/ disk' = run.built /\ run' = [run EXCEPT !.at = "restart", !.installed = TRUE]
     \/ Ends("failed") /\ disk' \in {disk, Half}
  /\ UNCHANGED <<tree, service, line>> /\ Steady

Probing(there) == run' = [run EXCEPT !.at = there, !.tries = Tries]

\* Mutant of Restart: a restart that failed is verified all the same.
RestartForgives ==
  /\ run.at = "restart"
  /\ \/ service' = Started /\ Probing("health")
     \/ Probing("health") /\ UNCHANGED service
  /\ UNCHANGED <<tree, disk, line>> /\ Steady

Restart ==
  /\ run.at = "restart"
  /\ \/ service' = Started /\ Probing("health")
     \/ Ends("failed") /\ UNCHANGED service
  /\ UNCHANGED <<tree, disk, line>> /\ Steady

Healthy == service.at \in {"serving", "logged"}

\* wait_for_health: a probe that fails is repeated until the deadline.
WaitForHealth ==
  /\ run.at = "health"
  /\ \/ Healthy /\ Probing("version")
     \/ ~Healthy /\ run.tries > 0 /\ run' = [run EXCEPT !.tries = @ - 1]
     \/ ~Healthy /\ run.tries = 0 /\ Ends("unhealthy")
  /\ Host /\ Steady /\ UNCHANGED line

\* wait_for_running_version: the last version in the window decides, whoever wrote it.
WaitForVersion ==
  /\ run.at = "version"
  /\ \/ line = run.version /\ Goes("smoke")
     \/ line \notin {run.version, Missing} /\ Ends("different")
     \/ line = Missing /\ run.tries > 0 /\ run' = [run EXCEPT !.tries = @ - 1]
     \/ line = Missing /\ run.tries = 0 /\ Ends("silent")
  /\ Host /\ Steady /\ UNCHANGED line

\* run_smoke, or --skip-smoke.
Smoke ==
  /\ run.at = "smoke"
  /\ Ends("deployed") \/ Ends("failed")
  /\ Host /\ Steady /\ UNCHANGED line

Step ==
  \/ Begin \/ Preflight \/ Build \/ Backup \/ Install \/ Restart
  \/ WaitForHealth \/ WaitForVersion \/ Smoke

Next == World \/ Step

Spec == Init /\ [][Next]_vars

----------------------------------------------------------------------------
(* What the script proves. *)

Concludes(verdict) == run.at # "off" /\ run'.at = "off" /\ run'.verdict = verdict

\* "Prove it is the binary that is actually serving": when it says deployed, what the
\* service runs is the file that was built, also when an old one has the same version.
DeployedIsServed ==
  [][ Concludes("deployed") => service.bin = run.built ]_vars

\* Only a tree with the expected commit, clean unless waived, is announced as deployed.
DeployedIsMeant ==
  [][ Concludes("deployed") => Expect <= run.version.commit /\ (run.version.dirty => AllowDirty) ]_vars

\* The rollback line tells the truth: the backup is the binary of before, "untouched" is
\* untouched but for what a failed install(1) tore, and "did not exist" did not exist.
RollbackIsHonest ==
  [][ run.at \notin {"off", "preflight"} /\ run'.at = "off" =>
        IF run'.backup # Missing THEN run'.backup = before
        ELSE IF ~run'.installed THEN disk' \in {before, Half}
        ELSE before = Missing ]_vars
=============================================================================
