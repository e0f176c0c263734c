--------------------------- MODULE UpgradeProofs ----------------------------
(* What deploy/upgrade.py proves when it says "deployed", and what its       *)
(* rollback line says when it does not, whatever is edited, dies or is torn  *)
(* meanwhile: for any commits, probes and number of upgrades.                *)
EXTENDS Upgrade, WellFoundedInduction, TLAPS

\* A set of numbers that is not empty has a least one.
LEMMA LeastOfNats ==
  ASSUME NEW T \in SUBSET Nat, T # {}
  PROVE  \E x \in T : \A y \in T : x <= y
<1> DEFINE R == OpToRel(<, Nat)
<1>1. IsWellFoundedOn(R, Nat)
  BY NatLessThanWellFounded
<1>2. \A x, y \in Nat : <<y, x>> \in R <=> y < x
  BY DEF OpToRel
<1> HIDE DEF R
<1>3. PICK x \in T : \A y \in T : ~ (<<y, x>> \in R)
  BY <1>1, WFMin
<1>4. \A y \in T : ~(y < x)
  BY <1>2, <1>3
<1> QED
  BY <1>4

LEMMA OldestIsCommit ==
  ASSUME Commits # {}
  PROVE  Oldest \in Commits
<1>1. \E c \in Commits : \A d \in Commits : c <= d
  BY UpgradeAssumption, LeastOfNats
<1> QED
  BY <1>1 DEF Oldest

----------------------------------------------------------------------------
Places == {"off", "preflight", "build", "backup", "install", "restart", "health", "version", "smoke"}
Upgrades ==
  [at : Places, version : Trees, built : Files, backup : Files, installed : BOOLEAN, tries : 0..Tries,
   verdict : {"none", "refused", "deployed", "failed", "unhealthy", "different", "silent"}]
Services == [bin : Files, at : {"down", "starting", "serving", "logged"}]

Typed ==
  /\ tree \in Trees /\ disk \in Files /\ before \in Files
  /\ service \in Services /\ (service.at # "down" => service.bin \in Binaries)
  /\ line \in Trees \cup {Missing}
  /\ run \in Upgrades /\ runs \in 0..MaxRuns

\* Before the file is installed the disk is as it was, afterwards it is what was built; once
\* systemd has restarted, what it runs is what was built, also if it dies again.
Staged ==
  /\ run.at \in {"preflight", "build", "backup"} => disk = before /\ run.backup = Missing /\ ~run.installed
  /\ run.at = "install" => disk = before /\ run.backup = before /\ ~run.installed
  /\ run.at \in {"backup", "install"} => run.built \in Binaries
  /\ run.at \in {"restart", "health", "version", "smoke"} =>
       disk = run.built /\ run.built \in Binaries /\ run.backup = before /\ run.installed
  /\ run.at \in {"health", "version", "smoke"} => service.bin = run.built

Meant == run.at \notin {"off", "preflight"} => Expect <= run.version.commit /\ (run.version.dirty => AllowDirty)

UpgradeInv == Typed /\ Staged /\ Meant

LEMMA RestIsTyped ==
  ASSUME Commits # {}
  PROVE  Rest \in Upgrades /\ First \in Binaries /\ Rest.at = "off" /\ Rest.backup = Missing /\ ~Rest.installed
<1>1. [commit |-> Oldest, dirty |-> FALSE] \in Trees
  BY OldestIsCommit DEF Trees
<1>2. 0 \in 0..Tries
  BY UpgradeAssumption
<1> QED
  BY <1>1, <1>2 DEF Rest, Upgrades, Places, First, Binaries, Files

LEMMA UpgradeInvInit == Init => UpgradeInv
<1> SUFFICES ASSUME Init PROVE UpgradeInv
  OBVIOUS
<1>1. Commits # {}
  BY DEF Init, Trees
<1>2. Typed
  <2>1. /\ tree \in Trees /\ line = Missing /\ run = Rest /\ runs = 0 /\ before = disk
        /\ \/ disk = First /\ service = [bin |-> First, at |-> "logged"]
           \/ disk = Missing /\ service = [bin |-> Missing, at |-> "down"]
    BY DEF Init
  <2>2. First \in Binaries /\ First \in Files /\ Missing \in Files /\ Rest \in Upgrades
    BY <1>1, RestIsTyped DEF Files
  <2>3. 0 \in 0..MaxRuns
    BY UpgradeAssumption
  <2>4. disk \in Files /\ service.bin \in Files /\ (service.at # "down" => service.bin \in Binaries)
    BY <2>1, <2>2
  <2>5. service \in Services
    BY <2>1, <2>2 DEF Services
  <2> QED
    BY <2>1, <2>2, <2>3, <2>4, <2>5 DEF Typed
<1>3. Staged /\ Meant
  BY <1>1, RestIsTyped DEF Init, Staged, Meant
<1> QED
  BY <1>2, <1>3 DEF UpgradeInv

\* systemd runs what is on disk.
LEMMA StartedIsDisk ==
  ASSUME disk \in Files
  PROVE  Started \in Services /\ Started.bin = disk /\ (Started.at # "down" => disk \in Binaries)
BY DEF Started, Services

\* What an upgrade does to its own record.
LEMMA EndsIsTyped ==
  ASSUME run \in Upgrades, NEW v \in {"refused", "deployed", "failed", "unhealthy", "different", "silent"}, Ends(v)
  PROVE  run' \in Upgrades /\ run'.at = "off"
BY DEF Ends, Upgrades, Places

LEMMA GoesIsTyped ==
  ASSUME run \in Upgrades, NEW there \in {"restart", "smoke", "health", "version"},
         Goes(there) \/ Probing(there) \/ (run.at = there /\ run.tries > 0 /\ run' = [run EXCEPT !.tries = @ - 1])
  PROVE  /\ run' \in Upgrades /\ run'.at = there /\ run'.version = run.version /\ run'.built = run.built
         /\ run'.backup = run.backup /\ run'.installed = run.installed
<1>1. run.tries \in 0..Tries /\ Tries \in Nat
  BY UpgradeAssumption DEF Upgrades
<1>2. CASE Goes(there)
  BY <1>2 DEF Goes, Upgrades, Places
<1>3. CASE Probing(there)
  <2>1. Tries \in 0..Tries
    BY <1>1
  <2>2. run' = [run EXCEPT !.at = there, !.tries = Tries]
    BY <1>3 DEF Probing
  <2> QED
    BY <2>1, <2>2 DEF Upgrades, Places
<1>4. CASE run.at = there /\ run.tries > 0 /\ run' = [run EXCEPT !.tries = @ - 1]
  <2>1. run.tries - 1 \in 0..Tries
    BY <1>1, <1>4
  <2> QED
    BY <1>4, <2>1 DEF Upgrades
<1> QED
  BY <1>2, <1>3, <1>4

\* Every step of the script, of systemd and of whoever edits the tree keeps it.
LEMMA UpgradeInvStep ==
  ASSUME UpgradeInv, [Next]_vars
  PROVE  UpgradeInv'
<1> USE DEF UpgradeInv
<1>0. /\ tree \in Trees /\ disk \in Files /\ before \in Files /\ service \in Services
      /\ line \in Trees \cup {Missing} /\ run \in Upgrades /\ runs \in 0..MaxRuns
      /\ Tries \in Nat /\ MaxRuns \in Nat
  BY UpgradeAssumption DEF Typed
<1>1. CASE UNCHANGED vars
  BY <1>1 DEF vars, Typed, Staged, Meant
<1>2. CASE Edit
  BY <1>2 DEF Edit, Script, Typed, Staged, Meant
<1>3. CASE Crash
  BY <1>3, <1>0, StartedIsDisk DEF Crash, Script, Typed, Staged, Meant
<1>4. CASE Bind
  <2>1. service' \in Services /\ service'.bin = service.bin
    BY <1>0, <1>4 DEF Bind, Services
  <2> QED
    BY <1>4, <2>1 DEF Bind, Script, Typed, Staged, Meant
<1>5. CASE LogVersion
  <2>1. service' \in Services /\ service'.bin = service.bin /\ service.bin.version \in Trees
    BY <1>0, <1>5 DEF LogVersion, Services, Typed, Binaries
  <2> QED
    BY <1>5, <2>1 DEF LogVersion, Script, Typed, Staged, Meant
<1>6. CASE Begin
  <2>1. Commits # {}
    BY <1>0 DEF Trees
  <2> DEFINE r == [Rest EXCEPT !.at = "preflight"]
  <2>2. r \in Upgrades /\ r.at = "preflight" /\ r.backup = Missing /\ ~r.installed
    BY <2>1, RestIsTyped DEF Upgrades, Places
  <2>3. run' = r
    BY <1>6 DEF Begin
  <2> HIDE DEF r
  <2>4. runs' \in 0..MaxRuns /\ before' = disk /\ line' = Missing
    BY <1>0, <1>6 DEF Begin
  <2> QED
    BY <1>6, <2>2, <2>3, <2>4 DEF Begin, Host, Typed, Staged, Meant
<1>7. ASSUME NEW v \in {"refused", "deployed", "failed", "unhealthy", "different", "silent"}, Ends(v),
             UNCHANGED <<tree, service, line, runs, before>>, disk' \in Files
      PROVE  UpgradeInv'
  BY <1>0, <1>7, EndsIsTyped DEF Typed, Staged, Meant
<1>8. CASE Preflight
  <2>1. CASE Acceptable /\ run' = [run EXCEPT !.at = "build", !.version = tree]
    <3>1. /\ run' \in Upgrades /\ run'.at = "build" /\ run'.version = tree /\ run'.backup = run.backup
          /\ run'.installed = run.installed
      BY <1>0, <2>1 DEF Upgrades, Places
    <3> QED
      BY <1>8, <2>1, <3>1 DEF Preflight, Host, Steady, Acceptable, Typed, Staged, Meant
  <2> QED
    BY <1>0, <1>7, <1>8, <2>1 DEF Preflight, Host, Steady
<1>9. CASE Build
  <2>1. CASE run' = [run EXCEPT !.at = "backup", !.built = [code |-> tree, version |-> run.version]]
    <3>1. [code |-> tree, version |-> run.version] \in Binaries
      BY <1>0 DEF Upgrades, Binaries
    <3>2. /\ run' \in Upgrades /\ run'.at = "backup" /\ run'.version = run.version /\ run'.backup = run.backup
          /\ run'.installed = run.installed /\ run'.built \in Binaries
      BY <1>0, <2>1, <3>1 DEF Upgrades, Places, Files
    <3> QED
      BY <1>9, <3>2 DEF Build, Host, Steady, Typed, Staged, Meant
  <2> QED
    BY <1>0, <1>7, <1>9, <2>1 DEF Build, Host, Steady
<1>10. CASE Backup
  <2>1. CASE run' = [run EXCEPT !.at = "install", !.backup = disk]
    <3>1. /\ run' \in Upgrades /\ run'.at = "install" /\ run'.version = run.version /\ run'.backup = disk
          /\ run'.installed = run.installed /\ run'.built = run.built
      BY <1>0, <2>1 DEF Upgrades, Places
    <3> QED
      BY <1>10, <3>1 DEF Backup, Host, Steady, Typed, Staged, Meant
  <2> QED
    BY <1>0, <1>7, <1>10, <2>1 DEF Backup, Host, Steady
<1>11. CASE Install
  <2>1. CASE disk' = run.built /\ run' = [run EXCEPT !.at = "restart", !.installed = TRUE]
    <3>1. /\ run' \in Upgrades /\ run'.at = "restart" /\ run'.version = run.version /\ run'.backup = run.backup
          /\ run'.installed /\ run'.built = run.built /\ run.built \in Files
      BY <1>0, <2>1 DEF Upgrades, Places
    <3> QED
      BY <1>11, <2>1, <3>1 DEF Install, Steady, Typed, Staged, Meant
  <2>2. CASE Ends("failed") /\ disk' \in {disk, Half}
    BY <1>0, <1>7, <1>11, <2>2 DEF Install, Steady, Files
  <2> QED
    BY <1>11, <2>1, <2>2 DEF Install
<1>12. CASE Restart
  <2>1. CASE service' = Started /\ Probing("health")
    BY <1>0, <1>12, <2>1, GoesIsTyped, StartedIsDisk DEF Restart, Steady, Typed, Staged, Meant
  <2> QED
    BY <1>0, <1>7, <1>12, <2>1 DEF Restart, Steady
<1>13. ASSUME NEW there \in {"smoke", "health", "version"},
              Goes(there) \/ Probing(there) \/ (run.at = there /\ run.tries > 0 /\ run' = [run EXCEPT !.tries = @ - 1]),
              run.at \in {"health", "version"}, Host, Steady, UNCHANGED line
       PROVE  UpgradeInv'
  BY <1>0, <1>13, GoesIsTyped DEF Host, Steady, Typed, Staged, Meant
<1>14. CASE WaitForHealth
  <2>1. run.at = "health" /\ Host /\ Steady /\ UNCHANGED line
    BY <1>14 DEF WaitForHealth
  <2>2. CASE Ends("unhealthy")
    BY <1>0, <1>7, <2>1, <2>2 DEF Host, Steady
  <2>3. CASE Probing("version") \/ (run.tries > 0 /\ run' = [run EXCEPT !.tries = @ - 1])
    BY <1>13, <2>1, <2>3
  <2> QED
    BY <1>14, <2>2, <2>3 DEF WaitForHealth
<1>15. CASE WaitForVersion
  <2>1. run.at = "version" /\ Host /\ Steady /\ UNCHANGED line
    BY <1>15 DEF WaitForVersion
  <2>2. CASE Ends("different") \/ Ends("silent")
    BY <1>0, <1>7, <2>1, <2>2 DEF Host, Steady
  <2>3. CASE Goes("smoke") \/ (run.tries > 0 /\ run' = [run EXCEPT !.tries = @ - 1])
    BY <1>13, <2>1, <2>3
  <2> QED
    BY <1>15, <2>2, <2>3 DEF WaitForVersion
<1>16. CASE Smoke
  BY <1>0, <1>7, <1>16 DEF Smoke, Host, Steady
<1> QED
  BY <1>1, <1>2, <1>3, <1>4, <1>5, <1>6, <1>8, <1>9, <1>10, <1>11, <1>12, <1>14, <1>15, <1>16 DEF Next, World, Step

LEMMA UpgradeInvHolds == Spec => []UpgradeInv
<1>1. UpgradeInv /\ [Next]_vars => UpgradeInv'
  BY UpgradeInvStep
<1> QED
  BY <1>1, UpgradeInvInit, PTL DEF Spec

\* The state is well typed: what upgrade.py built, installed and saved, and what the service
\* runs, is missing or was made from some tree.
THEOREM TypeCorrect == Spec => []TypeOK
<1>1. UpgradeInv => TypeOK
  BY DEF UpgradeInv, Typed, TypeOK, Upgrades, Services, Places
<1> QED
  BY <1>1, UpgradeInvHolds, PTL

\* An upgrade ends deployed only from its last step.
LEMMA DeployedFromSmoke ==
  ASSUME [Next]_vars, Concludes("deployed"), run \in Upgrades
  PROVE  run.at = "smoke"
<1>1. run.at # "off" /\ run'.at = "off" /\ run'.verdict = "deployed" /\ run' # run
  BY DEF Concludes
<1>2. \A v : Ends(v) => run'.verdict = v
  BY DEF Ends, Upgrades
<1>3. ~UNCHANGED vars /\ ~World /\ ~Begin
  BY <1>1 DEF vars, World, Edit, Crash, Bind, LogVersion, Script, Begin
<1>4. ~Preflight /\ ~Build /\ ~Backup
  BY <1>1, <1>2 DEF Preflight, Build, Backup, Upgrades
<1>5. ~Install /\ ~Restart
  BY <1>1, <1>2 DEF Install, Restart, Probing, Upgrades
<1>6. ~WaitForHealth /\ ~WaitForVersion
  BY <1>1, <1>2 DEF WaitForHealth, WaitForVersion, Probing, Goes, Upgrades
<1> QED
  BY <1>3, <1>4, <1>5, <1>6 DEF Next, Step, Smoke

\* "Prove it is the binary that is actually serving": deployed means the service runs the
\* file that this run built, whoever wrote the version line that was read.
THEOREM DeployedIsAlwaysServed == Spec => DeployedIsServed
<1>1. UpgradeInv /\ [Next]_vars => [Concludes("deployed") => service.bin = run.built]_vars
  BY DeployedFromSmoke DEF UpgradeInv, Typed, Staged
<1> QED
  BY <1>1, UpgradeInvHolds, PTL DEF Spec, DeployedIsServed

\* check_expected and the clean-tree check: what is announced as deployed is what was asked.
THEOREM DeployedIsAlwaysMeant == Spec => DeployedIsMeant
<1>1. UpgradeInv /\ [Next]_vars =>
        [Concludes("deployed") => Expect <= run.version.commit /\ (run.version.dirty => AllowDirty)]_vars
  BY DeployedFromSmoke DEF UpgradeInv, Typed, Meant
<1> QED
  BY <1>1, UpgradeInvHolds, PTL DEF Spec, DeployedIsMeant

\* The rollback line: its backup is the binary of before, and "untouched" or "did not
\* exist" is said only when that is so.
THEOREM RollbackIsAlwaysHonest == Spec => RollbackIsHonest
<1>1. ASSUME UpgradeInv, [Next]_vars, run.at \notin {"off", "preflight"}, run'.at = "off"
      PROVE  IF run'.backup # Missing THEN run'.backup = before
             ELSE IF ~run'.installed THEN disk' \in {before, Half}
             ELSE before = Missing
  <2>0. run \in Upgrades /\ Staged
    BY <1>1 DEF UpgradeInv, Typed
  <2>1. run'.backup = run.backup /\ run'.installed = run.installed /\ disk' \in {disk, Half} /\ (run.at # "install" => disk' = disk)
    <3>1. \A v : Ends(v) => run'.backup = run.backup /\ run'.installed = run.installed
      BY <2>0 DEF Ends, Upgrades
    <3>2. ~Begin /\ ~Preflight
      BY <1>1 DEF Begin, Preflight
    <3>3. CASE UNCHANGED vars \/ World
      BY <1>1, <3>3 DEF vars, World, Edit, Crash, Bind, LogVersion, Script
    <3>4. CASE Build \/ Backup
      BY <1>1, <2>0, <3>1, <3>4 DEF Build, Backup, Host, Upgrades
    <3>5. CASE Install
      BY <1>1, <2>0, <3>1, <3>5 DEF Install, Upgrades
    <3>6. CASE Restart \/ Smoke
      BY <1>1, <2>0, <3>1, <3>6 DEF Restart, Smoke, Probing, Host, Upgrades
    <3>7. CASE WaitForHealth \/ WaitForVersion
      BY <1>1, <2>0, <3>1, <3>7 DEF WaitForHealth, WaitForVersion, Probing, Goes, Host, Upgrades
    <3> QED
      BY <1>1, <3>2, <3>3, <3>4, <3>5, <3>6, <3>7 DEF Next, Step
  <2>2. run.at \in Places
    BY <2>0 DEF Upgrades
  <2> QED
    BY <1>1, <2>0, <2>1, <2>2 DEF Staged, Places
<1>2. UpgradeInv /\ [Next]_vars =>
        [run.at \notin {"off", "preflight"} /\ run'.at = "off" =>
           IF run'.backup # Missing THEN run'.backup = before
           ELSE IF ~run'.installed THEN disk' \in {before, Half}
           ELSE before = Missing]_vars
  BY <1>1
<1> QED
  BY <1>2, UpgradeInvHolds, PTL DEF Spec, RollbackIsHonest
=============================================================================
