---------------------------- MODULE PanelUpgrade ----------------------------
(***************************************************************************)
(* The upgrade of the panel, _do_update_panel of utils/upgrade_panel.py:   *)
(* back up the files the package will replace and the built web files,     *)
(* delete the web files, copy the package, compare hashes with up to three *)
(* attempts, and roll back when files still differ.  Every copy may fail   *)
(* without the loop noticing, a few calls end the upgrade with an          *)
(* exception, and the process may be killed; the upgrade can be run again. *)
(***************************************************************************)
EXTENDS Naturals, FiniteSets

CONSTANTS
    Files,        \* paths below the panel directory
    MaxUpgrades   \* bound: upgrades that are started

ASSUME UpgradeAssumption == MaxUpgrades \in Nat

Contents == {"none", "old", "new", "torn"}   \* "none": there is no such file
Areas    == {"web", "panel", "data"}         \* /web/dist/static, the rest, /data and /logs
Attempts == 3                                \* retry_nums < 3

VARIABLES
    area,      \* area[f]: the part of the panel file f belongs to
    package,   \* the files of the package
    panel,     \* panel[f]: what is on disk
    bak,       \* bak[f]: what the backup directory holds
    before,    \* history: the panel when this upgrade began
    upc,       \* where the upgrade stands
    visit,     \* the files the copy loop at hand has still to visit
    differ,    \* the names handed to the next attempt, files found different
    attempt,   \* the attempt at hand
    outcome,   \* how the last upgrade ended: "none", "success", "rolled_back",
               \* "failed", or "untidy" when only its clean-up failed
    spoiled,   \* history: files a copy into or out of the backup failed for, or
               \* that a rollback cut short has not come to
    upgrades   \* upgrades started

upgVars == <<area, package, panel, bak, before, upc, visit, differ, attempt,
             outcome, spoiled, upgrades>>
release == <<area, package>>
trace   == <<before, upgrades>>

Web      == {f \in Files : area[f] = "web"}
Replaced == {f \in package : area[f] = "panel"}
Present  == {f \in Files : panel[f] # "none"}

UpgInit ==
    /\ area \in [Files -> Areas]
    /\ package \in SUBSET Files \ {{}}
    /\ panel \in [Files -> {"none", "old"}]
    /\ before = panel
    /\ bak = [f \in Files |-> "none"]
    /\ upc = "idle" /\ visit = {} /\ differ = {} /\ attempt = 0
    /\ outcome = "none" /\ spoiled = {} /\ upgrades = 0

(* clear_update_tmp_files deletes every backup, or raises half-way.        *)
Keep(kept) == bak' = [f \in Files |-> IF f \in kept THEN bak[f] ELSE "none"]
NoBackup   == Keep({})

(* What shutil.copyfile of content c may leave where content d was: the    *)
(* copy, what was there, or a file that was opened for writing and cut off.*)
Copied(c, d) == {c, d, "torn"}

(* Old backups are deleted, the package is fetched and unpacked and its    *)
(* version compared; a refusal changes nothing else.                       *)
Begin ==
    /\ upc = "idle" /\ upgrades < MaxUpgrades
    /\ upgrades' = upgrades + 1
    /\ before' = panel
    /\ spoiled' = {} /\ outcome' = "none" /\ attempt' = 1 /\ differ' = {}
    /\ NoBackup
    /\ upc' = "backup"
    /\ visit' = Replaced \cup (Web \cap Present)
    /\ UNCHANGED <<release, panel>>

BeginRefused ==
    /\ upc = "idle" /\ upgrades < MaxUpgrades
    /\ upgrades' = upgrades + 1
    /\ before' = panel
    /\ spoiled' = {} /\ outcome' = "failed" /\ attempt' = 0 /\ differ' = {}
    /\ \E kept \in SUBSET Files : Keep(kept)
    /\ UNCHANGED <<release, panel, upc, visit>>

BackupCopy(f) ==
    /\ upc = "backup" /\ f \in visit
    /\ visit' = visit \ {f}
    /\ \E c \in IF panel[f] = "none" THEN {"none"} ELSE Copied(panel[f], bak[f]) :
          /\ bak' = [bak EXCEPT ![f] = c]
          /\ spoiled' = IF c = panel[f] THEN spoiled ELSE spoiled \cup {f}
    /\ UNCHANGED <<release, panel, trace, upc, differ, attempt, outcome>>

(* bakcup_copy_dir_files comes back with False: nothing was touched yet.   *)
BackupFails ==
    /\ upc = "backup"
    /\ upc' = "idle" /\ visit' = {} /\ outcome' = "failed"
    /\ \E kept \in SUBSET Files : Keep(kept)
    /\ UNCHANGED <<release, panel, trace, differ, attempt, spoiled>>

(* DeleteDir(web_pack_path), before the update and before the rollback; it *)
(* raises when a file cannot be deleted, and then nothing is rolled back.  *)
DeleteWeb(from, to, next) ==
    /\ upc = from /\ visit = {}
    /\ panel' = [f \in Files |-> IF f \in Web THEN "none" ELSE panel[f]]
    /\ upc' = to /\ visit' = next
    /\ UNCHANGED <<release, bak, trace, differ, attempt, outcome, spoiled>>

DeleteWebFails(from) ==
    /\ upc = from /\ visit = {}
    /\ \E gone \in SUBSET Web :
          panel' = [f \in Files |-> IF f \in gone THEN "none" ELSE panel[f]]
    /\ upc' = "idle" /\ outcome' = "failed"
    /\ UNCHANGED <<release, bak, trace, visit, differ, attempt, spoiled>>

(* The first attempt copies the package, /data and /logs left out.         *)
UpdateCopy(f) ==
    /\ upc = "update" /\ f \in visit
    /\ visit' = visit \ {f}
    /\ \E c \in Copied("new", panel[f]) : panel' = [panel EXCEPT ![f] = c]
    /\ UNCHANGED <<release, bak, trace, upc, differ, attempt, outcome, spoiled>>

(* Compares the files of the package with the panel.  A missing file is    *)
(* reported under the full path of its source and a different one without  *)
(* its leading slash: the next attempt finds neither to copy, and in the   *)
(* next comparison only the different ones are found again.                *)
Compared == IF attempt = 1 THEN package ELSE differ
Missing  == {f \in Compared : panel[f] = "none"}

(* Looks only for missing files, not at what the others hold.              *)
Differ_Unread == {f \in Compared : panel[f] = "torn"}

Differ   == {f \in Compared : panel[f] \in {"old", "torn"}}

Again ==
    /\ upc = "update" /\ visit = {} /\ Missing \cup Differ # {} /\ attempt < Attempts
    /\ attempt' = attempt + 1
    /\ differ' = Differ
    /\ UNCHANGED <<release, panel, bak, trace, upc, visit, outcome, spoiled>>

(* The last attempt failed: roll back, without the web files so far.       *)
GiveUp ==
    /\ upc = "update" /\ visit = {} /\ Missing \cup Differ # {} /\ attempt = Attempts
    /\ upc' = "restore"
    /\ UNCHANGED <<release, panel, bak, trace, visit, differ, attempt, outcome, spoiled>>

(* update_copy_dir_files returns False, at any file of any attempt: to log *)
(* a failed copy can fail as well, when the disk is full.                  *)
UpdateStops ==
    /\ upc = "update"
    /\ upc' = "restore" /\ visit' = {}
    /\ UNCHANGED <<release, panel, bak, trace, differ, attempt, outcome, spoiled>>

(* A file that cannot be read: the exception skips the rollback.           *)
CheckFails ==
    /\ upc = "update" /\ visit = {} /\ Compared \cap Present # {}
    /\ upc' = "idle" /\ outcome' = "failed"
    /\ UNCHANGED <<release, panel, bak, trace, visit, differ, attempt, spoiled>>

Succeed ==
    /\ upc = "update" /\ visit = {} /\ Missing \cup Differ = {}
    /\ upc' = "idle"
    /\ \/ outcome' = "success" /\ NoBackup
       \/ outcome' = "untidy"  /\ \E kept \in SUBSET Files : Keep(kept)
    /\ UNCHANGED <<release, panel, trace, visit, differ, attempt, spoiled>>

(* Restores the files the package replaces and forgets the web files.      *)
ToRestore_NoWeb == {f \in Replaced : bak[f] # "none"}

(* rollback_copy_dir_files: what the backup holds of the files replaced    *)
(* and of the web files that were there.                                   *)
ToRestore == {f \in Replaced \cup {g \in Web : before[g] # "none"} : bak[f] # "none"}

RestoreCopy(f) ==
    /\ upc = "rollback" /\ f \in visit
    /\ visit' = visit \ {f}
    /\ \E c \in Copied(bak[f], panel[f]) :
          /\ panel' = [panel EXCEPT ![f] = c]
          /\ spoiled' = IF c = bak[f] THEN spoiled ELSE spoiled \cup {f}
    /\ UNCHANGED <<release, bak, trace, upc, differ, attempt, outcome>>

RolledBack ==
    /\ upc = "rollback" /\ visit = {}
    /\ upc' = "idle" /\ outcome' = "rolled_back"
    /\ \E kept \in SUBSET Files : Keep(kept)
    /\ UNCHANGED <<release, panel, trace, visit, differ, attempt, spoiled>>

(* rollback_copy_dir_files gives up in the same way, and nobody looks at   *)
(* what it returns: the files it has not come to are not restored.         *)
RollbackStops ==
    /\ upc = "rollback" /\ visit # {}
    /\ upc' = "idle" /\ outcome' = "rolled_back"
    /\ spoiled' = spoiled \cup visit /\ visit' = {}
    /\ \E kept \in SUBSET Files : Keep(kept)
    /\ UNCHANGED <<release, panel, trace, differ, attempt>>

(* Tidies up before it ends with an exception.                             *)
Killed_Tidy ==
    /\ upc # "idle"
    /\ upc' = "idle" /\ visit' = {} /\ outcome' = "failed"
    /\ NoBackup
    /\ UNCHANGED <<release, panel, trace, differ, attempt, spoiled>>

(* The process is killed; it can be told to upgrade again.                 *)
Killed ==
    /\ upc # "idle"
    /\ upc' = "idle" /\ visit' = {} /\ outcome' = "failed"
    /\ UNCHANGED <<release, panel, bak, trace, differ, attempt, spoiled>>

UpgNext ==
    \/ Begin \/ BeginRefused \/ BackupFails \/ CheckFails
    \/ (\E f \in Files : BackupCopy(f) \/ UpdateCopy(f) \/ RestoreCopy(f))
    \/ DeleteWeb("backup", "update", {f \in package : area[f] # "data"})
    \/ DeleteWeb("restore", "rollback", ToRestore)
    \/ DeleteWebFails("backup") \/ DeleteWebFails("restore")
    \/ Again \/ GiveUp \/ UpdateStops \/ Succeed \/ RolledBack \/ RollbackStops \/ Killed

UpgSpec == UpgInit /\ [][UpgNext]_upgVars
-----------------------------------------------------------------------------
(* Every variable has its type.                                           *)
UpgTypeOK ==
    /\ area \in [Files -> Areas] /\ package \subseteq Files
    /\ panel \in [Files -> Contents] /\ bak \in [Files -> Contents]
    /\ before \in [Files -> Contents]
    /\ upc \in {"idle", "backup", "update", "restore", "rollback"}
    /\ visit \subseteq Files /\ differ \subseteq Files /\ spoiled \subseteq Files
    /\ attempt \in 0..Attempts /\ upgrades \in 0..MaxUpgrades
    /\ outcome \in {"none", "success", "rolled_back", "failed", "untidy"}

(* An upgrade that reports success has left no file of the package with    *)
(* its old content or half written, whatever copies failed on the way.     *)
SuccessLeavesNoOld ==
    outcome \in {"success", "untidy"} => \A f \in package : panel[f] \in {"new", "none"}

(* After a roll-back every file outside /data and /logs that was there     *)
(* before is as it was, unless a copy to or from the backup failed or was  *)
(* not made any more, wherever the update stopped.                         *)
RollbackRestores ==
    outcome = "rolled_back" =>
        \A f \in Files \ spoiled : before[f] # "none" => panel[f] = before[f]

(* Until an upgrade has succeeded, whatever it changed can be restored:    *)
(* when it fails, raises or is killed half-way, the backup still holds     *)
(* each file that is no longer as it was, unless its copy failed or a      *)
(* rollback that reports success was cut short before it.                  *)
ChangedIsBackedUp ==
    outcome \notin {"success", "untidy"} =>
        \A f \in Files \ spoiled :
            before[f] # "none" /\ panel[f] # before[f] => bak[f] = before[f]

(* What the log says of a successful upgrade, the panel files are updated  *)
(* after their integrity was checked: every file of the package that is    *)
(* not personal data is there.  A file that is missing after the first     *)
(* attempt is not copied again, and the second comparison passes it over.  *)
SuccessIsComplete ==
    outcome = "success" => \A f \in package : area[f] # "data" => panel[f] = "new"
=============================================================================
