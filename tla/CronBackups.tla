---------------------------- MODULE CronBackups ----------------------------
(***************************************************************************)
(* The runs of one backup task: cronTask of systask/tasks.py for websites  *)
(* (type 2) and for a directory (type 3).  A run packs an archive, creates *)
(* a row of RuyiBackup, links the row to the task and then drops the       *)
(* oldest backups beyond saveNums.  The scheduler runs a task once at a    *)
(* time (max_instances=1), run-now calls the same function in the thread   *)
(* of its request, so several runs interleave; the user deletes backups    *)
(* meanwhile.                                                              *)
(***************************************************************************)
EXTENDS Naturals, Sequences, SequencesExt, FiniteSets

CONSTANTS
    Sites,        \* the websites a task may name
    NoSite,       \* none of them
    Runs,         \* the thread of the scheduler and those of run-now
    SaveNums,     \* backups to keep, a field of the task
    MaxArchives,  \* bound: archives packed in a behaviour
    MaxUpsets     \* bound: backups the user deletes, and things a failed or
                  \* killed step leaves behind

ASSUME CronBackupsAssumption ==
    /\ SaveNums \in Nat /\ MaxArchives \in Nat /\ MaxUpsets \in Nat
    /\ NoSite \notin Sites
    /\ IsFiniteSet(Sites) /\ IsFiniteSet(Runs)

Archives == 1..MaxArchives

VARIABLES
    kind,      \* "site" or "dir", the type of the task
    items,     \* the sites of the task; a single one when kind is "dir"
    task,      \* whether the row of the task still exists
    made,      \* archives packed so far, the last one is number made
    site,      \* site[a]: what archive a is a backup of
    disk,      \* the archives that are on disk
    rows,      \* rows of RuyiBackup of this task, oldest create_at first
    rpc,       \* rpc[r]: where run r stands
    todo,      \* todo[r]: sites run r has still to do
    at,        \* at[r]: the site run r is busy with
    mine,      \* mine[r]: the archive run r packed last
    left,      \* left[r]: backups run r has still to drop
    old,       \* old[r]: the backup run r is dropping
    userAt,    \* where the deletion of a backup by the user stands
    userOld,   \* the backup the user deletes
    deletes,   \* deletions the user has begun
    revived,   \* history: rows inserted again by a save after their deletion
    strays     \* history: archives or rows a failed or killed step left behind

backups  == <<made, site, disk, rows>>
progress == <<todo, at, mine, left, old>>
user     == <<userAt, userOld, deletes>>
bakVars  == <<kind, items, task, backups, rpc, progress, user, revived, strays>>

RunSteps == {"idle", "next", "pack", "row", "link", "save", "count", "pick", "drop", "forget"}

BakInit ==
    /\ kind \in {"site", "dir"}
    /\ items \in SUBSET Sites \ {{}}
    /\ kind = "dir" => Cardinality(items) = 1
    /\ task = TRUE /\ made = 0 /\ disk = {} /\ rows = <<>>
    /\ site = [a \in Archives |-> NoSite]
    /\ rpc  = [r \in Runs |-> "idle"]
    /\ todo = [r \in Runs |-> {}]
    /\ at   = [r \in Runs |-> NoSite]
    /\ mine = [r \in Runs |-> 0]
    /\ left = [r \in Runs |-> 0]
    /\ old  = [r \in Runs |-> 0]
    /\ userAt = "idle" /\ userOld = 0 /\ deletes = 0
    /\ revived = {} /\ strays = {}

(* The row of a backup is deleted, if it is still there.                   *)
DeleteRow(a) ==
    IF Contains(rows, a)
    THEN \E i \in 1..Len(rows) : rows[i] = a /\ rows' = RemoveAt(rows, i)
    ELSE UNCHANGED rows

RunGoto(r, s) == rpc' = [rpc EXCEPT ![r] = s]

(* A run that ends, or is ended by an exception, forgets where it was.     *)
Leave(r) ==
    /\ RunGoto(r, "idle")
    /\ todo' = [todo EXCEPT ![r] = {}]
    /\ at'   = [at   EXCEPT ![r] = NoSite]
    /\ mine' = [mine EXCEPT ![r] = 0]
    /\ left' = [left EXCEPT ![r] = 0]
    /\ old'  = [old  EXCEPT ![r] = 0]

MayUpset == Cardinality(strays) + deletes < MaxUpsets

(* Where a run goes once its row exists, and once the surplus is dropped:  *)
(* backupSite links the row at once, a directory run links it at the end.  *)
AfterRow(r)  == IF kind = "site" THEN "link" ELSE "count"
AfterLink(r) == IF kind = "site" THEN "count" ELSE "next"
AfterDrop(r) == IF kind = "site" THEN "next" ELSE "link"

Start(r) ==
    /\ rpc[r] = "idle" /\ task /\ made < MaxArchives
    /\ todo' = [todo EXCEPT ![r] = items]
    /\ RunGoto(r, "next")
    /\ UNCHANGED <<kind, items, task, backups, at, mine, left, old, user, revived, strays>>

TakeSite(r, s) ==
    /\ rpc[r] = "next" /\ s \in todo[r]
    /\ todo' = [todo EXCEPT ![r] = @ \ {s}]
    /\ at' = [at EXCEPT ![r] = s]
    /\ RunGoto(r, "pack")
    /\ UNCHANGED <<kind, items, task, backups, mine, left, old, user, revived, strays>>

End(r) ==
    /\ rpc[r] = "next" /\ todo[r] = {}
    /\ Leave(r)
    /\ UNCHANGED <<kind, items, task, backups, user, revived, strays>>

Pack(r) ==
    /\ rpc[r] = "pack" /\ made < MaxArchives
    /\ made' = made + 1
    /\ site' = [site EXCEPT ![made + 1] = at[r]]
    /\ disk' = disk \cup {made + 1}
    /\ mine' = [mine EXCEPT ![r] = made + 1]
    /\ RunGoto(r, "row")
    /\ UNCHANGED <<kind, items, task, rows, todo, at, left, old, user, revived, strays>>

(* The site or its directory is gone: nothing is packed, but the surplus   *)
(* is dropped all the same; a directory run stops here.                    *)
Skip(r) ==
    /\ rpc[r] = "pack"
    /\ RunGoto(r, IF kind = "site" THEN "count" ELSE "next")
    /\ UNCHANGED <<kind, items, task, backups, progress, user, revived, strays>>

(* An exception while packing ends the run; part of an archive may remain. *)
PackFails(r) ==
    /\ rpc[r] = "pack" /\ made < MaxArchives /\ MayUpset
    /\ made' = made + 1
    /\ disk' = disk \cup {made + 1}
    /\ site' = [site EXCEPT ![made + 1] = at[r]]
    /\ strays' = strays \cup {made + 1}
    /\ Leave(r)
    /\ UNCHANGED <<kind, items, task, rows, user, revived>>

AddRow(r) ==
    /\ rpc[r] = "row"
    /\ rows' = Append(rows, mine[r])
    /\ RunGoto(r, AfterRow(r))
    /\ UNCHANGED <<kind, items, task, made, site, disk, progress, user, revived, strays>>

Link(r) ==
    /\ rpc[r] = "link"
    /\ RunGoto(r, IF task THEN "save" ELSE AfterLink(r))
    /\ UNCHANGED <<kind, items, task, backups, progress, user, revived, strays>>

(* save() of the object created before: it updates the row, or inserts it  *)
(* again, with a new create_at, when somebody deleted it in between.       *)
Save(r) ==
    /\ rpc[r] = "save"
    /\ IF Contains(rows, mine[r])
         THEN UNCHANGED <<rows, revived>>
         ELSE /\ rows' = Append(rows, mine[r])
              /\ revived' = revived \cup {mine[r]}
    /\ mine' = [mine EXCEPT ![r] = 0]
    /\ RunGoto(r, AfterLink(r))
    /\ UNCHANGED <<kind, items, task, made, site, disk, todo, at, left, old, user, strays>>

(* The surplus is counted over all the backups of the task...              *)
Count(r) ==
    /\ rpc[r] = "count"
    /\ left' = [left EXCEPT ![r] = IF Len(rows) > SaveNums THEN Len(rows) - SaveNums ELSE 0]
    /\ RunGoto(r, "pick")
    /\ UNCHANGED <<kind, items, task, backups, todo, at, mine, old, user, revived, strays>>

(* ...and dropped from those of the site at hand.                          *)
Candidates(r) == {i \in 1..Len(rows) : kind = "dir" \/ site[rows[i]] = at[r]}

(* Mutant: the newest first.                                               *)
Turn_Newest(r, i) == \A k \in Candidates(r) : k <= i

(* The oldest first.                                                       *)
Turn(r, i) == \A k \in Candidates(r) : i <= k

(* The loop goes on, to no end, when the site has no backup any more.      *)
Pick(r) ==
    /\ rpc[r] = "pick" /\ left[r] > 0
    /\ \/ \E i \in Candidates(r) :
            Turn(r, i) /\ old' = [old EXCEPT ![r] = rows[i]] /\ RunGoto(r, "drop") /\ UNCHANGED left
       \/ Candidates(r) = {} /\ left' = [left EXCEPT ![r] = @ - 1] /\ UNCHANGED <<rpc, old>>
    /\ UNCHANGED <<kind, items, task, backups, todo, at, mine, user, revived, strays>>

Cleaned(r) ==
    /\ rpc[r] = "pick" /\ left[r] = 0
    /\ RunGoto(r, AfterDrop(r))
    /\ UNCHANGED <<kind, items, task, backups, progress, user, revived, strays>>

(* The archive goes before its row, so that a failure loses track of none. *)
RemoveFile(r) ==
    /\ rpc[r] = "drop"
    /\ disk' = disk \ {old[r]}
    /\ RunGoto(r, "forget")
    /\ UNCHANGED <<kind, items, task, made, site, rows, progress, user, revived, strays>>

RemoveFails(r) ==
    /\ rpc[r] = "drop" /\ old[r] \in disk /\ MayUpset
    /\ strays' = strays \cup {old[r]}
    /\ Leave(r)
    /\ UNCHANGED <<kind, items, task, backups, user, revived>>

ForgetRow(r) ==
    /\ rpc[r] = "forget"
    /\ DeleteRow(old[r])
    /\ left' = [left EXCEPT ![r] = @ - 1]
    /\ old'  = [old EXCEPT ![r] = 0]
    /\ RunGoto(r, "pick")
    /\ UNCHANGED <<kind, items, task, made, site, disk, todo, at, mine, user, revived, strays>>

(* del_backup_site: the user deletes a backup of a site, the archive first.*)
UserPick(a) ==
    /\ kind = "site" /\ MayUpset /\ userAt = "idle" /\ Contains(rows, a)
    /\ userAt' = "file" /\ userOld' = a /\ deletes' = deletes + 1
    /\ UNCHANGED <<kind, items, task, backups, rpc, progress, revived, strays>>

UserRemove ==
    /\ userAt = "file"
    /\ userAt' = "row"
    /\ disk' = disk \ {userOld}
    /\ UNCHANGED <<kind, items, task, made, site, rows, rpc, progress, userOld, deletes, revived, strays>>

(* Leaves the row, whose archive is gone, in the list.                     *)
UserForget_KeepsRow ==
    /\ userAt = "row"
    /\ userAt' = "idle" /\ userOld' = 0
    /\ UNCHANGED <<kind, items, task, backups, rpc, progress, deletes, revived, strays>>

UserForget ==
    /\ userAt = "row"
    /\ userAt' = "idle" /\ userOld' = 0
    /\ DeleteRow(userOld)
    /\ UNCHANGED <<kind, items, task, made, site, disk, rpc, progress, deletes, revived, strays>>

TaskDeleted ==
    /\ task /\ task' = FALSE
    /\ UNCHANGED <<kind, items, backups, rpc, progress, user, revived, strays>>

(* The process dies with the archive or the row it was busy with.          *)
BakCrash ==
    /\ MayUpset
    /\ strays' = strays \cup {mine[r] : r \in {q \in Runs : rpc[q] \notin {"idle", "next", "pack"}}}
                        \cup {old[r] : r \in {q \in Runs : rpc[q] = "forget"}}
                        \cup (IF userAt = "row" THEN {userOld} ELSE {})
    /\ rpc'  = [r \in Runs |-> "idle"]
    /\ todo' = [r \in Runs |-> {}]
    /\ at'   = [r \in Runs |-> NoSite]
    /\ mine' = [r \in Runs |-> 0]
    /\ left' = [r \in Runs |-> 0]
    /\ old'  = [r \in Runs |-> 0]
    /\ userAt' = "idle" /\ userOld' = 0
    /\ UNCHANGED <<kind, items, task, backups, deletes, revived>>

RunStep(r) ==
    \/ Start(r) \/ (\E s \in Sites : TakeSite(r, s)) \/ End(r)
    \/ Pack(r) \/ Skip(r) \/ PackFails(r) \/ AddRow(r) \/ Link(r) \/ Save(r)
    \/ Count(r) \/ Pick(r) \/ Cleaned(r) \/ RemoveFile(r) \/ RemoveFails(r) \/ ForgetRow(r)

BakNext ==
    \/ \E r \in Runs : RunStep(r)
    \/ \E a \in Archives : UserPick(a)
    \/ UserRemove \/ UserForget \/ TaskDeleted \/ BakCrash

BakSpec == BakInit /\ [][BakNext]_bakVars
-----------------------------------------------------------------------------
Listed == ToSet(rows)

(* Every variable has its type.                                           *)
BakTypeOK ==
    /\ kind \in {"site", "dir"} /\ items \subseteq Sites /\ task \in BOOLEAN
    /\ made \in 0..MaxArchives /\ site \in [Archives -> Sites \cup {NoSite}]
    /\ disk \subseteq Archives /\ rows \in Seq(Archives)
    /\ rpc \in [Runs -> RunSteps] /\ todo \in [Runs -> SUBSET Sites] /\ at \in [Runs -> Sites \cup {NoSite}]
    /\ mine \in [Runs -> 0..MaxArchives] /\ left \in [Runs -> 0..MaxArchives]
    /\ old \in [Runs -> 0..MaxArchives]
    /\ userAt \in {"idle", "file", "row"} /\ userOld \in 0..MaxArchives
    /\ deletes \in 0..MaxUpsets
    /\ revived \subseteq Archives /\ strays \subseteq 0..MaxArchives

(* Rows and archives agree.  An archive on disk is listed, or its row is   *)
(* about to be created; a listed backup has its archive, or its deletion   *)
(* is under way.  The exceptions are what a failed or killed step left and *)
(* the rows that the late save of a run inserted again.                    *)
RowsMatchArchives ==
    /\ \A a \in disk : a \in Listed \cup strays
                       \/ (\E r \in Runs : rpc[r] = "row" /\ mine[r] = a)
    /\ \A a \in Listed : a \in disk \cup revived \cup strays
                         \/ (\E r \in Runs : rpc[r] = "forget" /\ old[r] = a)
                         \/ (userAt = "row" /\ userOld = a)

(* The clean-up never removes an archive while an older one of the same    *)
(* site is kept, even when two runs clean up at once.                      *)
DropsOldest ==
    [][\A r \in Runs : RemoveFile(r) /\ old[r] \in disk =>
         \A i \in 1..Len(rows), k \in 1..Len(rows) :
            rows[i] = old[r] /\ k < i /\ site[rows[k]] = site[old[r]]
                => rows[k] \notin disk]_bakVars

(* saveNums is the number of copies to keep: with at least one asked for,  *)
(* a site that the task has backed up has an archive once no run is busy,  *)
(* unless the user deleted one or a step failed.  The surplus is counted   *)
(* over all sites, so the run drops the backup it has just made.           *)
SiteKeepsOne ==
    SaveNums > 0 /\ strays = {} /\ deletes = 0 /\ (\A r \in Runs : rpc[r] = "idle")
        => \A a \in 1..made : \E b \in disk : site[b] = site[a]
=============================================================================
