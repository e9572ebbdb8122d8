----------------------------- MODULE BackupEngine -----------------------------
(***************************************************************************)
(* Panel backup and restore (apps/sysbak): the requests that create,       *)
(* restore, cancel, delete and upload a backup, the thread pool that runs  *)
(* the jobs, and BackupOrchestrateManager, which holds a flock on          *)
(* data/backup.lock while it works and unlinks the file when it is done.   *)
(*                                                                         *)
(* What a backup contains and how an item of it is restored is left out:   *)
(* the failure of an item is logged and counted, it never ends the job.    *)
(* The lock is the one of Linux.                                           *)
(***************************************************************************)
EXTENDS Naturals, FiniteSets, Sequences

CONSTANTS
    NumRows,    \* rows the table may receive; their ids follow the inserts
    Workers,    \* threads of the pool, two in the code
    Callers,   \* request threads served concurrently
    MaxQueue,   \* bound: jobs the pool holds back
    CanDie    \* may the panel process die?

ASSUME BackupAssumption ==
    /\ NumRows \in Nat \ {0}
    /\ IsFiniteSet(Workers)
    /\ MaxQueue \in Nat \ {0}
    /\ CanDie \in BOOLEAN

Rows   == 1..NumRows
Kinds  == {"backup", "restore"}
Inodes == 1..Cardinality(Workers)

VARIABLES
    bs,       \* bs[b]: backup_status: none, waiting 0, running 1, done 2, failed 3, deleted
    rs,       \* rs[b]: restore_status: no 0, running 1, done 2, failed 3
    file,     \* file[b]: the archive file_path names, 0 if none; kept after deletion
    disk,     \* the archives on disk
    queue,    \* the pool's queue of <<kind, row>>
    pc,       \* pc[w]: next step of worker w
    kind,     \* kind[w]: run_backup or run_restore
    row,      \* row[w]: its backup_id
    path,     \* inode of data/backup.lock, 0 if there is no such file
    handle,   \* handle[w]: inode w has open, 0 if none
    locked,   \* workers whose handle holds the flock
    cpc,      \* rpc[r]: next step of request r
    rrow,     \* rrow[r]: the row request r works on
    rpre,     \* rpre[r]: the row of the backup before a restore
    lost      \* history: rows in work, or in deletion, when the process died

engRows    == <<bs, rs, file, disk>>
jobVars == <<pc, kind, row>>
lock    == <<path, handle, locked>>
callVars == <<cpc, rrow, rpre>>
engVars    == <<engRows, queue, jobVars, lock, callVars, lost>>

BackupStatus  == {"waiting", "running", "done", "failed"}
RestoreStatus == {"no", "running", "done", "failed"}
WorkSteps == {"idle", "open", "flock", "refuse", "mark", "work", "packed", "apply",
              "close", "unlink"}
CallSteps == {"idle", "insert", "submit", "count", "preinsert", "presubmit",
              "restore", "remove", "delrow", "cancel"}

HasRow(b) == bs[b] \in BackupStatus

EngInit ==
    /\ bs = [b \in Rows |-> "none"]
    /\ rs = [b \in Rows |-> "no"]
    /\ file = [b \in Rows |-> 0]
    /\ disk = {}
    /\ queue = <<>>
    /\ pc   = [w \in Workers |-> "idle"]
    /\ kind = [w \in Workers |-> "backup"]
    /\ row  = [w \in Workers |-> 0]
    /\ path = 0
    /\ handle = [w \in Workers |-> 0]
    /\ locked = {}
    /\ cpc  = [r \in Callers |-> "idle"]
    /\ rrow = [r \in Callers |-> 0]
    /\ rpre = [r \in Callers |-> 0]
    /\ lost = {}

----------------------------------------------------------------------------
(* Every status is written by filter(id=...).update(...), which does        *)
(* nothing to a row that is gone.                                           *)

SetBackup(b, s) == bs' = [bs EXCEPT ![b] = IF HasRow(b) THEN s ELSE @]

SetRestore(b, s) == rs' = [rs EXCEPT ![b] = IF HasRow(b) THEN s ELSE @]

\* The next row of the table is inserted with status s.
Insert(b, s) ==
    /\ bs[b] = "none"
    /\ \A a \in Rows : a < b => bs[a] # "none"
    /\ bs' = [bs EXCEPT ![b] = s]

----------------------------------------------------------------------------
(* The requests.                                                           *)

Goto(r, s) == cpc' = [cpc EXCEPT ![r] = s]

\* Request r, which was idle, goes on with row b.
Accept(r, s, b) ==
    /\ cpc[r] = "idle"
    /\ Goto(r, s)
    /\ rrow' = [rrow EXCEPT ![r] = b]
    /\ UNCHANGED <<engRows, queue, jobVars, lock, rpre, lost>>

Step(r, from, to) == cpc[r] = from /\ Goto(r, to)

Answer(r, from) ==
    /\ cpc[r] = from
    /\ cpc'  = [cpc  EXCEPT ![r] = "idle"]
    /\ rrow' = [rrow EXCEPT ![r] = 0]
    /\ rpre' = [rpre EXCEPT ![r] = 0]

\* _create_backup: nothing may be running ...
CreateCount(r) == (\A b \in Rows : bs[b] # "running") /\ Accept(r, "insert", 0)

\* ... the row is inserted and its job submitted.
CreateInsert(r) ==
    /\ Step(r, "insert", "submit")
    /\ \E b \in Rows : Insert(b, "waiting") /\ rrow' = [rrow EXCEPT ![r] = b]
    /\ UNCHANGED <<rs, file, disk, queue, jobVars, lock, rpre, lost>>

Enqueue(job) == Len(queue) < MaxQueue /\ queue' = Append(queue, job)

CreateSubmit(r) ==
    /\ Enqueue(<<"backup", rrow[r]>>)
    /\ Answer(r, "submit")
    /\ UNCHANGED <<engRows, jobVars, lock, lost>>

\* _restore_backup: the backup is complete and its archive is there ...
RestoreLoad(r) ==
    \E b \in Rows : bs[b] = "done" /\ file[b] \in disk /\ Accept(r, "count", b)

\* ... no restore is running ...
RestoreCount(r) ==
    /\ \/ /\ \E b \in Rows : rs[b] = "running"
          /\ Answer(r, "count")
       \/ /\ \A b \in Rows : rs[b] # "running"
          /\ Step(r, "count", "preinsert")
          /\ UNCHANGED <<rrow, rpre>>
    /\ UNCHANGED <<engRows, queue, jobVars, lock, lost>>

\* ... and the present state is backed up first.
PreInsert(r) ==
    /\ Step(r, "preinsert", "presubmit")
    /\ \E b \in Rows : Insert(b, "waiting") /\ rpre' = [rpre EXCEPT ![r] = b]
    /\ UNCHANGED <<rs, file, disk, queue, jobVars, lock, rrow, lost>>

\* An exception on the way to the insert is swallowed.
PreFails(r) ==
    /\ Step(r, "preinsert", "restore")
    /\ UNCHANGED <<engRows, queue, jobVars, lock, rrow, rpre, lost>>

PreSubmit(r) ==
    /\ Enqueue(<<"backup", rpre[r]>>)
    /\ Step(r, "presubmit", "restore")
    /\ UNCHANGED <<engRows, jobVars, lock, rrow, rpre, lost>>

\* The restore is submitted without waiting for that backup.
RestoreSubmit(r) ==
    /\ Enqueue(<<"restore", rrow[r]>>)
    /\ Answer(r, "restore")
    /\ UNCHANGED <<engRows, jobVars, lock, lost>>

\* _delete_backup: a running backup is refused; the archive is removed if
\* the row, as it was read here, names one.
DeleteLoad(r) ==
    \E b \in Rows :
        /\ HasRow(b) /\ bs[b] # "running"
        /\ Accept(r, IF file[b] # 0 THEN "remove" ELSE "delrow", b)

RemoveFile(r) ==
    /\ Step(r, "remove", "delrow")
    /\ disk' = disk \ {file[rrow[r]]}
    /\ UNCHANGED <<bs, rs, file, queue, jobVars, lock, rrow, rpre, lost>>

RemoveRow(r) ==
    /\ Answer(r, "delrow")
    /\ bs' = [bs EXCEPT ![rrow[r]] = "deleted"]
    /\ rs' = [rs EXCEPT ![rrow[r]] = "no"]
    /\ UNCHANGED <<file, disk, queue, jobVars, lock, lost>>

\* _cancel_backup: only marks a running backup as failed.
CancelFind(r) == \E b \in Rows : bs[b] = "running" /\ Accept(r, "cancel", b)

CancelMark(r) ==
    /\ Answer(r, "cancel")
    /\ SetBackup(rrow[r], "failed")
    /\ UNCHANGED <<rs, file, disk, queue, jobVars, lock, lost>>

\* _upload_backup: the file is written under the name it was sent with, which
\* may be the name of an archive the table knows; then the row is inserted.
Upload(r) ==
    /\ cpc[r] = "idle"
    /\ \E b \in Rows : \E f \in {b} \cup ({file[a] : a \in Rows} \ {0}) :
          /\ Insert(b, "done")
          /\ file' = [file EXCEPT ![b] = f]
          /\ disk' = disk \cup {f}
    /\ UNCHANGED <<rs, queue, jobVars, lock, callVars, lost>>

NewCall(r) ==
    CreateCount(r) \/ RestoreLoad(r) \/ DeleteLoad(r) \/ CancelFind(r) \/ Upload(r)

Continue(r) ==
    \/ CreateInsert(r) \/ CreateSubmit(r)
    \/ RestoreCount(r) \/ PreInsert(r) \/ PreFails(r) \/ PreSubmit(r) \/ RestoreSubmit(r)
    \/ RemoveFile(r) \/ RemoveRow(r) \/ CancelMark(r)

----------------------------------------------------------------------------
(* The pool and BackupOrchestrateManager.                                  *)

JobStep(w, from, to) == pc[w] = from /\ pc' = [pc EXCEPT ![w] = to]

\* A free thread takes the oldest job; its row is gone, or it is loaded.
Take(w) ==
    /\ queue # <<>>
    /\ queue' = Tail(queue)
    /\ LET b == Head(queue)[2]
       IN  \/ /\ ~HasRow(b)
              /\ JobStep(w, "idle", "idle")
              /\ UNCHANGED <<kind, row>>
           \/ /\ HasRow(b)
              /\ JobStep(w, "idle", "open")
              /\ kind' = [kind EXCEPT ![w] = Head(queue)[1]]
              /\ row'  = [row EXCEPT ![w] = b]
    /\ UNCHANGED <<engRows, lock, callVars, lost>>

InUse == {handle[w] : w \in Workers}

\* acquire_lock: open(path, 'w') opens the file, or creates it ...
Open(w) ==
    /\ JobStep(w, "open", "flock")
    /\ \/ path # 0 /\ UNCHANGED path
       \/ /\ path = 0
          /\ path' \in Inodes \ InUse
          /\ \A n \in Inodes \ InUse : path' <= n
    /\ handle' = [handle EXCEPT ![w] = path']
    /\ UNCHANGED <<engRows, queue, kind, row, locked, callVars, lost>>

\* ... and flock(LOCK_EX | LOCK_NB) locks the inode, or fails.
Busy(w) == \E v \in locked : handle[v] = handle[w]

Flock(w) ==
    /\ \/ ~Busy(w) /\ JobStep(w, "flock", "mark") /\ locked' = locked \cup {w}
       \/ Busy(w) /\ JobStep(w, "flock", "refuse") /\ UNCHANGED locked
    /\ UNCHANGED <<engRows, queue, kind, row, path, handle, callVars, lost>>

\* The status that worker w reports for its job.
ReportStatus(w, s) ==
    \/ kind[w] = "backup" /\ SetBackup(row[w], s) /\ UNCHANGED rs
    \/ kind[w] = "restore" /\ SetRestore(row[w], s) /\ UNCHANGED bs

Leave(w) ==
    /\ kind' = [kind EXCEPT ![w] = "backup"]
    /\ row'  = [row EXCEPT ![w] = 0]

\* Mutant: a job that does not get the lock ends without a word.
Refuse_Silently(w) ==
    /\ JobStep(w, "refuse", "idle")
    /\ Leave(w)
    /\ handle' = [handle EXCEPT ![w] = 0]
    /\ UNCHANGED <<engRows, queue, path, locked, callVars, lost>>

\* "Another backup or restore is running": the job is given up.
Refuse(w) ==
    /\ JobStep(w, "refuse", "idle")
    /\ ReportStatus(w, "failed")
    /\ Leave(w)
    /\ handle' = [handle EXCEPT ![w] = 0]
    /\ UNCHANGED <<file, disk, queue, path, locked, callVars, lost>>

Mark(w) ==
    /\ JobStep(w, "mark", "work")
    /\ ReportStatus(w, "running")
    /\ UNCHANGED <<file, disk, queue, kind, row, lock, callVars, lost>>

\* The archive is complete ...
Pack(w) ==
    /\ kind[w] = "backup"
    /\ JobStep(w, "work", "packed")
    /\ disk' = disk \cup {row[w]}
    /\ UNCHANGED <<bs, rs, file, queue, kind, row, lock, callVars, lost>>

\* ... and the row names it.
Done(w) ==
    /\ JobStep(w, "packed", "close")
    /\ SetBackup(row[w], "done")
    /\ file' = [file EXCEPT ![row[w]] = IF HasRow(row[w]) THEN row[w] ELSE @]
    /\ UNCHANGED <<rs, disk, queue, kind, row, lock, callVars, lost>>

\* The archive is there, and is unpacked ...
Extract(w) ==
    /\ kind[w] = "restore"
    /\ file[row[w]] \in disk
    /\ JobStep(w, "work", "apply")
    /\ UNCHANGED <<engRows, queue, kind, row, lock, callVars, lost>>

\* ... and all of it restored.
Applied(w) ==
    /\ JobStep(w, "apply", "close")
    /\ SetRestore(row[w], "done")
    /\ UNCHANGED <<bs, file, disk, queue, kind, row, lock, callVars, lost>>

Starting == {"open", "flock", "refuse", "mark"}
Working  == {"mark", "work", "packed", "apply"}

Works(w, k, b) == pc[w] \in Working /\ kind[w] = k /\ row[w] = b

\* Mutant: the handler of an exception forgets the status.
Raise_StatusKept(w) ==
    /\ pc[w] \in Working
    /\ pc' = [pc EXCEPT ![w] = "close"]
    /\ UNCHANGED <<engRows, queue, kind, row, lock, callVars, lost>>

\* Mutant: the handler is missing and the job goes on to its last update.
Raise_Done(w) ==
    /\ pc[w] \in Working
    /\ pc' = [pc EXCEPT ![w] = "close"]
    /\ ReportStatus(w, "done")
    /\ UNCHANGED <<file, disk, queue, kind, row, lock, callVars, lost>>

\* An exception: no space, a missing archive, a row deleted meanwhile ...
Raise(w) ==
    /\ pc[w] \in Working
    /\ pc' = [pc EXCEPT ![w] = "close"]
    /\ ReportStatus(w, "failed")
    /\ UNCHANGED <<file, disk, queue, kind, row, lock, callVars, lost>>

\* Mutant: the thread keeps the lock when it closes the file.
Close_KeepsLock(w) ==
    /\ JobStep(w, "close", "unlink")
    /\ handle' = [handle EXCEPT ![w] = 0]
    /\ UNCHANGED <<engRows, queue, kind, row, path, locked, callVars, lost>>

\* release_lock: the file is closed, which gives up the flock ...
Close(w) ==
    /\ JobStep(w, "close", "unlink")
    /\ handle' = [handle EXCEPT ![w] = 0]
    /\ locked' = locked \ {w}
    /\ UNCHANGED <<engRows, queue, kind, row, path, callVars, lost>>

\* ... and whatever file is at the path by now is removed.
Unlink(w) ==
    /\ JobStep(w, "unlink", "idle")
    /\ path' = 0
    /\ Leave(w)
    /\ UNCHANGED <<engRows, queue, handle, locked, callVars, lost>>

Worker(w) ==
    \/ Take(w) \/ Open(w) \/ Flock(w) \/ Refuse(w) \/ Mark(w) \/ Pack(w) \/ Done(w)
    \/ Extract(w) \/ Applied(w) \/ Raise(w) \/ Close(w) \/ Unlink(w)

----------------------------------------------------------------------------
Unfinished(b) == bs[b] \in {"waiting", "running"} \/ rs[b] = "running"

\* The process dies: the kernel drops the flocks; rows, archives and the lock
\* file stay as they are, and nothing looks at them at start-up.
EngCrash ==
    /\ CanDie
    /\ lost' = lost \cup {b \in Rows : Unfinished(b)}
                    \cup {rrow[r] : r \in {q \in Callers : cpc[q] = "delrow"}}
    /\ queue' = <<>>
    /\ pc'   = [w \in Workers |-> "idle"]
    /\ kind' = [w \in Workers |-> "backup"]
    /\ row'  = [w \in Workers |-> 0]
    /\ handle' = [w \in Workers |-> 0]
    /\ locked' = {}
    /\ cpc'  = [r \in Callers |-> "idle"]
    /\ rrow' = [r \in Callers |-> 0]
    /\ rpre' = [r \in Callers |-> 0]
    /\ UNCHANGED <<engRows, path>>

EngNext ==
    \/ \E r \in Callers : NewCall(r) \/ Continue(r)
    \/ \E w \in Workers : Worker(w)
    \/ EngCrash

EngSpec == EngInit /\ [][EngNext]_engVars

----------------------------------------------------------------------------
(* Properties.                                                             *)

\* Every variable has its type; a thread that has the flock has the file open.
EngTypeOK ==
    /\ bs \in [Rows -> BackupStatus \cup {"none", "deleted"}]
    /\ rs \in [Rows -> RestoreStatus]
    /\ file \in [Rows -> 0..NumRows]
    /\ disk \subseteq Rows /\ lost \subseteq Rows
    /\ queue \in Seq(Kinds \X Rows)
    /\ pc   \in [Workers -> WorkSteps]
    /\ kind \in [Workers -> Kinds]
    /\ row  \in [Workers -> 0..NumRows]
    /\ path \in 0..Cardinality(Workers)
    /\ handle \in [Workers -> 0..Cardinality(Workers)]
    /\ locked \subseteq {w \in Workers : handle[w] # 0}
    /\ cpc  \in [Callers -> CallSteps]
    /\ rrow \in [Callers -> 0..NumRows]
    /\ rpre \in [Callers -> 0..NumRows]

\* A backup reported complete names an archive that is on disk, through every
\* interleaving of jobs, cancellations and deletions.  Excepted are a deletion
\* that has removed the file and not yet the row, or died in between, and rows
\* that share a name: deleting one removes the archive of both.
DoneHasArchive ==
    \A b \in Rows : bs[b] = "done" =>
        /\ file[b] # 0
        /\ \/ file[b] \in disk
           \/ b \in lost
           \/ \E r \in Callers : cpc[r] = "delrow" /\ rrow[r] = b
           \/ \E a \in Rows \ {b} : file[a] = file[b]

\* A row that says a backup or a restore is running, which keeps every further
\* one from being accepted, is one a thread of the pool works on, unless the
\* process died in the meantime.
RunningIsOwned ==
    \A b \in Rows \ lost :
        /\ bs[b] = "running" => \E w \in Workers : Works(w, "backup", b)
        /\ rs[b] = "running" => \E w \in Workers : Works(w, "restore", b)

\* A backup that waits is never forgotten: the request that inserted it is about
\* to submit it, or the pool has it queued, or a thread is about to start it, and
\* a thread that does not get the lock reports that; only a crash loses it.
WaitingIsOwned ==
    \A b \in Rows \ lost : bs[b] = "waiting" =>
        \/ \E r \in Callers : \/ cpc[r] = "submit" /\ rrow[r] = b
                              \/ cpc[r] = "presubmit" /\ rpre[r] = b
        \/ \E i \in 1..Len(queue) : queue[i] = <<"backup", b>>
        \/ \E w \in Workers : pc[w] \in Starting /\ kind[w] = "backup" /\ row[w] = b

=============================================================================
