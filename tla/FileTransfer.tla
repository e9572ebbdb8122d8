---------------------------- MODULE FileTransfer ----------------------------
(***************************************************************************)
(* Node-to-node file transfer (apps/sysnode): the task and record rows of  *)
(* the database, the HTTP requests that create, start, cancel, retry and   *)
(* delete a task, the APScheduler job that runs TransferExecutor.execute,  *)
(* and the crash of the panel process.                                     *)
(*                                                                         *)
(* Every database statement of a request thread or of the executor thread  *)
(* is one step: the panel runs SQLite in autocommit mode, so other threads *)
(* interleave between any two of them.  How one file travels (routes,      *)
(* conflict policy, resume) is left open: it is one step, three outcomes.  *)
(***************************************************************************)
EXTENDS Naturals, FiniteSets

CONSTANTS
    Tasks,      \* identifiers the task table may hand out
    NumFiles,   \* records per task
    Requests,   \* request threads served concurrently
    Ops,        \* the operations the users may call
    CanCrash    \* may the panel process die?

AllOps == {"create", "batch", "start", "cancel", "retry", "destroy"}

ASSUME TransferAssumption ==
    /\ NumFiles \in Nat \ {0}
    /\ Ops \subseteq AllOps
    /\ CanCrash \in BOOLEAN

Files == 1..NumFiles

VARIABLES
    task,   \* task[t]: status column of the task row; "none" before the INSERT
    rec,    \* rec[t][f]: status column of the record row; "none" when absent
    jobs,   \* tasks whose job file_transfer_<id> is in the job store
    pc,     \* pc[t]: next step of the executor instance of t
    todo,   \* todo[t]: records of the queryset not yet visited
    cur,    \* cur[t]: the record being transferred
    mem,    \* mem[t]: status the executor holds in memory for its next save
    rpc,    \* rpc[r]: next step of request r
    rop,    \* rop[r]: "batch" when request r goes on to start its task
    rtask,  \* rtask[r]: the task request r works on
    rfile,  \* rfile[r]: the record request r inserts next
    late    \* late[t]: history: files begun since the last cancel of t; 2 stands
            \* for more of them, and for no cancel at all

reqVars  == <<rpc, rop, rtask, rfile>>
execVars == <<pc, todo, cur, mem>>
vars == <<task, rec, jobs, pc, todo, cur, mem, rpc, rop, rtask, rfile, late>>

TaskStatus == {"pending", "running", "complete", "failed", "cancelled"}
RecStatus  == {"pending", "transferring", "complete", "failed", "skipped"}
Outcomes   == {"complete", "failed", "skipped"}
Steps == {"idle", "begin", "fetch", "loop", "mark", "copy", "save",
          "refresh", "decide", "final", "giveup", "done"}
ReqSteps == {"idle", "insert", "records", "startsave", "schedule", "cancelsave",
             "cancelrecs", "retrysave", "retryrecs", "killsave", "killrecs",
             "delrecs", "deltask"}

Exists(t) == task[t] \in TaskStatus

Init ==
    /\ task = [t \in Tasks |-> "none"]
    /\ rec  = [t \in Tasks |-> [f \in Files |-> "none"]]
    /\ jobs = {}
    /\ pc   = [t \in Tasks |-> "idle"]
    /\ todo = [t \in Tasks |-> {}]
    /\ cur  = [t \in Tasks |-> 0]
    /\ mem  = [t \in Tasks |-> "none"]
    /\ rpc   = [r \in Requests |-> "idle"]
    /\ rop   = [r \in Requests |-> "none"]
    /\ rtask = [r \in Requests |-> "none"]
    /\ rfile = [r \in Requests |-> 0]
    /\ late = [t \in Tasks |-> 2]

-----------------------------------------------------------------------------
(* Writes shared by the handlers.  A save(update_fields=...) of a row that *)
(* is gone raises DatabaseError and never re-inserts it.                   *)

\* Mutant: a plain save() would insert the row again.
SaveStatus_Upsert(t, s) == task' = [task EXCEPT ![t] = s]

SaveStatus(t, s) == task' = [task EXCEPT ![t] = IF Exists(t) THEN s ELSE @]

Goto(r, s) == /\ rpc' = [rpc EXCEPT ![r] = s]
              /\ UNCHANGED <<rop, rtask, rfile>>

Finish(r) == /\ rpc'   = [rpc   EXCEPT ![r] = "idle"]
             /\ rop'   = [rop   EXCEPT ![r] = "none"]
             /\ rtask' = [rtask EXCEPT ![r] = "none"]
             /\ rfile' = [rfile EXCEPT ![r] = 0]

\* The request's next step, or its end with an error when the row is gone.
GotoIfSaved(r, s) == IF Exists(rtask[r]) THEN Goto(r, s) ELSE Finish(r)

UpdateRecords(t, from, to) ==
    rec' = [rec EXCEPT ![t] = [f \in Files |-> IF @[f] \in from THEN to ELSE @[f]]]

At(r, s) == rpc[r] = s

-----------------------------------------------------------------------------
(* create and batch_transfer *)

Active == \E t \in Tasks : task[t] \in {"pending", "running"}

CreateCheck(r) ==
    /\ At(r, "idle")
    /\ ~Active
    /\ \E op \in Ops \cap {"create", "batch"} : rop' = [rop EXCEPT ![r] = op]
    /\ rpc' = [rpc EXCEPT ![r] = "insert"]
    /\ UNCHANGED <<task, rec, jobs, execVars, rtask, rfile, late>>

InsertTask(r) ==
    /\ At(r, "insert")
    /\ \E t \in Tasks :
          /\ task[t] = "none"
          /\ task' = [task EXCEPT ![t] = "pending"]
          /\ rtask' = [rtask EXCEPT ![r] = t]
    /\ rfile' = [rfile EXCEPT ![r] = 1]
    /\ rpc' = [rpc EXCEPT ![r] = "records"]
    /\ UNCHANGED <<rec, jobs, execVars, rop, late>>

\* Mutant: one record too many.
InsertRecord_OneTooMany(r) ==
    LET t == rtask[r]
        f == rfile[r]
    IN  /\ At(r, "records")
        /\ rec' = [rec EXCEPT ![t][f] = "pending"]
        /\ \/ /\ f <= NumFiles
              /\ rfile' = [rfile EXCEPT ![r] = f + 1]
              /\ UNCHANGED <<rpc, rop, rtask>>
           \/ /\ f > NumFiles
              /\ IF rop[r] = "batch" THEN Goto(r, "startsave") ELSE Finish(r)
        /\ UNCHANGED <<task, jobs, execVars, late>>

\* The rows are inserted one by one; the foreign key is not enforced
\* (db_constraint=False), so the insert succeeds even if the task is gone.
InsertRecord(r) ==
    LET t == rtask[r]
        f == rfile[r]
    IN  /\ At(r, "records")
        /\ rec' = [rec EXCEPT ![t][f] = "pending"]
        /\ \/ /\ f < NumFiles
              /\ rfile' = [rfile EXCEPT ![r] = f + 1]
              /\ UNCHANGED <<rpc, rop, rtask>>
           \/ /\ f = NumFiles
              /\ IF rop[r] = "batch" THEN Goto(r, "startsave") ELSE Finish(r)
        /\ UNCHANGED <<task, jobs, execVars, late>>

-----------------------------------------------------------------------------
(* start_transfer, and the tail of batch_transfer *)

Call(r, op, t, s) ==
    /\ op \in Ops
    /\ At(r, "idle")
    /\ rpc'   = [rpc   EXCEPT ![r] = s]
    /\ rtask' = [rtask EXCEPT ![r] = t]
    /\ UNCHANGED <<task, rec, jobs, execVars, rop, rfile, late>>

StartRead(r) ==
    \E t \in Tasks : /\ Exists(t)
                     /\ task[t] # "running"
                     /\ Call(r, "start", t, "startsave")

StartSave(r) ==
    /\ At(r, "startsave")
    /\ SaveStatus(rtask[r], "running")
    /\ GotoIfSaved(r, "schedule")
    /\ UNCHANGED <<rec, jobs, execVars, late>>

\* installTask: add_job with replace_existing, so a stored job is kept single.
Schedule(r) ==
    /\ At(r, "schedule")
    /\ jobs' = jobs \cup {rtask[r]}
    /\ Finish(r)
    /\ UNCHANGED <<task, rec, execVars, late>>

\* Mutant: the status is not put back.
ScheduleFails_KeepsRunning(r) ==
    /\ At(r, "schedule")
    /\ Finish(r)
    /\ UNCHANGED <<task, rec, jobs, execVars, late>>

\* add_job raises: the task goes back to pending.
ScheduleFails(r) ==
    /\ At(r, "schedule")
    /\ SaveStatus(rtask[r], "pending")
    /\ Finish(r)
    /\ UNCHANGED <<rec, jobs, execVars, late>>

-----------------------------------------------------------------------------
(* cancel_transfer *)

CancelRead(r) ==
    \E t \in Tasks : /\ task[t] \in {"running", "pending"}
                     /\ Call(r, "cancel", t, "cancelsave")

MarkCancelled(r, next) ==
    /\ SaveStatus(rtask[r], "cancelled")
    /\ GotoIfSaved(r, next)
    /\ late' = [late EXCEPT ![rtask[r]] = 0]
    /\ UNCHANGED <<rec, jobs, execVars>>

CancelSave(r) == At(r, "cancelsave") /\ MarkCancelled(r, "cancelrecs")

CancelRecords(r) ==
    /\ At(r, "cancelrecs")
    /\ UpdateRecords(rtask[r], {"pending", "transferring"}, "skipped")
    /\ Finish(r)
    /\ UNCHANGED <<task, jobs, execVars, late>>

-----------------------------------------------------------------------------
(* retry_transfer *)

RetryRead(r) ==
    \E t \in Tasks : /\ task[t] \in {"failed", "cancelled"}
                     /\ Call(r, "retry", t, "retrysave")

RetrySave(r) ==
    /\ At(r, "retrysave")
    /\ SaveStatus(rtask[r], "pending")
    /\ GotoIfSaved(r, "retryrecs")
    /\ UNCHANGED <<rec, jobs, execVars, late>>

RetryRecords(r) ==
    /\ At(r, "retryrecs")
    /\ UpdateRecords(rtask[r], RecStatus, "pending")
    /\ Finish(r)
    /\ UNCHANGED <<task, jobs, execVars, late>>

-----------------------------------------------------------------------------
(* destroy *)

DestroyRead(r) ==
    \E t \in Tasks :
       /\ Exists(t)
       /\ Call(r, "destroy", t, IF task[t] = "running" THEN "killsave" ELSE "delrecs")

DestroyCancel(r) == At(r, "killsave") /\ MarkCancelled(r, "killrecs")

DestroySkip(r) ==
    /\ At(r, "killrecs")
    /\ UpdateRecords(rtask[r], {"pending", "transferring"}, "skipped")
    /\ Goto(r, "delrecs")
    /\ UNCHANGED <<task, jobs, execVars, late>>

DestroyRecords(r) ==
    /\ At(r, "delrecs")
    /\ UpdateRecords(rtask[r], RecStatus, "none")
    /\ Goto(r, "deltask")
    /\ UNCHANGED <<task, jobs, execVars, late>>

\* The model's delete() cascades to records inserted in the meantime.
DestroyTask(r) ==
    /\ At(r, "deltask")
    /\ task' = [task EXCEPT ![rtask[r]] = "deleted"]
    /\ UpdateRecords(rtask[r], RecStatus, "none")
    /\ Finish(r)
    /\ UNCHANGED <<jobs, execVars, late>>

-----------------------------------------------------------------------------
(* APScheduler: a date job leaves the store when it is handed to the pool, *)
(* and max_instances=1 drops it when an instance of the same job is still  *)
(* accounted for.                                                          *)

Submit(t) ==
    /\ t \in jobs
    /\ jobs' = jobs \ {t}
    /\ pc' = [pc EXCEPT ![t] = IF @ = "idle" THEN "begin" ELSE @]
    /\ UNCHANGED <<task, rec, todo, cur, mem, reqVars, late>>

\* The pool's done-callback gives the instance back after the job returned.
Release(t) ==
    /\ pc[t] = "done"
    /\ pc' = [pc EXCEPT ![t] = "idle"]
    /\ UNCHANGED <<task, rec, jobs, todo, cur, mem, reqVars, late>>

-----------------------------------------------------------------------------
(* TransferExecutor.execute *)

Step(t, from, to) == pc[t] = from /\ pc' = [pc EXCEPT ![t] = to]

\* __init__ and the first save: status becomes running whatever it was.
Begin(t) ==
    /\ Step(t, "begin", IF Exists(t) THEN "fetch" ELSE "done")
    /\ SaveStatus(t, "running")
    /\ UNCHANGED <<rec, jobs, todo, cur, mem, reqVars, late>>

Fetch(t) ==
    /\ Step(t, "fetch", "loop")
    /\ todo' = [todo EXCEPT ![t] = {f \in Files : rec[t][f] = "pending"}]
    /\ UNCHANGED <<task, rec, jobs, cur, mem, reqVars, late>>

\* Mutant: the loop does not look at the task's status.
NextRecord_NoCancelCheck(t) ==
    \E f \in todo[t] :
       /\ \A g \in todo[t] : f <= g
       /\ Step(t, "loop", IF ~Exists(t) THEN "done" ELSE "mark")
       /\ cur'  = [cur  EXCEPT ![t] = f]
       /\ todo' = [todo EXCEPT ![t] = @ \ {f}]
       /\ UNCHANGED <<task, rec, jobs, mem, reqVars, late>>

\* Head of the loop: refresh_from_db, leave if cancelled, else take the next
\* record.  A deleted task raises DoesNotExist, and so does the handler's save.
NextRecord(t) ==
    \E f \in todo[t] :
       /\ \A g \in todo[t] : f <= g
       /\ Step(t, "loop", IF ~Exists(t) THEN "done"
                          ELSE IF task[t] = "cancelled" THEN "refresh"
                          ELSE "mark")
       /\ cur'  = [cur  EXCEPT ![t] = f]
       /\ todo' = [todo EXCEPT ![t] = @ \ {f}]
       /\ UNCHANGED <<task, rec, jobs, mem, reqVars, late>>

LoopEnds(t) ==
    /\ todo[t] = {}
    /\ Step(t, "loop", "refresh")
    /\ UNCHANGED <<task, rec, jobs, todo, cur, mem, reqVars, late>>

\* record.status = "transferring"; a deleted record fails here and again in
\* its final save, which ends in the outer handler.
Mark(t) ==
    /\ LET gone == rec[t][cur[t]] = "none"
       IN  /\ Step(t, "mark", IF gone THEN "giveup" ELSE "copy")
           /\ rec' = [rec EXCEPT ![t][cur[t]] = IF gone THEN @ ELSE "transferring"]
    /\ late' = [late EXCEPT ![t] = IF @ < 2 THEN @ + 1 ELSE @]
    /\ UNCHANGED <<task, jobs, todo, cur, mem, reqVars>>

\* Mutant: a failed transfer goes on with the next file without a save.
Copy_FailureNotSaved(t) ==
    \E out \in Outcomes :
       /\ Step(t, "copy", IF out = "failed" THEN "loop" ELSE "save")
       /\ mem' = [mem EXCEPT ![t] = out]
       /\ UNCHANGED <<task, rec, jobs, todo, cur, reqVars, late>>

\* _check_conflict and _transfer_single_file; a skipped
\* record is saved at once and again by SaveRecord.
Copy(t) ==
    /\ Step(t, "copy", "save")
    /\ \E out \in Outcomes :
          /\ mem' = [mem EXCEPT ![t] = out]
          /\ rec' = [rec EXCEPT ![t][cur[t]] =
                       IF out = "skipped" /\ @ # "none" THEN out ELSE @]
    /\ UNCHANGED <<task, jobs, todo, cur, reqVars, late>>

SaveRecord(t) ==
    /\ LET gone == rec[t][cur[t]] = "none"
       IN  /\ Step(t, "save", IF gone THEN "giveup" ELSE "loop")
           /\ rec' = [rec EXCEPT ![t][cur[t]] = IF gone THEN @ ELSE mem[t]]
    /\ UNCHANGED <<task, jobs, todo, cur, mem, reqVars, late>>

\* After the loop: refresh_from_db ...
Refresh(t) ==
    /\ Step(t, "refresh", IF ~Exists(t) THEN "done"
                          ELSE IF task[t] = "cancelled" THEN "final"
                          ELSE "decide")
    /\ mem' = [mem EXCEPT ![t] = "cancelled"]
    /\ UNCHANGED <<task, rec, jobs, todo, cur, reqVars, late>>

\* Mutant: the outcome ignores the failed records.
Decide_NoFailedQuery(t) ==
    /\ Step(t, "decide", "final")
    /\ mem' = [mem EXCEPT ![t] = "complete"]
    /\ UNCHANGED <<task, rec, jobs, todo, cur, reqVars, late>>

\* ... then look for a failed record ...
Decide(t) ==
    /\ Step(t, "decide", "final")
    /\ mem' = [mem EXCEPT ![t] = IF \E f \in Files : rec[t][f] = "failed"
                                   THEN "failed" ELSE "complete"]
    /\ UNCHANGED <<task, rec, jobs, todo, cur, reqVars, late>>

\* ... then save the status held in memory, whatever the row says by now.
Final(t) ==
    /\ Step(t, "final", "done")
    /\ SaveStatus(t, mem[t])
    /\ UNCHANGED <<rec, jobs, todo, cur, mem, reqVars, late>>

\* The outer handler: status failed if the task row is still there.
GiveUp(t) ==
    /\ Step(t, "giveup", "done")
    /\ SaveStatus(t, "failed")
    /\ UNCHANGED <<rec, jobs, todo, cur, mem, reqVars, late>>

Exec(t) ==
    \/ Begin(t) \/ Fetch(t) \/ NextRecord(t) \/ LoopEnds(t) \/ Mark(t) \/ Copy(t)
    \/ SaveRecord(t) \/ Refresh(t) \/ Decide(t) \/ Final(t) \/ GiveUp(t) \/ Release(t)

ExceptCopy(t) == pc[t] # "copy" /\ Exec(t)

-----------------------------------------------------------------------------
\* The process dies and comes back: threads and their memory are lost, the
\* rows stay, and stored jobs older than misfire_grace_time are discarded.
Crash ==
    /\ CanCrash
    /\ pc'   = [t \in Tasks |-> "idle"]
    /\ todo' = [t \in Tasks |-> {}]
    /\ cur'  = [t \in Tasks |-> 0]
    /\ mem'  = [t \in Tasks |-> "none"]
    /\ rpc'   = [r \in Requests |-> "idle"]
    /\ rop'   = [r \in Requests |-> "none"]
    /\ rtask' = [r \in Requests |-> "none"]
    /\ rfile' = [r \in Requests |-> 0]
    /\ \E kept \in SUBSET jobs : jobs' = kept
    /\ UNCHANGED <<task, rec, late>>

NewCall(r) == CreateCheck(r) \/ StartRead(r) \/ CancelRead(r) \/ RetryRead(r) \/ DestroyRead(r)

\* A request that was accepted runs to its end.
Continue(r) ==
    \/ InsertTask(r) \/ InsertRecord(r) \/ StartSave(r) \/ Schedule(r) \/ ScheduleFails(r)
    \/ CancelSave(r) \/ CancelRecords(r) \/ RetrySave(r) \/ RetryRecords(r)
    \/ DestroyCancel(r) \/ DestroySkip(r) \/ DestroyRecords(r) \/ DestroyTask(r)

Next ==
    \/ \E r \in Requests : NewCall(r) \/ Continue(r)
    \/ \E t \in Tasks : Submit(t) \/ Exec(t)
    \/ Crash

Spec == Init /\ [][Next]_vars

\* Threads that were started keep running: the request threads of the server,
\* the scheduler's main loop and the pool's workers.  A copy need not end: the
\* SFTP channel has no timeout once it is open (ssh_client.py).
Fairness ==
    /\ \A r \in Requests : WF_vars(Continue(r))
    /\ \A t \in Tasks : WF_vars(Submit(t)) /\ WF_vars(ExceptCopy(t))

FairSpec == Spec /\ Fairness

-----------------------------------------------------------------------------
(* Properties *)

RowsOK ==
    /\ task \in [Tasks -> TaskStatus \cup {"none", "deleted"}]
    /\ rec  \in [Tasks -> [Files -> RecStatus \cup {"none"}]]
    /\ jobs \subseteq Tasks

ExecOK ==
    /\ pc   \in [Tasks -> Steps]
    /\ todo \in [Tasks -> SUBSET Files]
    /\ cur  \in [Tasks -> 0..NumFiles]
    /\ mem  \in [Tasks -> Outcomes \cup {"cancelled", "none"}]

RequestsOK ==
    /\ rpc   \in [Requests -> ReqSteps]
    /\ rop   \in [Requests -> {"create", "batch", "none"}]
    /\ rtask \in [Requests -> Tasks \cup {"none"}]
    /\ rfile \in [Requests -> 0..NumFiles]

\* The values every variable ranges over.
TypeOK == RowsOK /\ ExecOK /\ RequestsOK /\ late \in [Tasks -> 0..2]

\* What the executor holds in memory when it is about to save it.
MemOK == \A t \in Tasks :
    /\ pc[t] = "save"  => mem[t] \in Outcomes
    /\ pc[t] = "final" => mem[t] \in {"complete", "failed", "cancelled"}

\* A request that has found or inserted its task works on a task.
WorksOnTask == \A r \in Requests : rpc[r] \notin {"idle", "insert"} => rtask[r] \in Tasks

\* A task reported complete has no failed record, whatever cancels, retries,
\* restarts and crashes interleave with the executor (execute, the exists()
\* query before the final save; max_instances=1 keeps the run exclusive).
CompleteMeansNoFailure ==
    \A t \in Tasks : task[t] = "complete" => \A f \in Files : rec[t][f] # "failed"

\* Tasks are started by the request that makes them, and are not retried.
StartedByMaker == Ops \cap {"start", "retry"} = {}

\* A task that its maker has started and that is reported complete has handled
\* every record (the comment "all done" in execute): none is left pending or in
\* transfer.  The premise is needed: a start of its own may come between two
\* inserts, and a start or a retry may take a cancellation back after the
\* executor has left its loop for it.
CompleteMeansAllHandled ==
    StartedByMaker =>
        \A t \in Tasks : task[t] = "complete" =>
            \A f \in Files : rec[t][f] \in {"complete", "skipped", "none"}

\* As long as the row of a task says that it is cancelled, at most one file was
\* begun since the cancel: the one that had passed the check at the head of the
\* loop.  It says nothing of a cancel that a later save has overwritten, of a
\* start, a retry or the executor's first one (CancelIsKept): then all files
\* may be begun.
CancelStopsNewFiles == \A t \in Tasks : task[t] = "cancelled" => late[t] <= 1

\* Without crashes, a record shown as transferring is the one its live
\* executor is working on: no record is ever abandoned in that state.
TransferringIsOwned ==
    ~CanCrash => \A t \in Tasks, f \in Files :
        rec[t][f] = "transferring" => pc[t] \in {"copy", "save"} /\ cur[t] = f

\* A deleted task never comes back: the saves of a still running executor do
\* not re-create its row.
DeletedForever ==
    [][\A t \in Tasks : task[t] = "deleted" => task'[t] = "deleted"]_vars

\* The executor never takes back a cancellation ("cancelled: do not change the
\* status", execute).  The code does not keep it: a cancellation that comes
\* between the look at the row and the save of "running" is overwritten.
CancelIsKept ==
    [][\A t \in Tasks : task[t] = "cancelled" /\ Exec(t) => task'[t] = "cancelled"]_vars

\* A running task that its maker has started reaches another status, as long as
\* every copy of a file ends and the process lives.  With start_transfer it may
\* not: a start between the last save of the executor and its return saves
\* "running", and its job is dropped (max_instances).
RunningEnds ==
    StartedByMaker /\ ~CanCrash =>
        \A t \in Tasks :
            []<>(pc[t] # "copy") => (task[t] = "running" ~> task[t] # "running")

=============================================================================
