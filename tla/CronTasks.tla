----------------------------- MODULE CronTasks -----------------------------
(***************************************************************************)
(* The scheduled tasks of the panel.  A task lives twice: as a job in the  *)
(* job store of the scheduler (trigger, arguments, paused or not) and as a *)
(* row of CrontabTask (what the user sees, with its status).  The request  *)
(* handlers of crontab_task.py change the two one after the other, with no *)
(* transaction around them: both live in another database than the one     *)
(* @transaction.atomic opens.  Requests run in threads of their own, the   *)
(* scheduler fires one-time jobs (period_type 9) and drops them.           *)
(***************************************************************************)
EXTENDS Naturals, FiniteSets

CONSTANTS
    JobIds,        \* identifiers of jobs, make_uuid(): never used twice
    CronRequests   \* request threads

VARIABLES
    job,      \* job[j]: "none", "active" or "paused" in the job store
    once,     \* the jobs with a date trigger
    row,      \* row[j]: "none", or the status field of the row, "on" or "off"
    used,     \* the identifiers given out
    step,     \* step[q]: where the handler of request q stands
    target,   \* target[q]: the job request q is about
    status,   \* status[q]: the status request q loaded or was sent
    refused,  \* history: jobs whose row was refused when they were created
    stopped,  \* history: jobs paused by a request to stop them, not resumed since
    lost      \* history: jobs in the hands of a request when the process died
              \* or the job store failed it

cronVars == <<job, once, row, used, step, target, status, refused, stopped, lost>>
cronStores   == <<job, once, row>>
cronHistory  == <<used, refused, stopped, lost>>

Statuses  == {"on", "off"}
CronSteps == {"idle", "create", "update", "pause", "modify", "resume", "save",
              "destroy", "stop", "remove", "status", "keep"}

(* The jobs that a handler has begun to change and not finished with.      *)
InHand == {target[q] : q \in {p \in CronRequests : step[p] # "idle"}}

CronInit ==
    /\ job  = [j \in JobIds |-> "none"]
    /\ row  = [j \in JobIds |-> "none"]
    /\ once = {} /\ used = {} /\ refused = {} /\ stopped = {} /\ lost = {}
    /\ step   = [q \in CronRequests |-> "idle"]
    /\ target \in [CronRequests -> JobIds]
    /\ status = [q \in CronRequests |-> "on"]

CronGoto(q, s) == step' = [step EXCEPT ![q] = s]
CronFinish(q)  == CronGoto(q, "idle")

Pause(j)  == job' = [job EXCEPT ![j] = "paused"]
Resume(j) == /\ job' = [job EXCEPT ![j] = "active"]
             /\ stopped' = stopped \ {j}

(***************************************************************************)
(* create: the job is added first, then the row is validated and saved.    *)
(* Validation looks the job up again (job is a foreign key), so a date in  *)
(* the past, which fires at once and leaves the store, is refused as well. *)
(***************************************************************************)
CreateAdd(q, j, date) ==
    /\ step[q] = "idle" /\ j \notin used
    /\ used' = used \cup {j}
    /\ job'  = [job EXCEPT ![j] = "active"]
    /\ once' = IF date THEN once \cup {j} ELSE once
    /\ target' = [target EXCEPT ![q] = j]
    /\ CronGoto(q, "create")
    /\ UNCHANGED <<row, status, refused, stopped, lost>>

CreateSave(q) ==
    /\ step[q] = "create" /\ job[target[q]] # "none"
    /\ row' = [row EXCEPT ![target[q]] = "on"]
    /\ CronFinish(q)
    /\ UNCHANGED <<job, once, target, status, cronHistory>>

CreateRefused(q) ==
    /\ step[q] = "create"
    /\ refused' = refused \cup {target[q]}
    /\ CronFinish(q)
    /\ UNCHANGED <<cronStores, used, target, status, stopped, lost>>

(* get_object of update, destroy and status: the row is loaded whole.      *)
Load(q, j, handler) ==
    /\ step[q] = "idle" /\ row[j] # "none"
    /\ target' = [target EXCEPT ![q] = j]
    /\ status' = [status EXCEPT ![q] = row[j]]
    /\ CronGoto(q, handler)
    /\ UNCHANGED <<cronStores, cronHistory>>

(***************************************************************************)
(* update: get_job, then pause, modify and resume inside a try whose       *)
(* except resumes and raises again; then the row is validated and saved    *)
(* whole, which inserts it again if it was deleted in between.             *)
(***************************************************************************)
UpdateFind(q) ==
    /\ step[q] = "update"
    /\ IF job[target[q]] = "none" THEN CronFinish(q) ELSE CronGoto(q, "pause")
    /\ UNCHANGED <<cronStores, target, status, cronHistory>>

(* JobLookupError: resume_task of the except raises it a second time.      *)
UpdateGone(q) ==
    /\ step[q] \in {"pause", "modify", "resume"} /\ job[target[q]] = "none"
    /\ CronFinish(q)
    /\ UNCHANGED <<cronStores, target, status, cronHistory>>

UpdatePause(q) ==
    /\ step[q] = "pause" /\ job[target[q]] # "none"
    /\ Pause(target[q])
    /\ CronGoto(q, "modify")
    /\ UNCHANGED <<once, row, target, status, cronHistory>>

UpdateModify(q, date) ==
    /\ step[q] = "modify" /\ job[target[q]] # "none"
    /\ once' = IF date THEN once \cup {target[q]} ELSE once \ {target[q]}
    /\ CronGoto(q, "resume")
    /\ UNCHANGED <<job, row, target, status, cronHistory>>

(* Leaves the job paused when the new period is refused.                   *)
UpdateFails_Paused(q) ==
    /\ step[q] = "modify" /\ job[target[q]] # "none"
    /\ CronFinish(q)
    /\ UNCHANGED <<cronStores, target, status, cronHistory>>

(* A period that cannot be resolved, before anything is modified, or the   *)
(* job store, which is locked for the moment: the except resumes the job.  *)
UpdateFails(q) ==
    /\ step[q] \in {"pause", "modify", "resume"} /\ job[target[q]] # "none"
    /\ Resume(target[q])
    /\ CronFinish(q)
    /\ UNCHANGED <<once, row, target, status, used, refused, lost>>

(* The resume of the except fails as well: the job stays as it is.         *)
UpdateStuck(q) ==
    /\ step[q] \in {"pause", "modify", "resume"} /\ job[target[q]] # "none"
    /\ lost' = lost \cup {target[q]}
    /\ CronFinish(q)
    /\ UNCHANGED <<cronStores, target, status, used, refused, stopped>>

UpdateResume(q) ==
    /\ step[q] = "resume" /\ job[target[q]] # "none"
    /\ Resume(target[q])
    /\ CronGoto(q, "save")
    /\ UNCHANGED <<once, row, target, status, used, refused, lost>>

UpdateSave(q) ==
    /\ step[q] = "save"
    /\ row' = [row EXCEPT ![target[q]] = status[q]]
    /\ CronFinish(q)
    /\ UNCHANGED <<job, once, target, status, cronHistory>>

UpdateRefused(q) ==
    /\ step[q] = "save"
    /\ CronFinish(q)
    /\ UNCHANGED <<cronStores, target, status, cronHistory>>

(***************************************************************************)
(* destroy: the row goes first, then the job is paused and removed; a job  *)
(* that is not there raises, and every exception is swallowed.             *)
(***************************************************************************)
DestroyRow(q) ==
    /\ step[q] = "destroy"
    /\ row' = [row EXCEPT ![target[q]] = "none"]
    /\ CronGoto(q, "stop")
    /\ UNCHANGED <<job, once, target, status, cronHistory>>

(* Gives up on a job that is already paused.                               *)
DestroyStop_OnlyActive(q) ==
    /\ step[q] = "stop"
    /\ IF job[target[q]] # "active"
         THEN CronFinish(q) /\ UNCHANGED job
         ELSE CronGoto(q, "remove") /\ Pause(target[q])
    /\ UNCHANGED <<once, row, target, status, cronHistory>>

DestroyStop(q) ==
    /\ step[q] = "stop"
    /\ IF job[target[q]] = "none"
         THEN CronFinish(q) /\ UNCHANGED job
         ELSE CronGoto(q, "remove") /\ Pause(target[q])
    /\ UNCHANGED <<once, row, target, status, cronHistory>>

DestroyRemove(q) ==
    /\ step[q] = "remove"
    /\ job' = [job EXCEPT ![target[q]] = "none"]
    /\ stopped' = stopped \ {target[q]}
    /\ CronFinish(q)
    /\ UNCHANGED <<once, row, target, status, used, refused, lost>>

(* Pausing or removing the job raises while it is in the store, locked by  *)
(* another thread: that is swallowed too, and the request has succeeded.   *)
DestroyFails(q) ==
    /\ step[q] \in {"stop", "remove"} /\ job[target[q]] # "none"
    /\ lost' = lost \cup {target[q]}
    /\ CronFinish(q)
    /\ UNCHANGED <<cronStores, target, status, used, refused, stopped>>

(* status: the job is paused or resumed, then the loaded row saved whole.  *)
StatusJob(q, s) ==
    LET j == target[q] IN
    /\ step[q] = "status"
    /\ IF job[j] = "none"
         THEN CronFinish(q) /\ UNCHANGED <<job, status, stopped>>
         ELSE /\ IF s = "off" THEN Pause(j) /\ stopped' = stopped \cup {j}
                              ELSE Resume(j)
              /\ status' = [status EXCEPT ![q] = s]
              /\ CronGoto(q, "keep")
    /\ UNCHANGED <<once, row, target, used, refused, lost>>

StatusSave(q) ==
    /\ step[q] = "keep"
    /\ row' = [row EXCEPT ![target[q]] = status[q]]
    /\ CronFinish(q)
    /\ UNCHANGED <<job, once, target, status, cronHistory>>

(* A handler whose next statement raises, with nothing to catch it: the    *)
(* lookup of the job, the deletion of the row, the pause, or the save.     *)
HandlerFails(q) ==
    /\ step[q] \in {"update", "destroy", "status", "keep"}
    /\ CronFinish(q)
    /\ UNCHANGED <<cronStores, target, status, cronHistory>>

(* The scheduler runs a due job; a one-time job leaves the store with it.  *)
Fire(j) ==
    /\ job[j] = "active" /\ j \in once
    /\ job' = [job EXCEPT ![j] = "none"]
    /\ UNCHANGED <<once, row, step, target, status, cronHistory>>

(* The process dies: jobs and rows are in the database, the requests not.  *)
CronCrash ==
    /\ lost' = lost \cup InHand
    /\ step' = [q \in CronRequests |-> "idle"]
    /\ UNCHANGED <<cronStores, target, status, used, refused, stopped>>

CronHandle(q) ==
    \/ \E j \in JobIds, date \in BOOLEAN : CreateAdd(q, j, date)
    \/ CreateSave(q) \/ CreateRefused(q)
    \/ \E j \in JobIds, h \in {"update", "destroy", "status"} : Load(q, j, h)
    \/ UpdateFind(q) \/ UpdateGone(q) \/ UpdatePause(q)
    \/ \E date \in BOOLEAN : UpdateModify(q, date)
    \/ UpdateFails(q) \/ UpdateStuck(q)
    \/ UpdateResume(q) \/ UpdateSave(q) \/ UpdateRefused(q)
    \/ DestroyRow(q) \/ DestroyStop(q) \/ DestroyRemove(q) \/ DestroyFails(q)
    \/ \E s \in Statuses : StatusJob(q, s)
    \/ StatusSave(q) \/ HandlerFails(q)

CronNext ==
    \/ \E q \in CronRequests : CronHandle(q)
    \/ \E j \in JobIds : Fire(j)
    \/ CronCrash

CronSpec == CronInit /\ [][CronNext]_cronVars
-----------------------------------------------------------------------------
(* Every variable has its type.                                           *)
CronTypeOK ==
    /\ job \in [JobIds -> {"none", "active", "paused"}]
    /\ row \in [JobIds -> Statuses \cup {"none"}]
    /\ once \subseteq JobIds /\ used \subseteq JobIds
    /\ step \in [CronRequests -> CronSteps]
    /\ target \in [CronRequests -> JobIds]
    /\ status \in [CronRequests -> Statuses]
    /\ refused \subseteq JobIds /\ stopped \subseteq JobIds /\ lost \subseteq JobIds

(* A job that no row names cannot be seen or deleted by the user.  Such a  *)
(* job is either in the hands of a request that is about to save the row   *)
(* or to remove the job, or its row was refused when it was created, or    *)
(* the process died or the job store failed in the middle of a request     *)
(* (which a deletion swallows): no interleaving of updates, stops,         *)
(* deletions and firings leaves another one behind.                        *)
JobHasRow ==
    \A j \in JobIds :
        job[j] # "none" /\ row[j] = "none" => j \in InHand \cup refused \cup lost

(* update pauses the job while it changes it: a job stays paused only      *)
(* because a request stopped it and none resumed it since, or while a      *)
(* request is at work on it, or after a crash or a failure of the job      *)
(* store that the except of update could not make good.                    *)
PausedWasAsked ==
    \A j \in JobIds : job[j] = "paused" => j \in stopped \cup InHand \cup lost

(* What the docstring of status says, start or pause the task: a task that *)
(* is shown as stopped, with no request at work on it, is not run by the   *)
(* scheduler.  update resumes the job whatever the status of the row.      *)
StoppedIsPaused ==
    \A j \in JobIds : row[j] = "off" /\ j \notin InHand \cup lost => job[j] # "active"
=============================================================================
