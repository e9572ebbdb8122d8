---------------------------- MODULE InstallQueue ----------------------------
(***************************************************************************)
(* The software installation queue: SysTaskCenter rows, executeNextTask,   *)
(* the APScheduler job that runs an installer, the installer's callback,   *)
(* the stop and delete requests and the recovery at start-up.              *)
(*                                                                         *)
(* executeNextTask wraps its reads and writes in transaction.atomic(), but *)
(* that opens a transaction on the database "default" while SysTaskCenter  *)
(* and DjangoJob live in "tasks" (utils/dbRouters.py), and SQLite ignores  *)
(* select_for_update.  Its statements are therefore separate steps.        *)
(***************************************************************************)
EXTENDS Naturals, FiniteSets

CONSTANTS
    NumTasks,     \* rows the table may receive; row numbers follow create_at
    Apps,         \* the software that can be installed
    Requests,     \* request threads served concurrently
    Ops,          \* the operations the users may call
    CanCrash      \* may the panel process die?

AllOps == {"install", "stop", "delete"}

ASSUME QueueAssumption ==
    /\ NumTasks \in Nat \ {0}
    /\ Ops \subseteq AllOps
    /\ CanCrash \in BOOLEAN

Tasks == 1..NumTasks

\* Threads that run executeNextTask: requests, installers in their callback,
\* and the job that start_scheduler adds at start-up.
Req(r)  == <<"request", r>>
Inst(t) == <<"installer", t>>
Starter == <<"starter", 0>>
Threads == {Req(r) : r \in Requests} \cup {Inst(t) : t \in Tasks} \cup {Starter}

VARIABLES
    st,      \* st[t]: status column: none, waiting 0, running 1, failed 2, done 3, deleted
    app,     \* app[t]: the software of the task
    jid,     \* jid[t]: is the column job_id set?
    jobs,    \* tasks whose job is in the job store
    inst,    \* inst[t]: step of the installer of t
    ok,      \* ok[t]: outcome the installer reports
    rpc,     \* rpc[r]: next step of request r
    rtask,   \* rtask[r]: the task request r works on
    rapp,    \* rapp[r]: the software request r installs
    rjid,    \* rjid[r]: was job_id set in the row request r has loaded?
    epc,     \* epc[x]: next step of executeNextTask in thread x
    pick,    \* pick[x]: the row thread x has loaded to start
    wake,    \* "lost" once executeNextTask has given up on its task, until it is called again
    start,   \* step of the start-up job
    stale,   \* rows the start-up job has read as running
    dead     \* history: running rows whose end nobody is going to record

rows     == <<st, app, jid, dead>>
instVars == <<inst, ok>>
reqVars  == <<rpc, rtask, rapp, rjid>>
nextVars == <<epc, pick, wake>>
initVars == <<start, stale>>
vars == <<rows, jobs, instVars, reqVars, nextVars, initVars>>

Status == {"waiting", "running", "failed", "done"}
Exists(t) == st[t] \in Status

\* A job or an installer stands for task t: it is going to report how t ends.
Backed(t) == t \in jobs \/ inst[t] \in {"install", "lookup", "report"}

\* Nobody records the end of t any more.
Orphaned(t) == dead \cup {u \in Tasks : u = t /\ st[u] = "running"}

Init ==
    /\ st    = [t \in Tasks |-> "none"]
    /\ app   = [t \in Tasks |-> "none"]
    /\ jid   = [t \in Tasks |-> FALSE]
    /\ jobs  = {}
    /\ inst  = [t \in Tasks |-> "idle"]
    /\ ok    = [t \in Tasks |-> FALSE]
    /\ rpc   = [r \in Requests |-> "idle"]
    /\ rtask = [r \in Requests |-> 0]
    /\ rapp  = [r \in Requests |-> "none"]
    /\ rjid  = [r \in Requests |-> FALSE]
    /\ epc   = [x \in Threads |-> "off"]
    /\ pick  = [x \in Threads |-> 0]
    /\ wake = "ok"
    /\ start = "recover"
    /\ stale = {}
    /\ dead = {}

-----------------------------------------------------------------------------
(* executeNextTask *)

\* Is a task running?  Then there is nothing to do.
CheckRunning(x) ==
    /\ epc[x] = "check"
    /\ epc' = [epc EXCEPT ![x] = IF \E t \in Tasks : st[t] = "running" THEN "off" ELSE "pick"]
    /\ UNCHANGED <<rows, jobs, instVars, reqVars, pick, wake, initVars>>

Waiting == {t \in Tasks : st[t] = "waiting"}

\* Mutant: order_by("-create_at"), the newest waiting row.
PickOldest_Newest(x) ==
    /\ epc[x] = "pick"
    /\ \/ /\ Waiting = {}
          /\ epc' = [epc EXCEPT ![x] = "off"]
          /\ UNCHANGED pick
       \/ \E t \in Waiting :
             /\ \A u \in Waiting : t >= u
             /\ pick' = [pick EXCEPT ![x] = t]
             /\ epc' = [epc EXCEPT ![x] = "add"]
    /\ UNCHANGED <<rows, jobs, instVars, reqVars, wake, initVars>>

\* Mutant: nobody asks whether a row was found.
PickOldest_NoneFound(x) ==
    /\ epc[x] = "pick"
    /\ epc' = [epc EXCEPT ![x] = "add"]
    /\ \/ Waiting = {} /\ UNCHANGED pick
       \/ \E t \in Waiting :
             /\ \A u \in Waiting : t <= u
             /\ pick' = [pick EXCEPT ![x] = t]
    /\ UNCHANGED <<rows, jobs, instVars, reqVars, wake, initVars>>

\* The oldest waiting row, if any.
PickOldest(x) ==
    /\ epc[x] = "pick"
    /\ \/ /\ Waiting = {}
          /\ epc' = [epc EXCEPT ![x] = "off"]
          /\ UNCHANGED pick
       \/ \E t \in Waiting :
             /\ \A u \in Waiting : t <= u
             /\ pick' = [pick EXCEPT ![x] = t]
             /\ epc' = [epc EXCEPT ![x] = "add"]
    /\ UNCHANGED <<rows, jobs, instVars, reqVars, wake, initVars>>

\* execute_task: store the job ...
AddJob(x) ==
    /\ epc[x] = "add"
    /\ jobs' = jobs \cup {pick[x]}
    /\ epc' = [epc EXCEPT ![x] = "saverunning"]
    /\ UNCHANGED <<rows, instVars, reqVars, pick, wake, initVars>>

AddJobRaises(x) ==
    /\ epc[x] = "add"
    /\ epc' = [epc EXCEPT ![x] = "savefailed"]
    /\ UNCHANGED <<rows, jobs, instVars, reqVars, pick, wake, initVars>>

\* ... then save the whole row: a row deleted meanwhile is inserted again.  The
\* job may have been submitted before, and its installer even have called back.
SaveRow(x) ==
    /\ epc[x] \in {"saverunning", "savefailed"}
    /\ dead' = IF epc[x] = "saverunning" /\ ~Backed(pick[x])
               THEN dead \cup {pick[x]} ELSE dead \ {pick[x]}
    /\ st'  = [st  EXCEPT ![pick[x]] = IF epc[x] = "saverunning" THEN "running" ELSE "failed"]
    /\ jid' = [jid EXCEPT ![pick[x]] = (epc[x] = "saverunning")]
    /\ epc' = [epc EXCEPT ![x] = "off"]
    /\ pick' = [pick EXCEPT ![x] = 0]
    /\ wake' = IF epc[x] = "savefailed" THEN "lost" ELSE wake
    /\ UNCHANGED <<app, jobs, instVars, reqVars, initVars>>

\* The database is locked, or the function of the task cannot be imported: its
\* callers, the callback and the requests, do not try again.
NextRaises(x) ==
    /\ epc[x] \in {"check", "pick", "saverunning", "savefailed"}
    /\ epc'  = [epc EXCEPT ![x] = "off"]
    /\ pick' = [pick EXCEPT ![x] = 0]
    /\ wake' = "lost"
    /\ UNCHANGED <<rows, jobs, instVars, reqVars, initVars>>

ExecuteNext(x) ==
    CheckRunning(x) \/ PickOldest(x) \/ AddJob(x) \/ AddJobRaises(x) \/ SaveRow(x)
        \/ NextRaises(x)

\* Call executeNextTask from thread x.
CallNext(x) == epc' = [epc EXCEPT ![x] = "check"] /\ wake' = "ok"

-----------------------------------------------------------------------------
(* install (RYSoftShopManageView.post, panel_shop_install) *)

\* Refused while a task for the same software is waiting or running.
InstallCheck(r) ==
    /\ "install" \in Ops
    /\ rpc[r] = "idle" /\ epc[Req(r)] = "off"
    /\ \E a \in Apps :
          /\ ~\E t \in Tasks : app[t] = a /\ st[t] \in {"waiting", "running"}
          /\ rapp' = [rapp EXCEPT ![r] = a]
    /\ rpc' = [rpc EXCEPT ![r] = "create"]
    /\ UNCHANGED <<rows, jobs, instVars, rtask, rjid, nextVars, initVars>>

InstallCreate(r) ==
    /\ rpc[r] = "create"
    /\ \E t \in Tasks :
          /\ st[t] = "none"
          /\ \A u \in Tasks : u < t => st[u] # "none"
          /\ st'  = [st  EXCEPT ![t] = "waiting"]
          /\ app' = [app EXCEPT ![t] = rapp[r]]
    /\ rpc'  = [rpc  EXCEPT ![r] = "idle"]
    /\ rapp' = [rapp EXCEPT ![r] = "none"]
    /\ CallNext(Req(r))
    /\ UNCHANGED <<jid, dead, jobs, instVars, rtask, rjid, pick, initVars>>

-----------------------------------------------------------------------------
(* stop_task and del_task: the row is loaded, its subprocess is killed and  *)
(* its job removed (both only if job_id was set), then the row is saved as  *)
(* failed, or deleted, and the next task is started.                        *)

StopOrDelete(r) ==
    /\ rpc[r] = "idle" /\ epc[Req(r)] = "off"
    /\ \E t \in Tasks, op \in Ops \cap {"stop", "delete"} :
          /\ Exists(t)
          /\ rtask' = [rtask EXCEPT ![r] = t]
          /\ rpc' = [rpc EXCEPT ![r] = op]
          /\ rjid' = [rjid EXCEPT ![r] = jid[t]]
          /\ jobs' = IF jid[t] THEN jobs \ {t} ELSE jobs
    /\ UNCHANGED <<rows, instVars, rapp, nextVars, initVars>>

RequestDone(r) ==
    /\ rpc'   = [rpc   EXCEPT ![r] = "idle"]
    /\ rtask' = [rtask EXCEPT ![r] = 0]
    /\ rjid'  = [rjid  EXCEPT ![r] = FALSE]

\* A full save() of the loaded object: it writes the job_id it has loaded, and a
\* deleted row would come back.
StopSave(r) ==
    /\ rpc[r] = "stop"
    /\ st'  = [st  EXCEPT ![rtask[r]] = "failed"]
    /\ jid' = [jid EXCEPT ![rtask[r]] = rjid[r]]
    /\ dead' = dead \ {rtask[r]}
    /\ RequestDone(r)
    /\ CallNext(Req(r))
    /\ UNCHANGED <<app, jobs, instVars, rapp, pick, initVars>>

DeleteRow(r) ==
    /\ rpc[r] = "delete"
    /\ st' = [st EXCEPT ![rtask[r]] = "deleted"]
    /\ dead' = dead \ {rtask[r]}
    /\ RequestDone(r)
    /\ CallNext(Req(r))
    /\ UNCHANGED <<app, jid, jobs, instVars, rapp, pick, initVars>>

\* The save, the delete or the removal of the log raises: the request answers
\* with the error, its job is gone already and the next task is not started.
RequestRaises(r) ==
    /\ rpc[r] \in {"stop", "delete"}
    /\ dead' = Orphaned(rtask[r])
    /\ RequestDone(r)
    /\ UNCHANGED <<st, app, jid, jobs, instVars, rapp, nextVars, initVars>>

-----------------------------------------------------------------------------
(* APScheduler and the installer thread *)

\* A due date job leaves the store; it is dropped if its instance still counts.
Submit(t) ==
    /\ t \in jobs
    /\ jobs' = jobs \ {t}
    /\ inst' = [inst EXCEPT ![t] = IF @ = "idle" THEN "install" ELSE @]
    /\ dead' = IF inst[t] \in {"purge", "next", "end"} THEN Orphaned(t) ELSE dead
    /\ UNCHANGED <<st, app, jid, ok, reqVars, nextVars, initVars>>

InstStep(t, from, to) == inst[t] = from /\ inst' = [inst EXCEPT ![t] = to]

\* The installation succeeds, fails, or is killed by a stop.
Install(t) ==
    /\ InstStep(t, "install", "lookup")
    /\ \E o \in BOOLEAN : ok' = [ok EXCEPT ![t] = o]
    /\ UNCHANGED <<rows, jobs, reqVars, nextVars, initVars>>

\* soft_install_callback: find the row by its job id; not found means that the
\* exception is swallowed and nothing else of the callback happens.
Lookup(t) ==
    /\ InstStep(t, "lookup", IF Exists(t) /\ jid[t] THEN "report" ELSE "next")
    /\ UNCHANGED <<rows, jobs, ok, reqVars, nextVars, initVars>>

\* Anything up to the save of the row raises, the installed software cannot be
\* saved for one: swallowed as well, the row stays as it is.
ReportRaises(t) ==
    /\ InstStep(t, "report", "next")
    /\ dead' = Orphaned(t)
    /\ UNCHANGED <<st, app, jid, jobs, ok, reqVars, nextVars, initVars>>

Report(t) ==
    /\ InstStep(t, "report", "purge")
    /\ dead' = dead \ {t}
    /\ st'  = [st  EXCEPT ![t] = IF ok[t] THEN "done" ELSE "failed"]
    /\ jid' = [jid EXCEPT ![t] = TRUE]
    /\ UNCHANGED <<app, jobs, ok, reqVars, nextVars, initVars>>

\* Mutant: the callback does not start the next task.
Purge_NoNext(t) ==
    /\ InstStep(t, "purge", "next")
    /\ jobs' = jobs \ {t}
    /\ dead' = Orphaned(t)
    /\ UNCHANGED <<st, app, jid, ok, reqVars, nextVars, initVars>>

\* Another thread may have stored the job anew, and saved the row as running.
Purge(t) ==
    /\ InstStep(t, "purge", "next")
    /\ jobs' = jobs \ {t}
    /\ dead' = Orphaned(t)
    /\ CallNext(Inst(t))
    /\ UNCHANGED <<st, app, jid, ok, reqVars, pick, initVars>>

\* The callback has returned.  After a success the installer still starts the
\* service; if that raises, it rolls back and reports a failure as well.
AfterCallback(t) ==
    /\ epc[Inst(t)] = "off"
    /\ \/ InstStep(t, "next", "end")
       \/ ok[t] /\ InstStep(t, "next", "lookup")
    /\ ok' = [ok EXCEPT ![t] = FALSE]
    /\ UNCHANGED <<rows, jobs, reqVars, nextVars, initVars>>

Release(t) ==
    /\ InstStep(t, "end", "idle")
    /\ UNCHANGED <<rows, jobs, ok, reqVars, nextVars, initVars>>

Installer(t) ==
    Install(t) \/ Lookup(t) \/ Report(t) \/ ReportRaises(t) \/ Purge(t) \/ AfterCallback(t)
        \/ Release(t)

-----------------------------------------------------------------------------
(* Start-up: executeNextTask(check_task=True), one second after the         *)
(* scheduler has begun to submit the jobs it found in its store.            *)

ReadRunning ==
    /\ start = "recover"
    /\ start' = "mark"
    /\ stale' = {t \in Tasks : st[t] = "running"}
    /\ UNCHANGED <<rows, jobs, instVars, reqVars, nextVars>>

\* A row read as running whose job is not in the store becomes failed.  The
\* whole row is saved as it was read, with its job_id.
MarkLost ==
    /\ start = "mark"
    /\ \E t \in stale :
          /\ stale' = stale \ {t}
          /\ \/ t \in jobs /\ UNCHANGED <<st, jid, dead>>
             \/ /\ t \notin jobs
                /\ dead' = dead \ {t}
                /\ st'  = [st  EXCEPT ![t] = "failed"]
                /\ jid' = [jid EXCEPT ![t] = TRUE]
    /\ UNCHANGED <<app, jobs, instVars, reqVars, nextVars, start>>

StartQueue ==
    /\ start = "mark"
    /\ stale = {}
    /\ start' = "off"
    /\ CallNext(Starter)
    /\ UNCHANGED <<rows, jobs, instVars, reqVars, pick, stale>>

\* The recovery raises: the start-up job is over, and is not repeated.
StartRaises ==
    /\ start # "off"
    /\ start' = "off"
    /\ stale' = {}
    /\ dead' = dead \cup {t \in Tasks : st[t] = "running" /\ ~Backed(t)}
    /\ wake' = "lost"
    /\ UNCHANGED <<st, app, jid, jobs, instVars, reqVars, epc, pick>>

\* The process dies; the rows and the stored jobs survive, except the jobs
\* that come due later than misfire_grace_time.
Crash ==
    /\ CanCrash
    /\ inst'  = [t \in Tasks |-> "idle"]
    /\ ok'    = [t \in Tasks |-> FALSE]
    /\ rpc'   = [r \in Requests |-> "idle"]
    /\ rtask' = [r \in Requests |-> 0]
    /\ rapp'  = [r \in Requests |-> "none"]
    /\ rjid'  = [r \in Requests |-> FALSE]
    /\ epc'   = [x \in Threads |-> "off"]
    /\ pick'  = [x \in Threads |-> 0]
    /\ wake' = "ok"
    /\ start' = "recover"
    /\ stale' = {}
    /\ \E kept \in SUBSET jobs : jobs' = kept
    /\ dead' = {}
    /\ UNCHANGED <<st, app, jid>>

Request(r) ==
    InstallCheck(r) \/ InstallCreate(r) \/ StopOrDelete(r) \/ StopSave(r) \/ DeleteRow(r)
        \/ RequestRaises(r)

Next ==
    \/ \E r \in Requests : Request(r)
    \/ \E x \in Threads : ExecuteNext(x)
    \/ \E t \in Tasks : Submit(t) \/ Installer(t)
    \/ ReadRunning \/ MarkLost \/ StartQueue \/ StartRaises
    \/ Crash

Spec == Init /\ [][Next]_vars

-----------------------------------------------------------------------------
(* Properties *)

ReqSteps  == {"idle", "create", "stop", "delete"}
InstSteps == {"idle", "install", "lookup", "report", "purge", "next", "end"}
NextSteps == {"off", "check", "pick", "add", "saverunning", "savefailed"}

\* The values every variable ranges over.
TypeOK ==
    /\ st    \in [Tasks -> Status \cup {"none", "deleted"}]
    /\ app   \in [Tasks -> Apps \cup {"none"}]
    /\ jid   \in [Tasks -> BOOLEAN]
    /\ jobs  \subseteq Tasks
    /\ inst  \in [Tasks -> InstSteps]
    /\ ok    \in [Tasks -> BOOLEAN]
    /\ rpc   \in [Requests -> ReqSteps]
    /\ rtask \in [Requests -> 0..NumTasks]
    /\ rapp  \in [Requests -> Apps \cup {"none"}]
    /\ rjid  \in [Requests -> BOOLEAN]
    /\ epc   \in [Threads -> NextSteps]
    /\ pick  \in [Threads -> 0..NumTasks]
    /\ wake \in {"ok", "lost"}
    /\ start \in {"recover", "mark", "off"}
    /\ stale \subseteq Tasks
    /\ dead \subseteq Tasks

\* Somebody is still going to look for the next task.
SomeoneLooks ==
    \/ start # "off"
    \/ \E x \in Threads : epc[x] # "off"
    \/ \E r \in Requests : rpc[r] \in {"stop", "delete"}
    \/ \E t \in Tasks : inst[t] = "purge"

\* While a task waits, a task runs that a job or an installer stands for, or some
\* thread is on its way through executeNextTask: no interleaving of callbacks,
\* stops, deletions, crashes and restarts loses the wake-up of a waiting task.
\* The queue does stand still, until the next call of executeNextTask, when the
\* last call has raised (wake), and it stands behind a running row that nobody
\* will settle (dead): one saved as running after its installer had called back,
\* or its job had been removed or dropped, and one whose callback, stop or
\* recovery raised.
QueueNotAbandoned ==
    Waiting # {} =>
        \/ \E t \in Tasks : st[t] = "running" /\ (Backed(t) \/ t \in dead)
        \/ SomeoneLooks
        \/ wake = "lost"

\* Jobs are stored in the order of the queue ("run the installation tasks in
\* order"): never for a task while an older one waits.
OldestFirst ==
    [][\A t \in jobs' \ jobs : \A u \in Tasks : u < t => st[u] # "waiting"]_vars

\* One installation at a time ("lock the record, avoid concurrent conflicts").
OneRunning == Cardinality({t \in Tasks : st[t] = "running"}) <= 1

\* A running row has a job or an installer ("keep the status of the task and
\* the scheduler consistent").
RunningIsBacked == \A t \in Tasks : st[t] = "running" => Backed(t)

=============================================================================
