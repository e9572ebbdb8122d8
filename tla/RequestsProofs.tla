--------------------------- MODULE RequestsProofs ---------------------------
(***************************************************************************)
(* Theorems about the two parts that MCRequests puts side by side.         *)
(*                                                                         *)
(* InstallQueue: for every number of tasks, every software, every number   *)
(* of request threads, and crashes at any step.                            *)
(*                                                                         *)
(* CertOrders: for any number of jobs, orders and sites, and any order of  *)
(* their steps.                                                            *)
(*                                                                         *)
(* The composition: every variable of both has its type.                   *)
(***************************************************************************)
EXTENDS MCRequests, TLAPS

(* InstallQueue.                                                           *)

\* A thread that has picked a row holds one.
Picked ==
    \A x \in Threads : epc[x] \in {"add", "saverunning", "savefailed"} => pick[x] \in Tasks

IType == TypeOK /\ Picked

LEMMA ThreadNames ==
    /\ \A r \in Requests : Req(r) \in Threads
    /\ \A t \in Tasks : Inst(t) \in Threads
    /\ Starter \in Threads
BY DEF Threads

LEMMA CallNextType ==
    ASSUME IType, NEW x \in Threads, CallNext(x), UNCHANGED pick
    PROVE  /\ epc' \in [Threads -> NextSteps]
           /\ wake' = "ok"
           /\ Picked'
BY DEF IType, TypeOK, Picked, CallNext, NextSteps

LEMMA ExecuteNextType ==
    ASSUME IType, NEW x \in Threads, ExecuteNext(x)
    PROVE  IType'
<1> USE DEF IType, TypeOK, Picked, NextSteps, instVars, reqVars, initVars, rows
<1>1. CASE CheckRunning(x)
  BY <1>1 DEF CheckRunning
<1>2. CASE PickOldest(x)
  <2>1. CASE epc' = [epc EXCEPT ![x] = "off"] /\ UNCHANGED pick
    BY <1>2, <2>1 DEF PickOldest
  <2>2. ASSUME NEW t \in Waiting, pick' = [pick EXCEPT ![x] = t],
               epc' = [epc EXCEPT ![x] = "add"]
        PROVE  IType'
    <3>1. t \in 0..NumTasks /\ t \in Tasks
      BY QueueAssumption DEF Waiting, Tasks
    <3> QED BY <1>2, <2>2, <3>1 DEF PickOldest
  <2> QED BY <1>2, <2>1, <2>2 DEF PickOldest
<1>3. CASE AddJob(x) \/ AddJobRaises(x)
  BY <1>3 DEF AddJob, AddJobRaises
<1>4. CASE SaveRow(x)
  <2>1. 0 \in 0..NumTasks
    BY QueueAssumption
  <2>2. dead' \subseteq Tasks
    BY <1>4 DEF SaveRow
  <2> QED BY <1>4, <2>1, <2>2 DEF SaveRow, Status
<1>5. CASE NextRaises(x)
  <2>1. 0 \in 0..NumTasks
    BY QueueAssumption
  <2> QED BY <1>5, <2>1 DEF NextRaises
<1> QED BY <1>1, <1>2, <1>3, <1>4, <1>5 DEF ExecuteNext

\* A row that is running stays, or becomes, one that nobody settles.
LEMMA OrphanedType ==
    ASSUME IType, NEW t \in Tasks
    PROVE  Orphaned(t) \subseteq Tasks
BY DEF Orphaned, IType, TypeOK

LEMMA RequestType ==
    ASSUME IType, NEW r \in Requests, Request(r)
    PROVE  IType'
<1> USE DEF IType, TypeOK, ReqSteps, instVars, initVars, rows
<1>1. 0 \in 0..NumTasks /\ Tasks \subseteq 0..NumTasks
  BY QueueAssumption DEF Tasks
<1>2. CASE InstallCheck(r)
  BY <1>2 DEF InstallCheck, nextVars, Picked
<1>3. CASE InstallCreate(r)
  <2>1. epc' \in [Threads -> NextSteps] /\ wake' = "ok" /\ Picked'
    BY <1>3, ThreadNames, CallNextType DEF InstallCreate
  <2>2. PICK t \in Tasks : /\ st'  = [st  EXCEPT ![t] = "waiting"]
                           /\ app' = [app EXCEPT ![t] = rapp[r]]
    BY <1>3 DEF InstallCreate
  <2> QED BY <1>3, <2>1, <2>2 DEF InstallCreate, Status
<1>4. CASE StopOrDelete(r)
  <2>1. PICK t \in Tasks, op \in Ops \cap {"stop", "delete"} :
          /\ rtask' = [rtask EXCEPT ![r] = t]
          /\ rpc' = [rpc EXCEPT ![r] = op]
          /\ rjid' = [rjid EXCEPT ![r] = jid[t]]
          /\ jobs' = IF jid[t] THEN jobs \ {t} ELSE jobs
    BY <1>4 DEF StopOrDelete
  <2> QED BY <1>1, <1>4, <2>1 DEF StopOrDelete, nextVars, Picked
<1>5. CASE StopSave(r) \/ DeleteRow(r)
  <2>1. epc' \in [Threads -> NextSteps] /\ wake' = "ok" /\ Picked'
    BY <1>5, ThreadNames, CallNextType DEF StopSave, DeleteRow
  <2>2. st' \in [Tasks -> Status \cup {"none", "deleted"}] /\ jid' \in [Tasks -> BOOLEAN]
        /\ dead' \subseteq Tasks
    BY <1>5 DEF StopSave, DeleteRow, Status
  <2>3. rpc' \in [Requests -> ReqSteps] /\ rtask' \in [Requests -> 0..NumTasks]
        /\ rjid' \in [Requests -> BOOLEAN]
    <3>1. RequestDone(r)
      BY <1>5 DEF StopSave, DeleteRow
    <3>2. rpc' \in [Requests -> ReqSteps] /\ rtask' \in [Requests -> 0..NumTasks]
      BY <1>1, <3>1 DEF RequestDone
    <3>3. rjid' \in [Requests -> BOOLEAN]
      BY <3>1 DEF RequestDone
    <3> QED BY <3>2, <3>3
  <2> QED BY <1>5, <2>1, <2>2, <2>3 DEF StopSave, DeleteRow
<1>6. CASE RequestRaises(r)
  <2>1. dead' \subseteq Tasks
    BY <1>6 DEF RequestRaises, Orphaned
  <2>2. rpc' \in [Requests -> ReqSteps] /\ rtask' \in [Requests -> 0..NumTasks]
        /\ rjid' \in [Requests -> BOOLEAN]
    BY <1>1, <1>6 DEF RequestRaises, RequestDone
  <2> QED BY <1>6, <2>1, <2>2 DEF RequestRaises, nextVars, Picked
<1> QED BY <1>2, <1>3, <1>4, <1>5, <1>6 DEF Request

LEMMA InstallerType ==
    ASSUME IType, NEW t \in Tasks, Submit(t) \/ Installer(t)
    PROVE  IType'
<1> USE DEF IType, TypeOK, InstSteps, initVars, rows, reqVars, InstStep
<1>0. Orphaned(t) \subseteq Tasks
  BY DEF Orphaned
<1>1. CASE Submit(t)
  BY <1>0, <1>1 DEF Submit, nextVars, Picked
<1>2. CASE Install(t)
  BY <1>2 DEF Install, nextVars, Picked
<1>3. CASE Lookup(t) \/ Release(t) \/ ReportRaises(t)
  BY <1>0, <1>3 DEF Lookup, Release, ReportRaises, nextVars, Picked
<1>4. CASE Report(t)
  BY <1>4 DEF Report, nextVars, Picked, Status
<1>5. CASE Purge(t)
  <2>1. epc' \in [Threads -> NextSteps] /\ wake' = "ok" /\ Picked'
    BY <1>5, ThreadNames, CallNextType DEF Purge
  <2> QED BY <1>0, <1>5, <2>1 DEF Purge
<1>6. CASE AfterCallback(t)
  BY <1>6 DEF AfterCallback, nextVars, Picked
<1> QED BY <1>1, <1>2, <1>3, <1>4, <1>5, <1>6 DEF Installer

LEMMA StartType ==
    ASSUME IType, ReadRunning \/ MarkLost \/ StartQueue \/ StartRaises \/ Crash
    PROVE  IType'
<1> USE DEF IType, TypeOK, initVars, rows, reqVars, instVars
<1>1. CASE ReadRunning
  BY <1>1 DEF ReadRunning, nextVars, Picked
<1>2. CASE MarkLost
  <2>1. PICK t \in stale :
          /\ stale' = stale \ {t}
          /\ \/ UNCHANGED <<st, jid, dead>>
             \/ /\ dead' = dead \ {t}
                /\ st'  = [st  EXCEPT ![t] = "failed"]
                /\ jid' = [jid EXCEPT ![t] = TRUE]
    BY <1>2 DEF MarkLost
  <2> QED BY <1>2, <2>1 DEF MarkLost, nextVars, Picked, Status
<1>3. CASE StartQueue
  <2>1. epc' \in [Threads -> NextSteps] /\ wake' = "ok" /\ Picked'
    BY <1>3, ThreadNames, CallNextType DEF StartQueue
  <2> QED BY <1>3, <2>1 DEF StartQueue
<1>4. CASE Crash
  <2>1. 0 \in 0..NumTasks
    BY QueueAssumption
  <2>2. jobs' \subseteq Tasks /\ start' = "recover" /\ stale' = {} /\ wake' = "ok"
        /\ dead' = {} /\ UNCHANGED <<st, app, jid>>
    BY <1>4 DEF Crash
  <2>3. inst' \in [Tasks -> InstSteps] /\ ok' \in [Tasks -> BOOLEAN]
    BY <1>4 DEF Crash, InstSteps
  <2>4. rpc' \in [Requests -> ReqSteps] /\ rtask' \in [Requests -> 0..NumTasks]
        /\ rapp' \in [Requests -> Apps \cup {"none"}] /\ rjid' \in [Requests -> BOOLEAN]
    BY <1>4, <2>1 DEF Crash, ReqSteps
  <2>5. epc' \in [Threads -> NextSteps] /\ pick' \in [Threads -> 0..NumTasks] /\ Picked'
    BY <1>4, <2>1 DEF Crash, NextSteps, Picked
  <2> QED BY <2>2, <2>3, <2>4, <2>5
<1>5. CASE StartRaises
  BY <1>5 DEF StartRaises, Picked
<1> QED BY <1>1, <1>2, <1>3, <1>4, <1>5

LEMMA InitType == Init => IType
BY QueueAssumption DEF Init, IType, TypeOK, Picked, Status, InstSteps, ReqSteps, NextSteps

LEMMA ITypeInvariant == Spec => []IType
<1>1. IType /\ [Next]_vars => IType'
  <2> SUFFICES ASSUME IType, [Next]_vars PROVE IType'
    OBVIOUS
  <2>1. CASE UNCHANGED vars
    BY <2>1 DEF vars, rows, instVars, reqVars, nextVars, initVars, IType, TypeOK, Picked
  <2> QED BY <2>1, ExecuteNextType, RequestType, InstallerType, StartType DEF Next
<1> QED BY InitType, <1>1, PTL DEF Spec

\* Every reachable state is well typed.
THEOREM TypeCorrect == Spec => []TypeOK
BY ITypeInvariant, PTL DEF IType

-----------------------------------------------------------------------------
(* The queue is never abandoned.  Two facts together give it: while a task *)
(* waits, a row is running or somebody is on his way through               *)
(* executeNextTask; and every running row is backed, or known to be dead,  *)
(* or somebody is about to settle it.                                      *)

Somebody ==
    \/ start # "off"
    \/ \E x \in Threads : epc[x] # "off"
    \/ \E t \in Tasks : inst[t] = "purge"

Watched ==
    Waiting # {} => (\E t \in Tasks : st[t] = "running") \/ Somebody \/ wake = "lost"

\* The recovery, a stop or a deletion is about to settle the row.
Settled(t) ==
    \/ start = "recover" \/ (start = "mark" /\ t \in stale)
    \/ \E r \in Requests : rpc[r] \in {"stop", "delete"} /\ rtask[r] = t

RunningRow(t) == st[t] = "running" => jid[t] /\ (Backed(t) \/ t \in dead \/ Settled(t))
RunningRows == \A t \in Tasks : RunningRow(t)

\* Calling executeNextTask is enough.
LEMMA CallNextLooks ==
    ASSUME IType, NEW x \in Threads, CallNext(x)
    PROVE  Watched'
<1>1. epc' \in [Threads -> NextSteps] /\ epc'[x] = "check"
  BY DEF IType, TypeOK, CallNext, NextSteps
<1> QED BY <1>1 DEF Watched, Somebody

LEMMA ExecuteNextLooks ==
    ASSUME IType, Watched, NEW x \in Threads, ExecuteNext(x)
    PROVE  Watched'
<1> USE DEF IType, TypeOK, NextSteps, instVars, reqVars, initVars, rows
<1>1. CASE CheckRunning(x)
  <2>1. CASE \E t \in Tasks : st[t] = "running"
    BY <1>1, <2>1 DEF CheckRunning, Watched
  <2>2. CASE ~\E t \in Tasks : st[t] = "running"
    BY <1>1, <2>2 DEF CheckRunning, Watched, Somebody
  <2> QED BY <2>1, <2>2
<1>2. CASE PickOldest(x)
  <2>1. CASE Waiting = {}
    BY <1>2, <2>1 DEF PickOldest, Watched, Waiting
  <2>2. CASE Waiting # {}
    BY <1>2, <2>2 DEF PickOldest, Watched, Somebody
  <2> QED BY <2>1, <2>2
<1>3. CASE AddJob(x) \/ AddJobRaises(x)
  BY <1>3 DEF AddJob, AddJobRaises, Watched, Somebody
<1>4. CASE SaveRow(x)
  <2>1. CASE epc[x] = "saverunning"
    <3>1. pick[x] \in Tasks /\ st'[pick[x]] = "running"
      BY <1>4, <2>1 DEF SaveRow, Picked
    <3> QED BY <3>1 DEF Watched
  <2>2. CASE epc[x] = "savefailed"
    BY <1>4, <2>2 DEF SaveRow, Watched
  <2> QED BY <1>4, <2>1, <2>2 DEF SaveRow
<1>5. CASE NextRaises(x)
  BY <1>5 DEF NextRaises, Watched
<1> QED BY <1>1, <1>2, <1>3, <1>4, <1>5 DEF ExecuteNext

LEMMA RequestLooks ==
    ASSUME IType, Watched, NEW r \in Requests, Request(r)
    PROVE  Watched'
<1>1. CASE InstallCheck(r) \/ StopOrDelete(r) \/ RequestRaises(r)
  <2>1. UNCHANGED <<st, epc, start, inst, wake>>
    BY <1>1 DEF InstallCheck, StopOrDelete, RequestRaises, rows, instVars, initVars, nextVars
  <2> QED BY <2>1 DEF Watched, Waiting, Somebody
<1>2. CASE InstallCreate(r) \/ StopSave(r) \/ DeleteRow(r)
  BY <1>2, ThreadNames, CallNextLooks DEF InstallCreate, StopSave, DeleteRow
<1> QED BY <1>1, <1>2 DEF Request

LEMMA InstallerLooks ==
    ASSUME IType, Watched, NEW t \in Tasks, Submit(t) \/ Installer(t)
    PROVE  Watched'
<1> USE DEF IType, TypeOK, InstSteps, initVars, rows, reqVars, nextVars, InstStep
<1>1. CASE \/ Submit(t) \/ Install(t) \/ Lookup(t) \/ ReportRaises(t) \/ AfterCallback(t)
           \/ Release(t)
  <2>1. Waiting' = Waiting /\ UNCHANGED <<st, epc, start, wake>>
    BY <1>1 DEF Submit, Install, Lookup, ReportRaises, AfterCallback, Release, Waiting
  <2>2. \A u \in Tasks : inst[u] = "purge" => inst'[u] = "purge"
    BY <1>1 DEF Submit, Install, Lookup, ReportRaises, AfterCallback, Release
  <2> QED BY <2>1, <2>2 DEF Watched, Somebody
<1>2. CASE Report(t)
  <2>1. inst'[t] = "purge"
    BY <1>2 DEF Report
  <2> QED BY <2>1 DEF Watched, Somebody
<1>3. CASE Purge(t)
  BY <1>3, ThreadNames, CallNextLooks DEF Purge
<1> QED BY <1>1, <1>2, <1>3 DEF Installer

LEMMA StartLooks ==
    ASSUME IType, Watched, ReadRunning \/ MarkLost \/ StartQueue \/ StartRaises \/ Crash
    PROVE  Watched'
<1>1. CASE ReadRunning \/ MarkLost \/ StartRaises \/ Crash
  BY <1>1 DEF ReadRunning, MarkLost, StartRaises, Crash, Watched, Somebody
<1>2. CASE StartQueue
  BY <1>2, ThreadNames, CallNextLooks DEF StartQueue
<1> QED BY <1>1, <1>2

\* Running rows: executeNextTask saves one as running only as backed or dead.
LEMMA ExecuteNextKeepsRows ==
    ASSUME IType, RunningRows, NEW x \in Threads, ExecuteNext(x)
    PROVE  RunningRows'
<1> SUFFICES ASSUME NEW t \in Tasks, st'[t] = "running"
             PROVE  jid'[t] /\ (Backed(t)' \/ t \in dead' \/ Settled(t)')
  BY DEF RunningRows, RunningRow
<1>0. UNCHANGED <<inst, rpc, rtask, start, stale>> /\ jobs \subseteq jobs'
  BY DEF ExecuteNext, CheckRunning, PickOldest, AddJob, AddJobRaises, SaveRow, NextRaises,
     instVars, reqVars, initVars
<1>1. (Settled(t) => Settled(t)') /\ (Backed(t) => Backed(t)')
  BY <1>0 DEF Settled, Backed
<1>2. CASE UNCHANGED rows
  BY <1>1, <1>2 DEF rows, RunningRows, RunningRow
<1>3. CASE SaveRow(x)
  <2>1. pick[x] \in Tasks
    BY <1>3 DEF SaveRow, IType, Picked
  <2>2. CASE t = pick[x]
    <3>1. epc[x] = "saverunning" /\ jid'[t] /\ UNCHANGED jobs
      BY <1>3, <2>1, <2>2 DEF SaveRow, IType, TypeOK
    <3>2. Backed(t) \/ t \in dead'
      BY <1>3, <2>2, <3>1 DEF SaveRow
    <3> QED BY <1>1, <3>1, <3>2
  <2>3. CASE t # pick[x]
    <3>1. st[t] = "running" /\ jid'[t] = jid[t] /\ (t \in dead => t \in dead')
      BY <1>3, <2>3 DEF SaveRow, IType, TypeOK
    <3> QED BY <1>1, <3>1 DEF RunningRows, RunningRow
  <2> QED BY <2>2, <2>3
<1> QED BY <1>2, <1>3
    DEF ExecuteNext, CheckRunning, PickOldest, AddJob, AddJobRaises, NextRaises

LEMMA RequestKeepsRows ==
    ASSUME IType, RunningRows, NEW r \in Requests, Request(r)
    PROVE  RunningRows'
<1> SUFFICES ASSUME NEW t \in Tasks, st'[t] = "running"
             PROVE  jid'[t] /\ (Backed(t)' \/ t \in dead' \/ Settled(t)')
  BY DEF RunningRows, RunningRow
<1>0. UNCHANGED <<inst, start, stale>> /\ DOMAIN rpc = Requests /\ DOMAIN rtask = Requests
  BY DEF Request, InstallCheck, InstallCreate, StopOrDelete, StopSave, DeleteRow, RequestRaises,
     instVars, initVars, IType, TypeOK
<1>1. CASE InstallCheck(r) \/ InstallCreate(r)
  <2>1. st[t] = "running" /\ jid' = jid /\ dead' = dead /\ jobs' = jobs
    BY <1>1 DEF InstallCheck, InstallCreate, rows, IType, TypeOK
  <2>2. rtask' = rtask /\ \A q \in Requests : rpc[q] \in {"stop", "delete"} => rpc'[q] = rpc[q]
    BY <1>0, <1>1 DEF InstallCheck, InstallCreate
  <2> QED BY <1>0, <2>1, <2>2 DEF RunningRows, RunningRow, Backed, Settled
<1>2. CASE StopOrDelete(r)
  <2>1. PICK u \in Tasks, op \in {"stop", "delete"} :
          /\ rtask' = [rtask EXCEPT ![r] = u] /\ rpc' = [rpc EXCEPT ![r] = op]
          /\ jobs \ {u} \subseteq jobs'
    BY <1>2 DEF StopOrDelete
  <2>2. rpc[r] = "idle" /\ st[t] = "running" /\ jid' = jid /\ dead' = dead
    BY <1>2 DEF StopOrDelete, rows
  <2>3. CASE t = u
    BY <1>0, <2>1, <2>2, <2>3 DEF RunningRows, RunningRow, Settled
  <2>4. CASE t # u
    <3>1. Backed(t) => Backed(t)'
      BY <1>0, <2>1, <2>4 DEF Backed
    <3>2. Settled(t) => Settled(t)'
      BY <1>0, <2>1, <2>2 DEF Settled
    <3> QED BY <2>2, <3>1, <3>2 DEF RunningRows, RunningRow
  <2> QED BY <2>3, <2>4
<1>3. CASE StopSave(r) \/ DeleteRow(r) \/ RequestRaises(r)
  <2>1. /\ rpc' = [rpc EXCEPT ![r] = "idle"] /\ rtask' = [rtask EXCEPT ![r] = 0]
        /\ jobs' = jobs
    BY <1>3 DEF StopSave, DeleteRow, RequestRaises, RequestDone
  <2>2. CASE t = rtask[r]
    <3>1. st[t] = "running" /\ jid' = jid /\ t \in dead'
      BY <1>3, <2>2 DEF StopSave, DeleteRow, RequestRaises, Orphaned, IType, TypeOK
    <3> QED BY <3>1 DEF RunningRows, RunningRow
  <2>3. CASE t # rtask[r]
    <3>1. st[t] = "running" /\ jid'[t] = jid[t] /\ (t \in dead => t \in dead')
      BY <1>3, <2>3 DEF StopSave, DeleteRow, RequestRaises, Orphaned, IType, TypeOK
    <3>2. Settled(t) => Settled(t)'
      BY <1>0, <2>1, <2>3 DEF Settled
    <3>3. Backed(t) => Backed(t)'
      BY <1>0, <2>1 DEF Backed
    <3> QED BY <3>1, <3>2, <3>3 DEF RunningRows, RunningRow
  <2> QED BY <2>2, <2>3
<1> QED BY <1>1, <1>2, <1>3 DEF Request

\* What an installer no longer stands for is dead, unless its row is settled.
LEMMA InstallerKeepsRows ==
    ASSUME IType, RunningRows, NEW t \in Tasks, Submit(t) \/ Installer(t)
    PROVE  RunningRows'
<1> SUFFICES ASSUME NEW u \in Tasks, st'[u] = "running"
             PROVE  jid'[u] /\ (Backed(u)' \/ u \in dead' \/ Settled(u)')
  BY DEF RunningRows, RunningRow
<1> USE DEF InstStep
<1>0. Settled(u) => Settled(u)'
  BY DEF Submit, Installer, Install, Lookup, Report, ReportRaises, Purge, AfterCallback, Release,
     reqVars, initVars, Settled
<1>1. CASE u # t
  <2>1. st[u] = "running" /\ jid'[u] = jid[u] /\ (u \in dead => u \in dead')
    BY <1>1 DEF Submit, Installer, Install, Lookup, Report, ReportRaises, Purge, AfterCallback,
       Release, rows, Orphaned, IType, TypeOK
  <2>2. inst'[u] = inst[u] /\ (u \in jobs => u \in jobs')
    BY <1>1 DEF Submit, Installer, Install, Lookup, Report, ReportRaises, Purge, AfterCallback,
       Release, IType, TypeOK
  <2> QED BY <1>0, <2>1, <2>2 DEF RunningRows, RunningRow, Backed
<1>2. CASE u = t /\ ~Report(t)
  <2>1. st'[t] = st[t] /\ jid' = jid /\ dead \subseteq dead' /\ jid[t]
    BY <1>2 DEF Submit, Installer, Install, Lookup, ReportRaises, Purge, AfterCallback,
       Release, rows, Orphaned, RunningRows, RunningRow
  <2>2. CASE Submit(t)
    <3>1. inst[t] \in InstSteps /\ inst'[t] = IF inst[t] = "idle" THEN "install" ELSE inst[t]
      BY <2>2 DEF Submit, IType, TypeOK
    <3>2. inst[t] \in {"purge", "next", "end"} => t \in dead'
      BY <1>2, <2>1, <2>2 DEF Submit, Orphaned
    <3> QED BY <1>2, <2>1, <3>1, <3>2 DEF Backed, InstSteps
  <2>3. CASE Purge(t) \/ ReportRaises(t)
    BY <1>2, <2>1, <2>3 DEF Purge, ReportRaises, Orphaned
  <2>4. CASE Install(t) \/ Lookup(t) \/ AfterCallback(t) \/ Release(t)
    <3>1. UNCHANGED jobs /\ DOMAIN inst = Tasks
      BY <2>4 DEF Install, Lookup, AfterCallback, Release, IType, TypeOK
    <3>2. Backed(t) => Backed(t)'
      BY <1>2, <2>1, <2>4, <3>1
         DEF Install, Lookup, AfterCallback, Release, Backed, Exists, Status
    <3> QED BY <1>0, <1>2, <2>1, <3>2 DEF RunningRows, RunningRow
  <2> QED BY <1>2, <2>2, <2>3, <2>4 DEF Installer
<1>3. CASE u = t /\ Report(t)
  BY <1>3 DEF Report, IType, TypeOK
<1> QED BY <1>1, <1>2, <1>3

LEMMA StartKeepsRows ==
    ASSUME IType, RunningRows, ReadRunning \/ MarkLost \/ StartQueue \/ StartRaises \/ Crash
    PROVE  RunningRows'
<1> SUFFICES ASSUME NEW t \in Tasks, st'[t] = "running"
             PROVE  jid'[t] /\ (Backed(t)' \/ t \in dead' \/ Settled(t)')
  BY DEF RunningRows, RunningRow
<1>1. CASE ReadRunning
  BY <1>1 DEF ReadRunning, rows, RunningRows, RunningRow, Settled
<1>2. CASE MarkLost
  <2>1. PICK u \in stale :
          /\ stale' = stale \ {u}
          /\ \/ u \in jobs /\ UNCHANGED <<st, jid, dead>>
             \/ /\ u \notin jobs
                /\ dead' = dead \ {u}
                /\ st'  = [st  EXCEPT ![u] = "failed"]
                /\ jid' = [jid EXCEPT ![u] = TRUE]
    BY <1>2 DEF MarkLost
  <2>2. UNCHANGED <<inst, jobs, rpc, rtask, start>> /\ start = "mark"
    BY <1>2 DEF MarkLost, instVars, reqVars
  <2>3. CASE t = u
    BY <2>1, <2>2, <2>3 DEF RunningRows, RunningRow, Backed, IType, TypeOK
  <2>4. CASE t # u
    <3>1. st[t] = "running" /\ jid'[t] = jid[t] /\ (t \in dead => t \in dead')
      BY <2>1, <2>4 DEF IType, TypeOK
    <3>2. (Backed(t) => Backed(t)') /\ (Settled(t) => Settled(t)')
      BY <2>1, <2>2, <2>4 DEF Backed, Settled
    <3> QED BY <3>1, <3>2 DEF RunningRows, RunningRow
  <2> QED BY <2>3, <2>4
<1>3. CASE StartQueue
  <2>1. st[t] = "running" /\ jid' = jid /\ dead' = dead
    BY <1>3 DEF StartQueue, rows
  <2>2. (Backed(t) => Backed(t)') /\ (Settled(t) => Settled(t)')
    BY <1>3 DEF StartQueue, instVars, reqVars, Backed, Settled
  <2> QED BY <2>1, <2>2 DEF RunningRows, RunningRow
<1>4. CASE StartRaises
  <2>1. st[t] = "running" /\ jid' = jid /\ (Backed(t) \/ t \in dead')
    BY <1>4 DEF StartRaises
  <2>2. Backed(t) => Backed(t)'
    BY <1>4 DEF StartRaises, instVars, Backed
  <2> QED BY <2>1, <2>2 DEF RunningRows, RunningRow
<1>5. CASE Crash
  BY <1>5 DEF Crash, RunningRows, RunningRow, Settled
<1> QED BY <1>1, <1>2, <1>3, <1>4, <1>5

\* No order of callbacks, stops, deletions, crashes and restarts leaves a
\* waiting task behind with nobody to start it, unless the last call of
\* executeNextTask raised, or a dead row is in the way.
THEOREM QueueIsNotAbandoned == Spec => []QueueNotAbandoned
<1>1. Init => Watched /\ RunningRows
  BY DEF Init, Watched, Waiting, Somebody, RunningRows, RunningRow
<1>2. IType /\ Watched /\ RunningRows /\ [Next]_vars => Watched' /\ RunningRows'
  <2> SUFFICES ASSUME IType, Watched, RunningRows, [Next]_vars PROVE Watched' /\ RunningRows'
    OBVIOUS
  <2>1. CASE UNCHANGED vars
    BY <2>1 DEF vars, rows, instVars, reqVars, nextVars, initVars, Watched, Waiting, Somebody,
       RunningRows, RunningRow, Backed, Settled
  <2> QED BY <2>1, ExecuteNextLooks, RequestLooks, InstallerLooks, StartLooks,
             ExecuteNextKeepsRows, RequestKeepsRows, InstallerKeepsRows, StartKeepsRows DEF Next
<1>3. Watched /\ RunningRows => QueueNotAbandoned
  BY DEF Watched, Somebody, RunningRows, RunningRow, Settled, QueueNotAbandoned, SomeoneLooks
<1> QED BY <1>1, <1>2, <1>3, ITypeInvariant, PTL DEF Spec

-----------------------------------------------------------------------------
(* Jobs are stored in the order of the queue.  Rows are created in order and *)
(* only InstallCreate makes a row wait; everybody else works on rows that    *)
(* exist already, so a row older than a picked one never starts to wait.     *)

Created(t) == t \in Tasks /\ st[t] # "none"

RowsInOrder   == \A t, u \in Tasks : u < t /\ Created(t) => Created(u)
PickedRows    == \A x \in Threads :
                    epc[x] \in {"add", "saverunning", "savefailed"} => Created(pick[x])
PickedOldest  == \A x \in Threads : epc[x] = "add" =>
                    \A u \in Tasks : u < pick[x] => st[u] # "waiting"
RequestRows   == \A r \in Requests : rpc[r] \in {"stop", "delete"} => Created(rtask[r])
InstallerRows == \A t \in Tasks : inst[t] = "report" => Created(t)
StaleRows     == \A t \in stale : Created(t)

WritersKnowRows == PickedRows /\ RequestRows /\ InstallerRows /\ StaleRows
IOrder == RowsInOrder /\ WritersKnowRows /\ PickedOldest

\* No step but InstallCreate creates a row or makes one wait.
NoNewRows == \A t \in Tasks :
    /\ st[t] = "none" <=> st'[t] = "none"
    /\ st'[t] = "waiting" => st[t] = "waiting"

OtherStep ==
    \/ \E r \in Requests : \/ InstallCheck(r) \/ StopOrDelete(r) \/ StopSave(r) \/ DeleteRow(r)
                           \/ RequestRaises(r)
    \/ \E x \in Threads : ExecuteNext(x)
    \/ \E t \in Tasks : Submit(t) \/ Installer(t)
    \/ ReadRunning \/ MarkLost \/ StartQueue \/ StartRaises
    \/ Crash

LEMMA OtherStepsKeepRows ==
    ASSUME IType, WritersKnowRows, OtherStep
    PROVE  NoNewRows
<1> USE DEF IType, TypeOK, WritersKnowRows, Created
<1>1. CASE UNCHANGED st
  BY <1>1 DEF NoNewRows
<1>2. ASSUME NEW r \in Requests, StopSave(r) \/ DeleteRow(r) PROVE NoNewRows
  BY <1>2 DEF StopSave, DeleteRow, RequestRows, NoNewRows
<1>3. ASSUME NEW x \in Threads, SaveRow(x) PROVE NoNewRows
  BY <1>3 DEF SaveRow, PickedRows, NoNewRows
<1>4. ASSUME NEW t \in Tasks, Report(t) PROVE NoNewRows
  BY <1>4 DEF Report, InstStep, InstallerRows, NoNewRows
<1>5. CASE MarkLost
  <2>1. PICK t \in stale : UNCHANGED st \/ st' = [st EXCEPT ![t] = "failed"]
    BY <1>5 DEF MarkLost
  <2> QED BY <2>1 DEF StaleRows, NoNewRows
<1>6. ASSUME NEW r \in Requests, InstallCheck(r) \/ StopOrDelete(r) \/ RequestRaises(r)
      PROVE  UNCHANGED st
  BY <1>6 DEF InstallCheck, StopOrDelete, RequestRaises, rows
<1>7. ASSUME NEW x \in Threads,
             \/ CheckRunning(x) \/ PickOldest(x) \/ AddJob(x) \/ AddJobRaises(x) \/ NextRaises(x)
      PROVE  UNCHANGED st
  BY <1>7 DEF CheckRunning, PickOldest, AddJob, AddJobRaises, NextRaises, rows
<1>8. ASSUME NEW t \in Tasks,
             \/ Submit(t) \/ Install(t) \/ Lookup(t) \/ ReportRaises(t) \/ Purge(t)
             \/ AfterCallback(t) \/ Release(t)
      PROVE  UNCHANGED st
  BY <1>8 DEF Submit, Install, Lookup, ReportRaises, Purge, AfterCallback, Release, rows
<1>9. ASSUME ReadRunning \/ StartQueue \/ StartRaises \/ Crash PROVE UNCHANGED st
  BY <1>9 DEF ReadRunning, StartQueue, StartRaises, Crash, rows
<1> QED BY <1>1, <1>2, <1>3, <1>4, <1>5, <1>6, <1>7, <1>8, <1>9
        DEF OtherStep, ExecuteNext, Installer

\* What every thread holds in the next state is a row it held, or one it found.
LEMMA OtherStepsHoldRows ==
    ASSUME IType, IOrder, OtherStep
    PROVE  /\ \A x \in Threads : epc'[x] \in {"add", "saverunning", "savefailed"} =>
                \/ pick'[x] = pick[x] /\ epc[x] = "add"
                \/ pick'[x] = pick[x] /\ epc'[x] = epc[x]
                \/ /\ pick'[x] \in Waiting
                   /\ \A u \in Waiting : pick'[x] <= u
           /\ \A r \in Requests : rpc'[r] \in {"stop", "delete"} =>
                (rtask'[r] = rtask[r] /\ rpc'[r] = rpc[r]) \/ Created(rtask'[r])
           /\ \A t \in Tasks : inst'[t] = "report" => inst[t] = "report" \/ Created(t)
           /\ \A t \in stale' : t \in stale \/ Created(t)
<1> USE DEF IType, TypeOK, nextVars, reqVars, instVars, initVars
<1>1. ASSUME NEW r \in Requests, InstallCheck(r) \/ StopOrDelete(r)
      PROVE  /\ UNCHANGED <<nextVars, instVars, initVars>>
             /\ \A q \in Requests : rpc'[q] \in {"stop", "delete"} =>
                  (rtask'[q] = rtask[q] /\ rpc'[q] = rpc[q]) \/ Created(rtask'[q])
  BY <1>1 DEF InstallCheck, StopOrDelete, Created, Exists, Status
<1>2. ASSUME NEW x \in Threads, CallNext(x), UNCHANGED pick
      PROVE  \A y \in Threads : epc'[y] \in {"add", "saverunning", "savefailed"} =>
                pick'[y] = pick[y] /\ epc'[y] = epc[y]
  BY <1>2 DEF CallNext
<1>13. ASSUME NEW r \in Requests, RequestRaises(r)
      PROVE  /\ UNCHANGED <<nextVars, instVars, initVars>>
             /\ \A q \in Requests : rpc'[q] \in {"stop", "delete"} =>
                  rtask'[q] = rtask[q] /\ rpc'[q] = rpc[q]
  BY <1>13 DEF RequestRaises, RequestDone
<1>3. ASSUME NEW r \in Requests, StopSave(r) \/ DeleteRow(r)
      PROVE  /\ CallNext(Req(r)) /\ UNCHANGED <<pick, instVars, initVars>>
             /\ \A q \in Requests : rpc'[q] \in {"stop", "delete"} =>
                  rtask'[q] = rtask[q] /\ rpc'[q] = rpc[q]
  BY <1>3 DEF StopSave, DeleteRow, RequestDone
<1>4. ASSUME NEW x \in Threads, ExecuteNext(x)
      PROVE  /\ UNCHANGED <<reqVars, instVars, initVars>>
             /\ \A y \in Threads : epc'[y] \in {"add", "saverunning", "savefailed"} =>
                \/ pick'[y] = pick[y] /\ epc[y] = "add"
                \/ pick'[y] = pick[y] /\ epc'[y] = epc[y]
                \/ /\ pick'[y] \in Waiting
                   /\ \A u \in Waiting : pick'[y] <= u
  BY <1>4 DEF ExecuteNext, CheckRunning, PickOldest, AddJob, AddJobRaises, SaveRow, NextRaises
<1>5. ASSUME NEW t \in Tasks, Submit(t) \/ Installer(t)
      PROVE  /\ UNCHANGED <<reqVars, initVars, pick>>
             /\ epc' = epc \/ CallNext(Inst(t))
             /\ \A u \in Tasks : inst'[u] = "report" => inst[u] = "report" \/ Created(u)
  BY <1>5 DEF Submit, Installer, Install, Lookup, Report, ReportRaises, Purge, AfterCallback,
     Release, InstStep, Created, Exists, Status
<1>6. CASE ReadRunning \/ MarkLost
  BY <1>6 DEF ReadRunning, MarkLost, Created
<1>7. CASE StartQueue
  BY <1>2, <1>7, ThreadNames DEF StartQueue
<1>8. CASE Crash \/ StartRaises
  BY <1>8 DEF Crash, StartRaises
<1>14. CASE \E r \in Requests : RequestRaises(r)
  BY <1>13, <1>14
<1>9. CASE \E r \in Requests : InstallCheck(r) \/ StopOrDelete(r)
  BY <1>1, <1>9
<1>10. CASE \E r \in Requests : StopSave(r) \/ DeleteRow(r)
  BY <1>2, <1>3, <1>10, ThreadNames
<1>11. CASE \E x \in Threads : ExecuteNext(x)
  BY <1>4, <1>11
<1>12. CASE \E t \in Tasks : Submit(t) \/ Installer(t)
  BY <1>2, <1>5, <1>12, ThreadNames
<1> QED BY <1>6, <1>7, <1>8, <1>9, <1>10, <1>11, <1>12, <1>14 DEF OtherStep

LEMMA OtherStepsType ==
    ASSUME IType, OtherStep
    PROVE  IType'
BY ExecuteNextType, RequestType, InstallerType, StartType DEF OtherStep, Request

LEMMA OtherStepsOrder ==
    ASSUME IType, IOrder, OtherStep
    PROVE  IOrder'
<1> USE DEF IOrder, WritersKnowRows
<1>1. NoNewRows
  BY OtherStepsKeepRows
<1>2. \A t \in Tasks : Created(t) <=> Created(t)'
  BY <1>1 DEF NoNewRows, Created
<1>3. \A t \in Waiting : Created(t)
  BY DEF Waiting, Created
<1>4. RowsInOrder'
  BY <1>2 DEF RowsInOrder
<1>5. WritersKnowRows'
  BY <1>2, <1>3, OtherStepsHoldRows
     DEF PickedRows, RequestRows, InstallerRows, StaleRows, Created
<1>6. PickedOldest'
  <2> SUFFICES ASSUME NEW x \in Threads, epc'[x] = "add",
                      NEW u \in Tasks, u < pick'[x], st'[u] = "waiting"
               PROVE  FALSE
    BY DEF PickedOldest
  <2>1. st[u] = "waiting" /\ u \in Waiting
    BY <1>1 DEF NoNewRows, Waiting
  <2>2. CASE pick'[x] = pick[x] /\ epc[x] = "add"
    BY <2>1, <2>2 DEF PickedOldest
  <2>3. CASE \A v \in Waiting : pick'[x] <= v
    <3>1. pick'[x] \in Nat /\ u \in Nat
      BY OtherStepsType, QueueAssumption DEF IType, TypeOK, Tasks
    <3> QED BY <2>1, <2>3, <3>1
  <2> QED BY <2>2, <2>3, OtherStepsHoldRows
<1> QED BY <1>4, <1>5, <1>6

LEMMA InstallCreateKeeps ==
    ASSUME IType, IOrder, NEW r \in Requests, InstallCreate(r)
    PROVE  IOrder'
<1> USE DEF IType, TypeOK, IOrder, WritersKnowRows
<1>1. PICK t \in Tasks :
        /\ st[t] = "none"
        /\ \A u \in Tasks : u < t => st[u] # "none"
        /\ st' = [st EXCEPT ![t] = "waiting"]
  BY DEF InstallCreate
<1>2. \A u \in Tasks : Created(u)' <=> Created(u) \/ u = t
  BY <1>1 DEF Created
<1>3. /\ UNCHANGED <<pick, inst, stale, rtask>>
      /\ \A x \in Threads : epc'[x] \in {"add", "saverunning", "savefailed"} => epc'[x] = epc[x]
      /\ \A q \in Requests : rpc'[q] \in {"stop", "delete"} => rpc'[q] = rpc[q]
  BY ThreadNames DEF InstallCreate, CallNext, instVars, initVars
<1>4. RowsInOrder'
  <2> SUFFICES ASSUME NEW v \in Tasks, NEW u \in Tasks, u < v, Created(v)'
               PROVE  Created(u)'
    BY DEF RowsInOrder
  <2>1. CASE v = t
    BY <1>1, <1>2, <2>1 DEF Created
  <2>2. CASE Created(v)
    BY <1>2, <2>2 DEF RowsInOrder
  <2> QED BY <1>2, <2>1, <2>2
<1>5. WritersKnowRows'
  BY <1>2, <1>3 DEF PickedRows, RequestRows, InstallerRows, StaleRows, Created
<1>6. PickedOldest'
  <2> SUFFICES ASSUME NEW x \in Threads, epc'[x] = "add",
                      NEW u \in Tasks, u < pick'[x], st'[u] = "waiting"
               PROVE  FALSE
    BY DEF PickedOldest
  <2>1. epc[x] = "add" /\ pick'[x] = pick[x] /\ Created(pick[x])
    BY <1>3 DEF PickedRows
  <2>2. st[u] # "none"
    BY <2>1 DEF RowsInOrder, Created
  <2>3. st[u] = "waiting"
    BY <1>1, <2>2
  <2> QED BY <2>1, <2>3 DEF PickedOldest
<1> QED BY <1>4, <1>5, <1>6

\* A job is only ever stored for the oldest waiting task.
THEOREM JobsInOrder == Spec => OldestFirst
<1>1. Init => IOrder
  BY QueueAssumption DEF Init, IOrder, WritersKnowRows, RowsInOrder, PickedRows, PickedOldest,
     RequestRows, InstallerRows, StaleRows, Created
<1>2. IType /\ IOrder /\ [Next]_vars => IOrder'
  <2> SUFFICES ASSUME IType, IOrder, [Next]_vars PROVE IOrder'
    OBVIOUS
  <2>1. CASE UNCHANGED vars
    BY <2>1 DEF vars, rows, instVars, reqVars, nextVars, initVars, IOrder, WritersKnowRows,
       RowsInOrder, PickedRows, PickedOldest, RequestRows, InstallerRows, StaleRows, Created
  <2>2. CASE \E r \in Requests : InstallCreate(r)
    BY <2>2, InstallCreateKeeps
  <2>3. CASE OtherStep
    BY <2>3, OtherStepsOrder
  <2> QED BY <2>1, <2>2, <2>3 DEF Next, Request, OtherStep
<1>3. IType /\ IOrder /\ [Next]_vars =>
        [\A t \in jobs' \ jobs : \A u \in Tasks : u < t => st[u] # "waiting"]_vars
  <2> SUFFICES ASSUME IType, IOrder, Next, NEW t \in jobs' \ jobs, NEW u \in Tasks, u < t
               PROVE  st[u] # "waiting"
    OBVIOUS
  <2>1. PICK x \in Threads : AddJob(x)
    BY DEF Next, Request, InstallCheck, InstallCreate, StopOrDelete, StopSave, DeleteRow,
       RequestRaises, ExecuteNext, CheckRunning, PickOldest, AddJobRaises, SaveRow, NextRaises,
       Submit, Installer, Install, Lookup, Report, ReportRaises, Purge, AfterCallback, Release,
       ReadRunning, MarkLost, StartQueue, StartRaises, Crash
  <2>2. t = pick[x] /\ epc[x] = "add"
    BY <2>1 DEF AddJob
  <2> QED BY <2>2 DEF IOrder, PickedOldest
<1> QED BY <1>1, <1>2, <1>3, ITypeInvariant, PTL DEF Spec, OldestFirst

-----------------------------------------------------------------------------
(* CertOrders. *)

(* The conjuncts of the type invariant.                                   *)
CertNames ==
    /\ given \subseteq Orders /\ nightly \subseteq Orders
    /\ dir \in [Orders -> Ages]
    /\ siteCert \in [Sites -> (Orders \cup {NoOrder}) \X Ages]
    /\ chal \in [Sites -> SUBSET Jobs]
    /\ job \in [Jobs -> JobKinds] /\ jobAt \in [Jobs -> Steps]
    /\ order \in [Jobs -> Orders \cup {NoOrder}]
    /\ wants \in 0..MaxAsks /\ renewed \subseteq Sites /\ cut \subseteq Sites
    /\ killed \subseteq Orders

CertFlags ==
    /\ force \in [Sites -> BOOLEAN] /\ wish \in [Sites -> BOOLEAN]
    /\ forced \in [Jobs -> BOOLEAN] /\ outdated \in [Jobs -> BOOLEAN] /\ clash \in BOOLEAN

CertBooks == IsBook(orderFile) /\ DOMAIN mem = Jobs /\ \A j \in Jobs : IsBook(mem[j])

(* A job is of a kind that its step belongs to, and works on an order.     *)
ShapeAt(j) ==
    /\ jobAt[j] = "idle" <=> job[j] = "none"
    /\ job[j] # "none" => order[j] \in Orders
    /\ jobAt[j] = "asked" => job[j] = "renew"
    /\ jobAt[j] = "drop" <=> job[j] = "delete"
    /\ jobAt[j] \in {"check", "done"} => Renews(j)
    /\ jobAt[j] = "close" => job[j] = "apply"

JobShape == \A j \in Jobs : ShapeAt(j)

(* The copy of a job at these steps has a row for its order.               *)
NeedsRow(j) ==
    \/ jobAt[j] \in {"asked", "drop", "clear", "place", "prove", "fetch", "load", "install",
                     "keep", "done", "close"}
    \/ jobAt[j] = "order" /\ Renews(j)

RowInCopy == \A j \in Jobs : NeedsRow(j) => order[j] \in DOMAIN mem[j]

(* Only orders whose number was given out are known anywhere; an           *)
(* application that has not yet created its order is alone in knowing it.  *)
Creates(j) == job[j] = "apply" /\ jobAt[j] \in {"start", "order"}

OrdersKnown ==
    /\ DOMAIN orderFile \subseteq given /\ nightly \subseteq given
    /\ \A j \in Jobs : DOMAIN mem[j] \subseteq given /\ order[j] \in given \cup {NoOrder}

NewOrders == \A j \in Jobs : Creates(j) =>
    /\ order[j] \notin DOMAIN orderFile /\ order[j] \notin nightly
    /\ \A i \in Jobs : order[j] \notin DOMAIN mem[i] /\ (i # j => order[i] # order[j])

(* A copy that is not outdated is the file.                                *)
Copies == \A j \in Jobs : HasCopy(j) /\ ~outdated[j] => mem[j] = orderFile

(* A redirection that is off against the user's wish was put off by a      *)
(* renewal at work, of those that did not succeed and were not cut off or  *)
(* ended in the middle.                                                    *)
Redirections ==
    /\ \A s \in Sites : force[s] => wish[s]
    /\ \A s \in Sites \ (renewed \cup cut \cup KilledSites) :
          wish[s] /\ ~force[s] => \E j \in Jobs : forced[j] /\ Site(j) = s

(* A renewal that has put one off finds its order in its copy, unless the  *)
(* order was removed under way: else it could not put it back.             *)
PutOff == \A j \in Jobs : forced[j] =>
    /\ jobAt[j] \notin {"idle", "asked", "drop", "start", "check"} /\ Renews(j) /\ wish[Site(j)]
    /\ order[j] \in DOMAIN mem[j] \/ Site(j) \in cut

(* A renewal that has its order in its copy has it in the file as well,    *)
(* unless the order was removed under way.                                 *)
NotCutOff == \A j \in Jobs : Renews(j) /\ HasCopy(j) /\ order[j] \in DOMAIN mem[j] =>
    order[j] \in DOMAIN orderFile \/ Site(j) \in cut

(* An order that is not over is applied for, one with a pending renewal is *)
(* renewed, unless its thread was ended in the middle; a renewal that does not know its order has none in the file.   *)
Pursued ==
    /\ \A o \in DOMAIN orderFile \ killed :
          /\ ~orderFile[o].over => \E j \in Jobs : job[j] = "apply" /\ order[j] = o
          /\ orderFile[o].renew = "pending" => \E j \in Jobs : Renews(j) /\ order[j] = o
    /\ \A j \in Jobs : Renews(j) /\ HasCopy(j) /\ order[j] \notin DOMAIN mem[j] =>
          order[j] \notin DOMAIN orderFile

-----------------------------------------------------------------------------
(* Rows and books. *)

LEMMA EmptyBook == IsBook(NoOrders) /\ DOMAIN NoOrders = {}
  BY DEF IsBook, NoOrders

LEMMA WithBook ==
    ASSUME NEW b, IsBook(b), NEW o \in Orders, NEW r \in OrderRows
    PROVE  /\ IsBook(With(b, o, r)) /\ DOMAIN With(b, o, r) = DOMAIN b \cup {o}
           /\ With(b, o, r)[o] = r
           /\ \A x \in DOMAIN b : x # o => With(b, o, r)[x] = b[x]
  BY DEF IsBook, With

LEMMA WithoutBook ==
    ASSUME NEW b, IsBook(b), NEW S
    PROVE  /\ IsBook(Without(b, S)) /\ DOMAIN Without(b, S) = DOMAIN b \ S
           /\ \A x \in DOMAIN b \ S : Without(b, S)[x] = b[x]
  BY DEF IsBook, Without

(* One row of a book is changed.                                           *)
Renewed(b, o, v) == [b EXCEPT ![o].renew = v]
Renewals == {"", "pending", "success", "failed"}

LEMMA RenewBook ==
    ASSUME NEW b, IsBook(b), NEW o \in DOMAIN b, NEW v \in Renewals
    PROVE  /\ IsBook(Renewed(b, o, v)) /\ DOMAIN Renewed(b, o, v) = DOMAIN b
           /\ Renewed(b, o, v)[o].renew = v /\ Renewed(b, o, v)[o].over = b[o].over
           /\ \A x \in DOMAIN b : x # o => Renewed(b, o, v)[x] = b[x]
<1>1. b[o] \in OrderRows
  BY DEF IsBook
<1> DEFINE r == [b[o] EXCEPT !.renew = v]
           c == [b EXCEPT ![o] = r]
<1>2. r \in OrderRows /\ r.renew = v /\ r.over = b[o].over
  BY <1>1 DEF OrderRows, Renewals
<1> HIDE DEF r
<1>3. /\ IsBook(c) /\ DOMAIN c = DOMAIN b /\ c[o] = r
      /\ \A x \in DOMAIN b : x # o => c[x] = b[x]
  BY <1>2 DEF IsBook
<1>4. QED
  BY <1>2, <1>3 DEF r, Renewed

LEMMA CloseBook ==
    ASSUME NEW b, IsBook(b), NEW o \in DOMAIN b, NEW v \in BOOLEAN
    PROVE  LET c == [b EXCEPT ![o].over = TRUE, ![o].deploy = v]
           IN  /\ IsBook(c) /\ DOMAIN c = DOMAIN b
               /\ c[o].over = TRUE /\ c[o].renew = b[o].renew
               /\ \A x \in DOMAIN b : x # o => c[x] = b[x]
<1>1. b[o] \in OrderRows
  BY DEF IsBook
<1> DEFINE r == [b[o] EXCEPT !.over = TRUE, !.deploy = v]
           c == [b EXCEPT ![o] = r]
           d == [b EXCEPT ![o].over = TRUE, ![o].deploy = v]
<1>2. r \in OrderRows /\ r.over = TRUE /\ r.renew = b[o].renew
  BY <1>1 DEF OrderRows
<1>3. d = c
  BY DEF c, d
<1> HIDE DEF r, d
<1>4. /\ IsBook(c) /\ DOMAIN c = DOMAIN b /\ c[o] = r
      /\ \A x \in DOMAIN b : x # o => c[x] = b[x]
  BY <1>2 DEF IsBook
<1>5. QED
  BY <1>2, <1>3, <1>4 DEF d

CertTypeInv == CertNames /\ CertFlags /\ CertBooks /\ JobShape /\ RowInCopy

Asked(j, o) ==
    RequestApply(j, o) \/ RequestRenew(j, o) \/ RequestDelete(j, o) \/ NightlyTake(j, o)

(* A step of one job leaves the others where they are.                     *)
OthersKeep(j) ==
    /\ DOMAIN mem' = Jobs
    /\ \A i \in Jobs \ {j} :
          /\ job'[i] = job[i] /\ jobAt'[i] = jobAt[i] /\ order'[i] = order[i]
          /\ mem'[i] = mem[i] /\ forced'[i] = forced[i]

LEMMA OneJob ==
    ASSUME CertTypeInv, NEW j \in Jobs, ToolStep(j) \/ \E o \in Orders : Asked(j, o)
    PROVE  OthersKeep(j)
<1>1. /\ job \in [Jobs -> JobKinds] /\ jobAt \in [Jobs -> Steps] /\ order \in [Jobs -> Orders \cup {NoOrder}]
      /\ forced \in [Jobs -> BOOLEAN] /\ DOMAIN mem = Jobs
  BY DEF CertTypeInv, CertNames, CertFlags, CertBooks
<1> USE <1>1 DEF OthersKeep, GoTo, Over, TakeJob, Read, SaveOrder, restVars, siteVars, bookVars, toolVars
<1>2. CASE WriteAsked(j) \/ DropOrder(j)
  BY <1>2 DEF WriteAsked, DropOrder
<1>3. CASE StartTool(j) \/ Check(j)
  BY <1>3 DEF StartTool, Check
<1>4. CASE CreateOrder(j) \/ ClearFiles(j)
  BY <1>4 DEF CreateOrder, ClearFiles
<1>5. CASE PlaceFile(j) \/ AlreadyValid(j) \/ Validated(j)
  BY <1>5 DEF PlaceFile, AlreadyValid, Validated
<1>6. CASE GetCertificate(j) \/ Download(j)
  BY <1>6 DEF GetCertificate, Download
<1>7. CASE InstallCert(j) \/ InstallFails(j)
  BY <1>7 DEF InstallCert, InstallFails
<1>8. CASE Keep(j) \/ RenewDone(j)
  BY <1>8 DEF Keep, RenewDone
<1>9. CASE StepFails(j) \/ FailApply(j)
  BY <1>9 DEF StepFails, FailApply
<1>10. CASE CloseApply(j) \/ FailRenew(j) \/ LoseRenew(j) \/ Die(j)
  BY <1>10 DEF CloseApply, FailRenew, LoseRenew, Die
<1>11. ASSUME NEW o \in Orders, RequestApply(j, o) \/ RequestRenew(j, o) PROVE OthersKeep(j)
  BY <1>11 DEF RequestApply, RequestRenew
<1>12. ASSUME NEW o \in Orders, RequestDelete(j, o) \/ NightlyTake(j, o) PROVE OthersKeep(j)
  BY <1>12 DEF RequestDelete, NightlyTake
<1>13. QED
  BY <1>2, <1>3, <1>4, <1>5, <1>6, <1>7, <1>8, <1>9, <1>10, <1>11, <1>12 DEF ToolStep, Asked

Writing(j) ==
    \/ WriteAsked(j) \/ DropOrder(j) \/ CreateOrder(j) \/ PlaceFile(j) \/ AlreadyValid(j)
    \/ GetCertificate(j) \/ Download(j) \/ Keep(j) \/ RenewDone(j) \/ CloseApply(j) \/ FailRenew(j)

(* A job that saves b has changed nothing but the row of its own order, and *)
(* what it may have left open there it goes on with.                       *)
OwnRow(j, b) ==
    /\ job[j] # "delete" => order[j] \in DOMAIN b
    /\ order[j] \in DOMAIN b =>
          /\ order[j] \in DOMAIN mem[j] \/ Creates(j)
          /\ \/ b[order[j]].over = TRUE
             \/ job'[j] = "apply"
             \/ job[j] # "apply" /\ order[j] \in DOMAIN mem[j] /\ mem[j][order[j]].over = b[order[j]].over
          /\ \/ b[order[j]].renew # "pending"
             \/ job'[j] \in {"renew", "nightly"}
             \/ ~Renews(j) /\ order[j] \in DOMAIN mem[j] /\ mem[j][order[j]].renew = "pending"

OtherRows(j, b) ==
    \A x \in DOMAIN b : x # order[j] => x \in DOMAIN mem[j] /\ b[x] = mem[j][x]

(* It keeps b as its copy, or has no copy any more.                        *)
GoesOn(j, b) ==
    /\ job'[j] = job[j] /\ order'[j] = order[j] /\ forced'[j] = forced[j]
    /\ \/ mem'[j] = b
       \/ mem'[j] = NoOrders /\ jobAt[j] = "asked" /\ jobAt'[j] = "start"

Stops(j) ==
    /\ job'[j] = "none" /\ jobAt'[j] = "idle" /\ order'[j] = NoOrder
    /\ mem'[j] = NoOrders /\ forced'[j] = FALSE

Writes(j, b) ==
    /\ Save(j, b) /\ IsBook(b) /\ HasCopy(j)
    /\ OtherRows(j, b) /\ OwnRow(j, b)
    /\ GoesOn(j, b) \/ Stops(j)
    /\ given' = given /\ nightly' = nightly /\ wish' = wish

LEMMA JobFacts ==
    ASSUME CertTypeInv, NEW j \in Jobs
    PROVE  /\ j \in DOMAIN job /\ j \in DOMAIN jobAt /\ j \in DOMAIN order /\ j \in DOMAIN mem
           /\ j \in DOMAIN forced /\ IsBook(mem[j]) /\ IsBook(orderFile)
           /\ jobAt[j] # "idle" => order[j] \in Orders /\ job[j] # "none"
           /\ jobAt[j] \in {"asked", "drop", "clear", "place", "prove", "fetch", "load", "install",
                            "keep", "done", "close"} => order[j] \in DOMAIN mem[j]
           /\ jobAt[j] = "asked" => job[j] = "renew"
           /\ jobAt[j] = "close" => job[j] = "apply"
           /\ jobAt[j] = "drop" => job[j] = "delete"
           /\ jobAt[j] = "done" => job[j] \in {"renew", "nightly"}
           /\ job[j] \in {"none", "apply", "renew", "nightly", "delete"}
  BY DEF CertTypeInv, CertNames, CertFlags, CertBooks, JobShape, ShapeAt, RowInCopy, NeedsRow, JobKinds, Renews

(* The job saves one row with its order.                                   *)
LEMMA SaveOrderWrites ==
    ASSUME CertTypeInv, NEW j \in Jobs, NEW r \in OrderRows, NEW next, SaveOrder(j, r, next),
           order[j] \in Orders, HasCopy(j),
           order[j] \in DOMAIN mem[j] \/ Creates(j),
           r.over = TRUE \/ job[j] = "apply"
             \/ (order[j] \in DOMAIN mem[j] /\ mem[j][order[j]].over = r.over),
           r.renew # "pending" \/ Renews(j)
             \/ (order[j] \in DOMAIN mem[j] /\ mem[j][order[j]].renew = "pending"),
           UNCHANGED <<given, nightly, wish>>
    PROVE  \E b : Writes(j, b)
<1> DEFINE b == With(mem[j], order[j], r)
<1>1. /\ IsBook(b) /\ order[j] \in DOMAIN b /\ b[order[j]] = r
      /\ \A x \in DOMAIN b : x # order[j] => x \in DOMAIN mem[j] /\ b[x] = mem[j][x]
  <2>1. IsBook(mem[j])
    BY JobFacts
  <2>2. \A m, q : IsBook(m) /\ q \in Orders =>
          /\ IsBook(With(m, q, r)) /\ DOMAIN With(m, q, r) = DOMAIN m \cup {q}
          /\ With(m, q, r)[q] = r
          /\ \A x \in DOMAIN m : x # q => With(m, q, r)[x] = m[x]
    BY ONLY r \in OrderRows, WithBook
  <2>3. /\ IsBook(b) /\ DOMAIN b = DOMAIN mem[j] \cup {order[j]} /\ b[order[j]] = r
        /\ \A x \in DOMAIN mem[j] : x # order[j] => b[x] = mem[j][x]
    BY ONLY <2>1, <2>2, order[j] \in Orders
  <2> HIDE DEF b
  <2>4. QED
    BY <2>3
<1>2. Save(j, b) /\ mem' = [mem EXCEPT ![j] = b] /\ UNCHANGED <<job, order, forced>>
  BY DEF SaveOrder, GoTo
<1> HIDE DEF b
<1>3. mem'[j] = b
  BY <1>2, JobFacts
<1>4. OwnRow(j, b) /\ OtherRows(j, b)
  BY <1>1, <1>2 DEF OwnRow, OtherRows, Renews
<1>5. GoesOn(j, b)
  BY <1>2, <1>3 DEF GoesOn
<1>6. QED
  BY <1>1, <1>2, <1>4, <1>5 DEF Writes

LEMMA Written ==
    ASSUME CertTypeInv, NEW j \in Jobs, Writing(j)
    PROVE  \E b : Writes(j, b)
<1> DEFINE o == order[j]
<1>f. /\ j \in DOMAIN job /\ j \in DOMAIN jobAt /\ j \in DOMAIN order /\ j \in DOMAIN mem
      /\ j \in DOMAIN forced /\ IsBook(mem[j])
      /\ job[j] \in {"none", "apply", "renew", "nightly", "delete"}
      /\ \A x \in DOMAIN mem[j] : mem[j][x] \in OrderRows
  BY JobFacts DEF IsBook
<1> USE DEF HasCopy, restVars
<1>1. CASE WriteAsked(j)
  <2>v. PICK v \in Renewals : v = ""
    BY DEF Renewals
  <2> DEFINE b == Renewed(mem[j], o, v)
  <2>1. jobAt[j] = "asked" /\ o \in DOMAIN mem[j] /\ job[j] = "renew"
    BY <1>1, JobFacts DEF WriteAsked
  <2>2. /\ IsBook(b) /\ DOMAIN b = DOMAIN mem[j] /\ b[o].renew = v /\ b[o].over = mem[j][o].over
        /\ \A x \in DOMAIN mem[j] : x # o => b[x] = mem[j][x]
    <3>1. v \in Renewals /\ IsBook(mem[j]) /\ o \in DOMAIN mem[j]
      BY <1>f, <2>1
    <3>2. QED
      BY ONLY <3>1, RenewBook
  <2>3. Save(j, b) /\ mem'[j] = NoOrders /\ jobAt'[j] = "start" /\ UNCHANGED <<job, order, forced>>
        /\ UNCHANGED <<given, nightly, wish>>
    BY <1>1, <1>f, <2>v DEF WriteAsked, GoTo, Renewed
  <2> HIDE DEF b
  <2>4. OwnRow(j, b) /\ OtherRows(j, b)
    BY <2>1, <2>2, <2>3, <2>v DEF OwnRow, OtherRows
  <2>5. GoesOn(j, b)
    BY <2>1, <2>3 DEF GoesOn
  <2>6. QED
    BY <2>1, <2>2, <2>3, <2>4, <2>5 DEF Writes
<1>2. CASE DropOrder(j)
  <2> DEFINE b == Without(mem[j], {o})
  <2>1. jobAt[j] = "drop" /\ job[j] = "delete"
    BY <1>2, JobFacts DEF DropOrder
  <2>2. /\ IsBook(b) /\ DOMAIN b = DOMAIN mem[j] \ {o}
        /\ \A x \in DOMAIN mem[j] \ {o} : b[x] = mem[j][x]
    BY <1>f, WithoutBook
  <2>3. Save(j, b) /\ Stops(j) /\ UNCHANGED <<given, nightly, wish>>
    BY <1>2, <1>f DEF DropOrder, Over, Stops
  <2> HIDE DEF b
  <2>4. OwnRow(j, b) /\ OtherRows(j, b)
    BY <2>1, <2>2 DEF OwnRow, OtherRows
  <2>5. QED
    BY <2>1, <2>2, <2>3, <2>4 DEF Writes
<1>3. CASE CreateOrder(j)
  <2> DEFINE r == [over |-> Renews(j), deploy |-> Renews(j), url |-> Renews(j),
                   expiry |-> "none", renew |-> IF Renews(j) THEN "pending" ELSE ""]
  <2>1. jobAt[j] = "order" /\ SaveOrder(j, r, "clear") /\ UNCHANGED <<given, nightly, wish>>
    BY <1>3 DEF CreateOrder
  <2>2. r \in OrderRows /\ (r.over = TRUE \/ ~Renews(j)) /\ (r.renew # "pending" \/ Renews(j))
    <3>1. CASE Renews(j)
      BY <3>1 DEF OrderRows
    <3>2. CASE ~Renews(j)
      <4>1. Renews(j) = FALSE
        BY <3>2
      <4>2. r = [over |-> FALSE, deploy |-> FALSE, url |-> FALSE, expiry |-> "none", renew |-> ""]
        BY ONLY <4>1
      <4> HIDE DEF r
      <4>3. QED
        BY <3>2, <4>2 DEF OrderRows
    <3>3. QED
      BY <3>1, <3>2
  <2>3. job[j] = "apply" \/ Renews(j)
    BY <2>1 DEF CertTypeInv, JobShape, ShapeAt, CertNames, JobKinds, Renews
  <2>4. o \in DOMAIN mem[j] \/ Creates(j)
    BY <2>1, <2>3 DEF CertTypeInv, RowInCopy, NeedsRow, Creates
  <2>5. o \in Orders
    BY <2>1, JobFacts
  <2> HIDE DEF r
  <2>6. QED
    BY <2>1, <2>2, <2>3, <2>4, <2>5, SaveOrderWrites
<1>4. CASE PlaceFile(j) \/ AlreadyValid(j)
  <2>1. PICK next : SaveOrder(j, mem[j][o], next)
    BY <1>4 DEF PlaceFile, AlreadyValid
  <2>2. jobAt[j] = "place" /\ UNCHANGED <<given, nightly, wish>>
    BY <1>4 DEF PlaceFile, AlreadyValid
  <2>3. o \in DOMAIN mem[j] /\ mem[j][o] \in OrderRows /\ o \in Orders
    BY <1>f, <2>2, JobFacts
  <2>4. QED
    BY <2>1, <2>2, <2>3, SaveOrderWrites
<1>5. CASE GetCertificate(j)
  <2>1. jobAt[j] = "fetch" /\ UNCHANGED <<given, nightly, wish>>
    BY <1>5 DEF GetCertificate
  <2>2. o \in DOMAIN mem[j] /\ mem[j][o] \in OrderRows /\ o \in Orders
    BY <1>f, <2>1, JobFacts
  <2>3. CASE SaveOrder(j, mem[j][o], "fail")
    BY <2>1, <2>2, <2>3, SaveOrderWrites
  <2>4. CASE SaveOrder(j, [mem[j][o] EXCEPT !.url = TRUE], "load")
    <3> DEFINE r == [mem[j][o] EXCEPT !.url = TRUE]
    <3>1. r \in OrderRows /\ r.over = mem[j][o].over /\ r.renew = mem[j][o].renew
      BY <2>2 DEF OrderRows
    <3> HIDE DEF r
    <3>2. SaveOrder(j, r, "load")
      BY <2>4 DEF r
    <3>3. QED
      BY <2>1, <2>2, <3>1, <3>2, SaveOrderWrites
  <2>5. QED
    BY <1>5, <2>3, <2>4 DEF GetCertificate
<1>6. CASE Download(j)
  <2> DEFINE r == [mem[j][o] EXCEPT !.expiry = "fresh"]
  <2>1. jobAt[j] = "load" /\ UNCHANGED <<given, nightly, wish>>
    BY <1>6 DEF Download
  <2>2. o \in DOMAIN mem[j] /\ mem[j][o] \in OrderRows /\ o \in Orders
    BY <1>f, <2>1, JobFacts
  <2>3. r \in OrderRows /\ r.over = mem[j][o].over /\ r.renew = mem[j][o].renew
    BY <2>2 DEF OrderRows
  <2>4. PICK next : SaveOrder(j, r, next)
    BY <1>6 DEF Download
  <2> HIDE DEF r
  <2>5. QED
    BY <2>1, <2>2, <2>3, <2>4, SaveOrderWrites
<1>7. CASE Keep(j)
  <2> DEFINE others == {x \in DOMAIN mem[j] : x # o /\ SiteOf[x] = Site(j)}
             a == Without(mem[j], others)
             b == [a EXCEPT ![o].over = TRUE, ![o].deploy = TRUE]
  <2>1. jobAt[j] = "keep" /\ o \in DOMAIN mem[j] /\ UNCHANGED <<given, nightly, wish>>
    BY <1>7, JobFacts DEF Keep
  <2>2. /\ IsBook(a) /\ DOMAIN a = DOMAIN mem[j] \ others
        /\ \A x \in DOMAIN mem[j] \ others : a[x] = mem[j][x]
    BY <1>f, WithoutBook
  <2>3. o \in DOMAIN a
    BY <2>1, <2>2
  <2>w. /\ Save(j, b)
        /\ IF Renews(j) THEN mem' = [mem EXCEPT ![j] = b] /\ GoTo(j, "done") ELSE Over(j)
    BY <1>7 DEF Keep
  <2> HIDE DEF a
  <2>4. /\ IsBook(b) /\ DOMAIN b = DOMAIN a /\ b[o].over = TRUE /\ b[o].renew = a[o].renew
        /\ \A x \in DOMAIN a : x # o => b[x] = a[x]
    BY <2>2, <2>3, CloseBook
  <2> HIDE DEF others, b
  <2>5. OtherRows(j, b)
    BY <2>2, <2>4 DEF OtherRows
  <2>6. b[o].renew = mem[j][o].renew
    BY <2>2, <2>3, <2>4
  <2>7. CASE Renews(j)
    <3>1. mem'[j] = b /\ UNCHANGED <<job, order, forced>>
      BY <1>f, <2>w, <2>7 DEF GoTo
    <3>2. OwnRow(j, b) /\ GoesOn(j, b)
      BY <2>1, <2>3, <2>4, <2>7, <3>1 DEF OwnRow, GoesOn, Renews
    <3>3. QED
      BY <2>1, <2>4, <2>5, <2>w, <3>2 DEF Writes
  <2>8. CASE ~Renews(j)
    <3>1. Stops(j)
      BY <1>f, <2>w, <2>8 DEF Over, Stops
    <3>2. OwnRow(j, b)
      BY <2>1, <2>3, <2>4, <2>6, <2>8 DEF OwnRow
    <3>3. QED
      BY <2>1, <2>4, <2>5, <2>w, <3>1, <3>2 DEF Writes
  <2>9. QED
    BY <2>7, <2>8
<1>8. ASSUME NEW v \in {"success", "failed"}, Save(j, [mem[j] EXCEPT ![o].renew = v]),
             Over(j), o \in DOMAIN mem[j], jobAt[j] \in {"done", "fail"}, UNCHANGED <<given, nightly, wish>>,
             Renews(j)
      PROVE  \E b : Writes(j, b)
  <2> DEFINE b == Renewed(mem[j], o, v)
  <2>1. /\ IsBook(b) /\ DOMAIN b = DOMAIN mem[j] /\ b[o].renew = v /\ b[o].over = mem[j][o].over
        /\ \A x \in DOMAIN mem[j] : x # o => b[x] = mem[j][x]
    <3>1. v \in Renewals /\ IsBook(mem[j]) /\ o \in DOMAIN mem[j]
      BY <1>f, <1>8 DEF Renewals
    <3>2. QED
      BY ONLY <3>1, RenewBook
  <2>2. Save(j, b) /\ Stops(j)
    BY <1>f, <1>8 DEF Over, Stops, Renewed
  <2> HIDE DEF b
  <2>3. OwnRow(j, b) /\ OtherRows(j, b)
    BY <1>8, <2>1 DEF OwnRow, OtherRows, Renews
  <2>4. QED
    BY <1>8, <2>1, <2>2, <2>3 DEF Writes
<1>9. CASE RenewDone(j)
  <2>1. jobAt[j] = "done" /\ o \in DOMAIN mem[j] /\ Renews(j) /\ UNCHANGED <<given, nightly, wish>>
    BY <1>9, JobFacts DEF RenewDone, Renews
  <2>2. Save(j, [mem[j] EXCEPT ![o].renew = "success"]) /\ Over(j)
    BY <1>9 DEF RenewDone
  <2>3. QED
    BY <1>8, <2>1, <2>2
<1>10. CASE FailRenew(j)
  <2>1. jobAt[j] = "fail" /\ o \in DOMAIN mem[j] /\ Renews(j) /\ UNCHANGED <<given, nightly, wish>>
    BY <1>10 DEF FailRenew
  <2>2. Save(j, [mem[j] EXCEPT ![o].renew = "failed"]) /\ Over(j)
    BY <1>10 DEF FailRenew
  <2>3. QED
    BY <1>8, <2>1, <2>2
<1>11. CASE CloseApply(j)
  <2> DEFINE b == [mem[j] EXCEPT ![o].over = TRUE, ![o].deploy = FALSE]
  <2>1. jobAt[j] = "close" /\ job[j] = "apply" /\ o \in DOMAIN mem[j] /\ UNCHANGED <<given, nightly, wish>>
    BY <1>11, JobFacts DEF CloseApply
  <2>2. /\ IsBook(b) /\ DOMAIN b = DOMAIN mem[j] /\ b[o].over = TRUE /\ b[o].renew = mem[j][o].renew
        /\ \A x \in DOMAIN mem[j] : x # o => b[x] = mem[j][x]
    <3>1. IsBook(mem[j])
      BY <1>f
    <3>2. FALSE \in BOOLEAN
      OBVIOUS
    <3> QED BY <2>1, <3>1, <3>2, CloseBook
  <2>3. Save(j, b) /\ Stops(j)
    BY <1>11, <1>f DEF CloseApply, Over, Stops
  <2> HIDE DEF b
  <2>4. OwnRow(j, b) /\ OtherRows(j, b)
    BY <2>1, <2>2 DEF OwnRow, OtherRows, Renews
  <2>5. QED
    BY <2>1, <2>2, <2>3, <2>4 DEF Writes
<1>12. QED
  BY <1>1, <1>2, <1>3, <1>4, <1>5, <1>6, <1>7, <1>9, <1>10, <1>11 DEF Writing

(* The other steps of a job read the file, leave book and copy alone, or   *)
(* end the job.                                                            *)
Reads(j) ==
    /\ mem'[j] = orderFile /\ HasCopy(j)'
    /\ UNCHANGED <<orderFile, clash, cut>> /\ outdated' = [outdated EXCEPT ![j] = FALSE]

Quiet(j) ==
    /\ mem'[j] = mem[j] /\ UNCHANGED bookVars /\ (HasCopy(j)' <=> HasCopy(j))

Leaves(j) ==
    /\ Stops(j)
    /\ UNCHANGED <<orderFile, clash, cut>> /\ outdated' = [outdated EXCEPT ![j] = FALSE]

Reading(j) ==
    \/ StartTool(j) \/ InstallCert(j) \/ InstallFails(j)
    \/ FailApply(j) /\ order[j] \in DOMAIN orderFile
    \/ \E o \in Orders : RequestRenew(j, o) \/ RequestDelete(j, o)

Staying(j) ==
    \/ Check(j) \/ ClearFiles(j) \/ Validated(j) \/ StepFails(j)
    \/ \E o \in Orders : RequestApply(j, o) \/ NightlyTake(j, o)

Leaving(j) == LoseRenew(j) \/ Die(j) \/ (FailApply(j) /\ order[j] \notin DOMAIN orderFile)

LEMMA ReadingReads ==
    ASSUME CertTypeInv, NEW j \in Jobs, Reading(j)
    PROVE  Reads(j)
<1>1. j \in DOMAIN mem /\ j \in DOMAIN jobAt
  BY JobFacts
<1> USE <1>1 DEF Reads, Read, HasCopy
<1>2. CASE StartTool(j)
  BY <1>2 DEF StartTool
<1>3. CASE InstallCert(j) \/ InstallFails(j)
  BY <1>3 DEF InstallCert, InstallFails
<1>4. CASE FailApply(j) /\ order[j] \in DOMAIN orderFile
  BY <1>4 DEF FailApply
<1>5. ASSUME NEW o \in Orders, RequestRenew(j, o) \/ RequestDelete(j, o) PROVE Reads(j)
  BY <1>5 DEF RequestRenew, RequestDelete
<1>6. QED
  BY <1>2, <1>3, <1>4, <1>5 DEF Reading

LEMMA StayingIsQuiet ==
    ASSUME CertTypeInv, NEW j \in Jobs, Staying(j)
    PROVE  Quiet(j)
<1>1. j \in DOMAIN mem /\ j \in DOMAIN jobAt
  BY JobFacts
<1> USE <1>1 DEF Quiet, HasCopy, GoTo
<1>2. CASE Check(j) \/ ClearFiles(j)
  BY <1>2 DEF Check, ClearFiles
<1>3. CASE Validated(j) \/ StepFails(j)
  BY <1>3 DEF Validated, StepFails
<1>4. ASSUME NEW o \in Orders, RequestApply(j, o) \/ NightlyTake(j, o) PROVE Quiet(j)
  BY <1>4 DEF RequestApply, NightlyTake, TakeJob
<1>5. QED
  BY <1>2, <1>3, <1>4 DEF Staying

LEMMA LeavingLeaves ==
    ASSUME CertTypeInv, NEW j \in Jobs, Leaving(j)
    PROVE  Leaves(j)
<1>1. /\ j \in DOMAIN mem /\ j \in DOMAIN jobAt /\ j \in DOMAIN job /\ j \in DOMAIN order
      /\ j \in DOMAIN forced
  BY JobFacts
<1>2. QED
  BY <1>1 DEF Leaving, Leaves, LoseRenew, Die, FailApply, Over, Stops

LEMMA Kinds ==
    ASSUME NEW j \in Jobs, ToolStep(j) \/ \E o \in Orders : Asked(j, o)
    PROVE  Writing(j) \/ Reading(j) \/ Staying(j) \/ Leaving(j)
  BY DEF ToolStep, Asked, Writing, Reading, Staying, Leaving

(* What a step of any job does to the books.                               *)
BookStep(j) == (\E b : Writes(j, b)) \/ Reads(j) \/ Quiet(j) \/ Leaves(j)

LEMMA BookSteps ==
    ASSUME CertTypeInv, NEW j \in Jobs, ToolStep(j) \/ \E o \in Orders : Asked(j, o)
    PROVE  BookStep(j)
  BY Kinds, Written, ReadingReads, StayingIsQuiet, LeavingLeaves DEF BookStep

-----------------------------------------------------------------------------
(* Types. *)

LEMMA SaveTypes ==
    ASSUME CertTypeInv, NEW j \in Jobs, NEW b, Save(j, b)
    PROVE  /\ orderFile' = b /\ cut' \subseteq Sites /\ cut \subseteq cut'
           /\ outdated' \in [Jobs -> BOOLEAN] /\ clash' \in BOOLEAN
<1> DEFINE hit == {k \in Jobs : Renews(k) /\ order[k] \in DOMAIN orderFile \ DOMAIN b}
<1>1. cut' = cut \cup {Site(i) : i \in hit}
  BY DEF Save
<1>2. \A i \in hit : Site(i) \in Sites
  <2>1. \A i \in hit : order[i] \in Orders
    BY DEF CertTypeInv, JobShape, ShapeAt, Renews
  <2>2. QED
    BY <2>1, CertAssumption DEF Site
<1>3. cut \subseteq Sites
  BY DEF CertTypeInv, CertNames
<1> HIDE DEF hit
<1>4. cut' \subseteq Sites /\ cut \subseteq cut'
  BY <1>1, <1>2, <1>3
<1>5. outdated' \in [Jobs -> BOOLEAN]
  BY DEF Save
<1>6. clash' \in BOOLEAN
  BY DEF Save, CertTypeInv, CertFlags
<1>7. QED
  BY <1>4, <1>5, <1>6 DEF Save

LEMMA BookTypes ==
    ASSUME CertTypeInv, NEW j \in Jobs, ToolStep(j) \/ \E o \in Orders : Asked(j, o)
    PROVE  /\ CertBooks' /\ cut' \subseteq Sites /\ cut \subseteq cut'
           /\ outdated' \in [Jobs -> BOOLEAN] /\ clash' \in BOOLEAN
<1>0. CertBooks /\ cut \subseteq Sites /\ outdated \in [Jobs -> BOOLEAN] /\ clash \in BOOLEAN
  BY DEF CertTypeInv, CertNames, CertFlags
<1>1. DOMAIN mem' = Jobs /\ \A i \in Jobs \ {j} : mem'[i] = mem[i]
  BY OneJob DEF OthersKeep
<1>2. IsBook(orderFile') /\ IsBook(mem'[j]) => CertBooks'
  BY <1>0, <1>1 DEF CertBooks, IsBook
<1>3. ASSUME NEW b, Writes(j, b)
      PROVE  /\ IsBook(orderFile') /\ IsBook(mem'[j]) /\ cut' \subseteq Sites /\ cut \subseteq cut'
             /\ outdated' \in [Jobs -> BOOLEAN] /\ clash' \in BOOLEAN
  <2>1. Save(j, b) /\ IsBook(b) /\ (mem'[j] = b \/ mem'[j] = NoOrders)
    BY <1>3 DEF Writes, GoesOn, Stops
  <2>2. QED
    BY <2>1, SaveTypes, EmptyBook
<1>4. ASSUME Reads(j) \/ Quiet(j) \/ Leaves(j)
      PROVE  /\ IsBook(orderFile') /\ IsBook(mem'[j])
             /\ UNCHANGED <<cut, clash>> /\ outdated' \in [Jobs -> BOOLEAN]
  <2>1. orderFile' = orderFile /\ mem'[j] \in {orderFile, mem[j], NoOrders}
    BY <1>4 DEF Reads, Quiet, Leaves, Stops, bookVars
  <2>2. outdated' = outdated \/ outdated' = [outdated EXCEPT ![j] = FALSE]
    BY <1>4 DEF Reads, Quiet, Leaves, bookVars
  <2>3. UNCHANGED <<cut, clash>>
    BY <1>4 DEF Reads, Quiet, Leaves, bookVars
  <2>4. IsBook(orderFile') /\ IsBook(mem'[j])
    BY <1>0, <2>1, EmptyBook DEF CertBooks
  <2>5. outdated' \in [Jobs -> BOOLEAN]
    BY <1>0, <2>2
  <2>6. QED
    BY <2>3, <2>4, <2>5
<1>5. QED
  BY <1>0, <1>2, <1>3, <1>4, BookSteps DEF BookStep

LEMMA JobShapeStep ==
    ASSUME CertTypeInv, NEW j \in Jobs, ToolStep(j) \/ \E o \in Orders : Asked(j, o)
    PROVE  JobShape'
<1>1. /\ j \in DOMAIN job /\ j \in DOMAIN jobAt /\ j \in DOMAIN order /\ ShapeAt(j)
      /\ job[j] \in JobKinds
  BY DEF CertTypeInv, CertNames, JobShape
<1>2. ASSUME NEW i \in Jobs, i # j PROVE ShapeAt(i)'
  <2>1. ShapeAt(i) /\ job'[i] = job[i] /\ jobAt'[i] = jobAt[i] /\ order'[i] = order[i]
    BY <1>2, OneJob DEF OthersKeep, CertTypeInv, JobShape
  <2>2. QED
    BY <2>1 DEF ShapeAt, Renews
<1>3. ShapeAt(j)'
  <2> USE <1>1 DEF ShapeAt, Renews, GoTo, Over, TakeJob, Read, SaveOrder, JobKinds
  <2>1. CASE WriteAsked(j) \/ DropOrder(j)
    BY <2>1 DEF WriteAsked, DropOrder
  <2>2. CASE StartTool(j) \/ Check(j)
    BY <2>2 DEF StartTool, Check
  <2>3. CASE CreateOrder(j) \/ ClearFiles(j)
    BY <2>3 DEF CreateOrder, ClearFiles
  <2>4. CASE PlaceFile(j) \/ AlreadyValid(j) \/ Validated(j)
    BY <2>4 DEF PlaceFile, AlreadyValid, Validated
  <2>5. CASE GetCertificate(j) \/ Download(j)
    BY <2>5 DEF GetCertificate, Download
  <2>6. CASE InstallCert(j) \/ InstallFails(j)
    BY <2>6 DEF InstallCert, InstallFails
  <2>7. CASE Keep(j) \/ RenewDone(j)
    BY <2>7 DEF Keep, RenewDone
  <2>8. CASE StepFails(j) \/ FailApply(j)
    BY <2>8 DEF StepFails, FailApply
  <2>9. CASE CloseApply(j) \/ FailRenew(j) \/ LoseRenew(j) \/ Die(j)
    BY <2>9 DEF CloseApply, FailRenew, LoseRenew, Die
  <2>10. ASSUME NEW o \in Orders, RequestApply(j, o) \/ RequestRenew(j, o) PROVE ShapeAt(j)'
    BY <2>10 DEF RequestApply, RequestRenew
  <2>11. ASSUME NEW o \in Orders, RequestDelete(j, o) \/ NightlyTake(j, o) PROVE ShapeAt(j)'
    BY <2>11 DEF RequestDelete, NightlyTake
  <2>12. QED
    BY <2>1, <2>2, <2>3, <2>4, <2>5, <2>6, <2>7, <2>8, <2>9, <2>10, <2>11 DEF ToolStep, Asked
<1>4. QED
  BY <1>2, <1>3 DEF JobShape

(* A step that saves leaves the row of its order in the copy, unless it     *)
(* ends the job or gives the copy up.                                      *)
LEMMA RowStep ==
    ASSUME CertTypeInv, NEW j \in Jobs, ToolStep(j) \/ \E o \in Orders : Asked(j, o)
    PROVE  RowInCopy'
<1>1. /\ j \in DOMAIN job /\ j \in DOMAIN jobAt /\ j \in DOMAIN order /\ ShapeAt(j)
      /\ job[j] \in JobKinds /\ (NeedsRow(j) => order[j] \in DOMAIN mem[j])
  BY DEF CertTypeInv, CertNames, JobShape, RowInCopy
<1>2. ASSUME NEW i \in Jobs, i # j, NeedsRow(i)' PROVE order'[i] \in DOMAIN mem'[i]
  <2>1. job'[i] = job[i] /\ jobAt'[i] = jobAt[i] /\ order'[i] = order[i] /\ mem'[i] = mem[i]
    BY <1>2, OneJob DEF OthersKeep
  <2>2. NeedsRow(i)
    BY <1>2, <2>1 DEF NeedsRow, Renews
  <2>3. QED
    BY <2>1, <2>2 DEF CertTypeInv, RowInCopy
<1>3. ASSUME NeedsRow(j)' PROVE order'[j] \in DOMAIN mem'[j]
  <2>1. CASE Writing(j)
    <3>1. PICK b : Writes(j, b)
      BY <2>1, Written
    <3>2. CASE Stops(j)
      BY <1>3, <3>2 DEF NeedsRow, Stops
    <3>3. CASE GoesOn(j, b)
      <4>1. jobAt'[j] = "start" \/ mem'[j] = b
        BY <3>3 DEF GoesOn
      <4>2. mem'[j] = b
        BY <1>3, <4>1 DEF NeedsRow
      <4>3. job[j] # "delete"
        <5>1. ShapeAt(j)'
          BY JobShapeStep DEF JobShape
        <5>2. job'[j] = job[j]
          BY <3>3 DEF GoesOn
        <5>3. job[j] = "delete" => jobAt[j] = "drop"
          BY <1>1 DEF ShapeAt
        <5>4. jobAt[j] = "drop" => DropOrder(j)
          BY <2>1 DEF Writing, WriteAsked, CreateOrder, PlaceFile, AlreadyValid, GetCertificate,
                      Download, Keep, RenewDone, CloseApply, FailRenew
        <5>5. DropOrder(j) => job'[j] = "none"
          BY <1>1 DEF DropOrder, Over
        <5>6. QED
          BY <5>2, <5>3, <5>4, <5>5
      <4>4. QED
        BY <3>1, <3>3, <4>2, <4>3 DEF Writes, OwnRow, GoesOn
    <3>4. QED
      BY <3>1, <3>2, <3>3 DEF Writes
  <2>2. CASE Reading(j)
    <3>1. mem'[j] = orderFile
      BY <2>2, ReadingReads DEF Reads
    <3> USE <1>1, <1>3, <3>1 DEF NeedsRow, Renews, Read
    <3>2. CASE StartTool(j)
      BY <3>2 DEF StartTool
    <3>3. CASE InstallCert(j) \/ InstallFails(j)
      BY <3>3 DEF InstallCert, InstallFails
    <3>4. CASE FailApply(j) /\ order[j] \in DOMAIN orderFile
      BY <3>4 DEF FailApply
    <3>5. ASSUME NEW o \in Orders, RequestRenew(j, o) \/ RequestDelete(j, o)
          PROVE  order'[j] \in DOMAIN mem'[j]
      BY <3>5 DEF RequestRenew, RequestDelete, TakeJob
    <3>6. QED
      BY <2>2, <3>2, <3>3, <3>4, <3>5 DEF Reading
  <2>3. CASE Staying(j)
    <3>1. mem'[j] = mem[j]
      BY <2>3, StayingIsQuiet DEF Quiet
    <3> USE <1>1, <1>3, <3>1 DEF NeedsRow, Renews, GoTo
    <3>2. CASE Check(j) \/ ClearFiles(j)
      BY <3>2 DEF Check, ClearFiles
    <3>3. CASE Validated(j) \/ StepFails(j)
      BY <3>3 DEF Validated, StepFails
    <3>4. ASSUME NEW o \in Orders, RequestApply(j, o) \/ NightlyTake(j, o)
          PROVE  order'[j] \in DOMAIN mem'[j]
      BY <3>4 DEF RequestApply, NightlyTake
    <3>5. QED
      BY <2>3, <3>2, <3>3, <3>4 DEF Staying
  <2>4. CASE Leaving(j)
    BY <1>3, <2>4, LeavingLeaves DEF Leaves, Stops, NeedsRow
  <2>5. QED
    BY <2>1, <2>2, <2>3, <2>4, Kinds
<1>4. QED
  BY <1>2, <1>3 DEF RowInCopy

LEMMA NameTypes ==
    ASSUME CertTypeInv, NEW j \in Jobs, ToolStep(j) \/ \E o \in Orders : Asked(j, o)
    PROVE  CertNames' /\ CertFlags'
<1>0. CertNames /\ CertFlags /\ ShapeAt(j) /\ (jobAt[j] # "idle" => order[j] \in Orders)
  BY DEF CertTypeInv, JobShape, ShapeAt
<1>s. order[j] \in Orders => Site(j) \in Sites
  BY CertAssumption DEF Site
<1>b. cut' \subseteq Sites /\ outdated' \in [Jobs -> BOOLEAN] /\ clash' \in BOOLEAN
  BY BookTypes
<1>m. MaxAsks \in Nat
  BY CertAssumption
<1>1. /\ job' \in [Jobs -> JobKinds] /\ jobAt' \in [Jobs -> Steps]
      /\ order' \in [Jobs -> Orders \cup {NoOrder}] /\ forced' \in [Jobs -> BOOLEAN]
  <2> DEFINE Ok == /\ job' \in [Jobs -> JobKinds] /\ jobAt' \in [Jobs -> Steps]
                   /\ order' \in [Jobs -> Orders \cup {NoOrder}] /\ forced' \in [Jobs -> BOOLEAN]
  <2>1. ASSUME NEW next \in Steps, GoTo(j, next) PROVE Ok
    BY <1>0, <2>1 DEF CertNames, CertFlags, GoTo
  <2>2. ASSUME Over(j) PROVE Ok
    BY <1>0, <2>2 DEF CertNames, CertFlags, Over, JobKinds, Steps
  <2>3. CASE \/ WriteAsked(j) \/ CreateOrder(j) \/ ClearFiles(j) \/ PlaceFile(j) \/ AlreadyValid(j)
             \/ Validated(j) \/ GetCertificate(j) \/ Download(j) \/ StepFails(j)
    <3>1. \E next \in Steps : GoTo(j, next)
      BY <2>3 DEF WriteAsked, CreateOrder, ClearFiles, PlaceFile, AlreadyValid, Validated,
                  GetCertificate, Download, StepFails, SaveOrder, Steps
    <3>2. QED
      BY <2>1, <3>1
  <2>4. CASE DropOrder(j) \/ Keep(j) \/ RenewDone(j) \/ CloseApply(j) \/ FailRenew(j) \/ LoseRenew(j) \/ Die(j)
    <3>1. (\E next \in Steps : GoTo(j, next)) \/ Over(j)
      BY <2>4 DEF DropOrder, Keep, RenewDone, CloseApply, FailRenew, LoseRenew, Die, Steps
    <3>2. QED
      BY <2>1, <2>2, <3>1
  <2>5. CASE StartTool(j) \/ Check(j) \/ InstallCert(j) \/ InstallFails(j)
    <3>1. CASE StartTool(j)
      BY <1>0, <1>s, <3>1 DEF CertNames, CertFlags, StartTool, Read, Steps
    <3>2. CASE Check(j)
      BY <1>0, <1>s, <3>2 DEF CertNames, CertFlags, Check, Read, Steps
    <3>3. CASE InstallCert(j)
      BY <1>0, <1>s, <3>3 DEF CertNames, CertFlags, InstallCert, Read, Steps
    <3>4. CASE InstallFails(j)
      BY <1>0, <1>s, <3>4 DEF CertNames, CertFlags, InstallFails, Read, Steps
    <3>5. QED
      BY <2>5, <3>1, <3>2, <3>3, <3>4
  <2>6. CASE FailApply(j)
    BY <1>0, <2>2, <2>6 DEF CertNames, CertFlags, FailApply, Read, Steps
  <2>7. ASSUME NEW o \in Orders, Asked(j, o) PROVE Ok
    <3>1. PICK k \in JobKinds : TakeJob(j, k, o)
      BY <2>7 DEF Asked, RequestApply, RequestRenew, RequestDelete, NightlyTake, JobKinds
    <3>2. \E next \in Steps : jobAt' = [jobAt EXCEPT ![j] = next]
      BY <2>7 DEF Asked, RequestApply, RequestRenew, RequestDelete, NightlyTake, Read, Steps
    <3>3. jobAt' \in [Jobs -> Steps]
      BY <1>0, <3>2 DEF CertNames
    <3>4. QED
      BY <1>0, <3>1, <3>3 DEF CertNames, CertFlags, TakeJob
  <2>8. QED
    BY <2>3, <2>4, <2>5, <2>6, <2>7 DEF ToolStep
<1>2. /\ dir' \in [Orders -> Ages] /\ siteCert' \in [Sites -> (Orders \cup {NoOrder}) \X Ages]
      /\ chal' \in [Sites -> SUBSET Jobs]
      /\ force' \in [Sites -> BOOLEAN] /\ wish' \in [Sites -> BOOLEAN] /\ renewed' \subseteq Sites
  <2> DEFINE Ok == /\ dir' \in [Orders -> Ages]
                   /\ siteCert' \in [Sites -> (Orders \cup {NoOrder}) \X Ages]
                   /\ chal' \in [Sites -> SUBSET Jobs]
                   /\ force' \in [Sites -> BOOLEAN] /\ wish' \in [Sites -> BOOLEAN]
                   /\ renewed' \subseteq Sites
  <2> USE <1>0, <1>s DEF CertNames, CertFlags, siteVars, restVars
  <2>1. CASE WriteAsked(j) \/ DropOrder(j) \/ StartTool(j) \/ CreateOrder(j) \/ AlreadyValid(j)
    BY <2>1 DEF WriteAsked, DropOrder, StartTool, CreateOrder, AlreadyValid
  <2>2. CASE Validated(j) \/ GetCertificate(j) \/ InstallFails(j) \/ Keep(j)
    BY <2>2 DEF Validated, GetCertificate, InstallFails, Keep
  <2>3. CASE StepFails(j) \/ FailApply(j) \/ CloseApply(j) \/ LoseRenew(j) \/ Die(j)
    BY <2>3 DEF StepFails, FailApply, CloseApply, LoseRenew, Die
  <2>4. CASE Check(j)
    BY <2>4 DEF Check
  <2>5. CASE ClearFiles(j)
    BY <2>5 DEF ClearFiles
  <2>6. CASE PlaceFile(j)
    BY <2>6 DEF PlaceFile
  <2>7. CASE Download(j)
    <3>1. dir' = dir \/ dir' = [dir EXCEPT ![order[j]] = "fresh"]
      BY <2>7 DEF Download
    <3>2. dir' \in [Orders -> Ages]
      BY <3>1 DEF Ages
    <3>3. QED
      BY <2>7, <3>2 DEF Download
  <2>8. CASE InstallCert(j)
    <3>1. order[j] \in Orders
      BY <2>8 DEF InstallCert
    <3>2. <<order[j], dir[order[j]]>> \in (Orders \cup {NoOrder}) \X Ages
      BY <3>1
    <3>3. siteCert' = [siteCert EXCEPT ![Site(j)] = <<order[j], dir[order[j]]>>]
      BY <2>8 DEF InstallCert
    <3>4. siteCert' \in [Sites -> (Orders \cup {NoOrder}) \X Ages]
      BY <3>2, <3>3
    <3>5. QED
      BY <2>8, <3>4 DEF InstallCert
  <2>9. CASE RenewDone(j)
    BY <2>9 DEF RenewDone
  <2>10. CASE FailRenew(j)
    BY <2>10 DEF FailRenew
  <2>11. ASSUME NEW o \in Orders, Asked(j, o) PROVE Ok
    <3>1. dir' \in [Orders -> Ages]
      BY <2>11 DEF Asked, RequestApply, RequestRenew, RequestDelete, NightlyTake, Ages
    <3>2. QED
      BY <2>11, <3>1 DEF Asked, RequestApply, RequestRenew, RequestDelete, NightlyTake
  <2>12. QED
    BY <2>1, <2>2, <2>3, <2>4, <2>5, <2>6, <2>7, <2>8, <2>9, <2>10, <2>11 DEF ToolStep
<1>3. /\ given' \subseteq Orders /\ nightly' \subseteq Orders /\ wants' \in 0..MaxAsks
      /\ killed' \subseteq Orders
  <2> USE <1>0, <1>m DEF CertNames, restVars
  <2>1. CASE Writing(j)
    BY <2>1 DEF Writing, WriteAsked, DropOrder, CreateOrder, PlaceFile, AlreadyValid,
                GetCertificate, Download, Keep, RenewDone, CloseApply, FailRenew
  <2>2. CASE StartTool(j) \/ InstallCert(j) \/ InstallFails(j) \/ FailApply(j) \/ LoseRenew(j)
    BY <2>2 DEF StartTool, InstallCert, InstallFails, FailApply, LoseRenew
  <2>6. CASE Die(j)
    BY <2>6 DEF Die, Ask
  <2>3. CASE Check(j) \/ ClearFiles(j) \/ Validated(j) \/ StepFails(j)
    BY <2>3 DEF Check, ClearFiles, Validated, StepFails
  <2>4. ASSUME NEW o \in Orders, Asked(j, o)
        PROVE  /\ given' \subseteq Orders /\ nightly' \subseteq Orders /\ wants' \in 0..MaxAsks
               /\ killed' \subseteq Orders
    BY <2>4 DEF Asked, RequestApply, RequestRenew, RequestDelete, NightlyTake, Ask
  <2>5. QED
    BY <2>1, <2>2, <2>3, <2>4, <2>6 DEF ToolStep, Writing
<1>4. QED
  BY <1>b, <1>1, <1>2, <1>3 DEF CertNames, CertFlags

LEMMA AgedBook ==
    ASSUME NEW b, IsBook(b)
    PROVE  LET c == [o \in DOMAIN b |-> [b[o] EXCEPT !.expiry = Aged(@)]]
           IN  /\ IsBook(c) /\ DOMAIN c = DOMAIN b
               /\ \A o \in DOMAIN b : c[o].over = b[o].over /\ c[o].renew = b[o].renew
<1> DEFINE f(o) == [b[o] EXCEPT !.expiry = Aged(@)]
<1>1. ASSUME NEW o \in DOMAIN b
      PROVE  f(o) \in OrderRows /\ f(o).over = b[o].over /\ f(o).renew = b[o].renew
  <2>1. b[o] \in OrderRows
    BY DEF IsBook
  <2>2. QED
    BY <2>1 DEF OrderRows, Aged
<1> HIDE DEF f
<1> DEFINE c == [o \in DOMAIN b |-> f(o)]
<1>2. /\ IsBook(c) /\ DOMAIN c = DOMAIN b
      /\ \A o \in DOMAIN b : c[o].over = b[o].over /\ c[o].renew = b[o].renew
  BY <1>1 DEF IsBook
<1>3. QED
  BY <1>2 DEF f

(* What time does.                                                         *)
LEMMA AgeFacts ==
    ASSUME CertTypeInv, Age
    PROVE  /\ IsBook(orderFile') /\ DOMAIN orderFile' = DOMAIN orderFile
           /\ \A o \in DOMAIN orderFile :
                orderFile'[o].over = orderFile[o].over /\ orderFile'[o].renew = orderFile[o].renew
           /\ AllIdle
<1>1. IsBook(orderFile)
  BY DEF CertTypeInv, CertBooks
<1>2. orderFile' = [o \in DOMAIN orderFile |-> [orderFile[o] EXCEPT !.expiry = Aged(@)]]
  BY DEF Age
<1>3. QED
  BY <1>1, <1>2, AgedBook DEF Age

(* The steps that are no job's.                                            *)
Aside == NightlyList \/ (\E o \in Orders : Deploy(o)) \/ (\E s \in Sites : SelfSign(s)) \/ Age

LEMMA AsideFacts ==
    ASSUME Aside
    PROVE  /\ UNCHANGED toolVars /\ UNCHANGED <<outdated, clash, cut, force, chal, given, wish, renewed, killed>>
           /\ (orderFile' = orderFile \/ Age)
           /\ nightly' = nightly \/ nightly' \subseteq DOMAIN orderFile
  BY DEF Aside, NightlyList, Deploy, SelfSign, Age, toolVars, bookVars, siteVars, restVars

LEMMA AsideTypes ==
    ASSUME CertTypeInv, Aside
    PROVE  CertTypeInv'
<1>0. CertNames /\ CertFlags /\ CertBooks /\ MaxAsks \in Nat /\ SiteOf \in [Orders -> Sites]
  BY CertAssumption DEF CertTypeInv
<1>1. UNCHANGED <<job, jobAt, order, mem, forced, outdated, clash, cut, force, chal, given, wish, renewed, killed>>
  BY AsideFacts DEF toolVars
<1>2. JobShape' /\ RowInCopy'
  BY <1>1 DEF CertTypeInv, JobShape, ShapeAt, RowInCopy, NeedsRow, Renews
<1>3. CertFlags'
  BY <1>0, <1>1 DEF CertFlags
<1>4. CertBooks'
  <2>1. IsBook(orderFile')
    BY <1>0, AsideFacts, AgeFacts DEF CertBooks
  <2>2. QED
    BY <1>0, <1>1, <2>1 DEF CertBooks, IsBook
<1>5. nightly' \subseteq Orders
  BY <1>0, AsideFacts DEF CertNames, CertBooks, IsBook
<1>6. wants' \in 0..MaxAsks
  BY <1>0 DEF CertNames, Aside, NightlyList, Deploy, SelfSign, Age, Ask, restVars
<1>7. dir' \in [Orders -> Ages]
  BY <1>0 DEF CertNames, Aside, NightlyList, Deploy, SelfSign, Age, Ages, Aged, siteVars
<1>8. siteCert' \in [Sites -> (Orders \cup {NoOrder}) \X Ages]
  <2>1. CASE NightlyList
    BY <1>0, <2>1 DEF CertNames, NightlyList, siteVars
  <2>2. ASSUME NEW o \in Orders, Deploy(o) PROVE siteCert' \in [Sites -> (Orders \cup {NoOrder}) \X Ages]
    <3>1. <<o, dir[o]>> \in (Orders \cup {NoOrder}) \X Ages
      BY <1>0 DEF CertNames
    <3>2. QED
      BY <1>0, <2>2, <3>1 DEF CertNames, Deploy
  <2>3. ASSUME NEW s \in Sites, SelfSign(s) PROVE siteCert' \in [Sites -> (Orders \cup {NoOrder}) \X Ages]
    <3>1. <<NoOrder, "own">> \in (Orders \cup {NoOrder}) \X Ages
      BY DEF Ages
    <3>2. QED
      BY <1>0, <2>3, <3>1 DEF CertNames, SelfSign
  <2>4. CASE Age
    <3>1. \A s \in Sites : siteCert[s][1] \in Orders \cup {NoOrder} /\ siteCert[s][2] \in Ages
      BY <1>0 DEF CertNames
    <3>2. \A a \in Ages : Aged(a) \in Ages
      BY DEF Aged, Ages
    <3>3. siteCert' = [s \in Sites |-> <<siteCert[s][1], Aged(siteCert[s][2])>>]
      BY <2>4 DEF Age
    <3>4. QED
      BY <3>1, <3>2, <3>3
  <2>5. QED
    BY <2>1, <2>2, <2>3, <2>4 DEF Aside
<1>9. CertNames'
  BY <1>0, <1>1, <1>5, <1>6, <1>7, <1>8 DEF CertNames
<1>10. QED
  BY <1>2, <1>3, <1>4, <1>9 DEF CertTypeInv

LEMMA CertTypeInit == CertInit => CertTypeInv
<1> SUFFICES ASSUME CertInit PROVE CertTypeInv
  OBVIOUS
<1>1. CertNames
  BY CertAssumption DEF CertInit, CertNames, Ages, JobKinds, Steps
<1>2. CertFlags
  BY DEF CertInit, CertFlags
<1>3. CertBooks
  BY EmptyBook DEF CertInit, CertBooks
<1>4. JobShape /\ RowInCopy
  BY DEF CertInit, JobShape, ShapeAt, RowInCopy, NeedsRow, Renews
<1>5. QED
  BY <1>1, <1>2, <1>3, <1>4 DEF CertTypeInv

LEMMA CertTypeStep == CertTypeInv /\ [CertNext]_certVars => CertTypeInv'
<1> SUFFICES ASSUME CertTypeInv, [CertNext]_certVars PROVE CertTypeInv'
  OBVIOUS
<1>1. ASSUME NEW j \in Jobs, ToolStep(j) \/ \E o \in Orders : Asked(j, o) PROVE CertTypeInv'
  BY <1>1, NameTypes, BookTypes, JobShapeStep, RowStep DEF CertTypeInv
<1>2. CASE Aside
  BY <1>2, AsideTypes
<1>3. CASE UNCHANGED certVars
  <2>1. UNCHANGED <<job, jobAt, order, mem, forced, orderFile, outdated, clash, cut>>
    BY <1>3 DEF certVars, toolVars, bookVars
  <2>2. UNCHANGED <<dir, siteCert, force, chal, given, nightly, wish, renewed, wants, killed>>
    BY <1>3 DEF certVars, siteVars, restVars
  <2>3. CertNames' /\ CertFlags' /\ CertBooks'
    BY <2>1, <2>2 DEF CertTypeInv, CertNames, CertFlags, CertBooks, IsBook
  <2>4. QED
    BY <2>1, <2>3 DEF CertTypeInv, JobShape, ShapeAt, RowInCopy, NeedsRow, Renews
<1>4. QED
  BY <1>1, <1>2, <1>3 DEF CertNext, Asked, Aside

\* Every variable of CertOrders has its type, for any number of jobs, orders,
\* sites and requests.
THEOREM CertTypeCorrect == CertSpec => []CertTypeOK
<1>1. CertTypeInv => CertTypeOK
  BY DEF CertTypeInv, CertNames, CertFlags, CertBooks, CertTypeOK
<1>2. QED
  BY <1>1, CertTypeInit, CertTypeStep, PTL DEF CertSpec

-----------------------------------------------------------------------------
(* The orders a job may know of. *)

OrderInv == CertTypeInv /\ OrdersKnown /\ NewOrders

(* An application that has saved is past its creation.                     *)
LEMMA WritingCreates ==
    ASSUME CertTypeInv, NEW j \in Jobs, Writing(j)
    PROVE  ~Creates(j)'
<1>0. /\ j \in DOMAIN job /\ j \in DOMAIN order /\ j \in DOMAIN jobAt /\ j \in DOMAIN mem
      /\ ShapeAt(j)
  BY JobFacts DEF CertTypeInv, JobShape
<1> USE <1>0 DEF Creates, ShapeAt, SaveOrder, GoTo, Over
<1>1. CASE WriteAsked(j) \/ DropOrder(j) \/ CreateOrder(j)
  BY <1>1 DEF WriteAsked, DropOrder, CreateOrder
<1>2. CASE PlaceFile(j) \/ AlreadyValid(j) \/ GetCertificate(j) \/ Download(j)
  BY <1>2 DEF PlaceFile, AlreadyValid, GetCertificate, Download
<1>3. CASE Keep(j) \/ RenewDone(j) \/ CloseApply(j) \/ FailRenew(j)
  BY <1>3 DEF Keep, RenewDone, CloseApply, FailRenew
<1>4. QED
  BY <1>1, <1>2, <1>3 DEF Writing

(* Which numbers a step gives out, lists or takes up.                      *)
LEMMA NumberStep ==
    ASSUME OrderInv, NEW j \in Jobs, ToolStep(j) \/ \E o \in Orders : Asked(j, o)
    PROVE  /\ given \subseteq given' /\ nightly' \subseteq nightly /\ wish' = wish
           /\ \/ order'[j] = order[j] /\ job'[j] = job[j]
              \/ order'[j] = NoOrder /\ job'[j] = "none"
              \/ order'[j] \in DOMAIN orderFile \cup nightly /\ job'[j] # "apply"
              \/ jobAt[j] = "idle" /\ order'[j] \in Orders \ given /\ given' = given \cup {order'[j]}
                 /\ UNCHANGED <<orderFile, nightly>> /\ mem'[j] = mem[j]
           /\ Creates(j)' => \/ Creates(j) /\ order'[j] = order[j]
                             \/ order'[j] \in Orders \ given
<1>0. /\ j \in DOMAIN job /\ j \in DOMAIN order /\ j \in DOMAIN jobAt /\ j \in DOMAIN mem
      /\ ShapeAt(j)
  BY JobFacts DEF OrderInv, CertTypeInv, JobShape
<1>1. CASE Writing(j)
  <2>1. PICK b : Writes(j, b)
    BY <1>1, Written DEF OrderInv
  <2>2. ~Creates(j)'
    BY <1>1, WritingCreates DEF OrderInv
  <2>3. QED
    BY <2>1, <2>2 DEF Writes, GoesOn, Stops
<1>2. CASE StartTool(j) \/ InstallCert(j) \/ InstallFails(j)
  BY <1>0, <1>2 DEF StartTool, InstallCert, InstallFails, Read, Creates, restVars
<1>3. CASE FailApply(j) \/ LoseRenew(j) \/ Die(j)
  BY <1>0, <1>3 DEF FailApply, LoseRenew, Die, Read, Over, Creates, restVars
<1>4. CASE Check(j) \/ ClearFiles(j) \/ Validated(j) \/ StepFails(j)
  BY <1>0, <1>4 DEF Check, ClearFiles, Validated, StepFails, GoTo, Creates, restVars, ShapeAt, Renews
<1>5. ASSUME NEW o \in Orders, RequestApply(j, o)
      PROVE  /\ jobAt[j] = "idle" /\ order'[j] \in Orders \ given /\ given' = given \cup {order'[j]}
             /\ UNCHANGED <<orderFile, nightly>> /\ mem'[j] = mem[j] /\ wish' = wish
  BY <1>0, <1>5 DEF RequestApply, TakeJob, bookVars
<1>6. ASSUME NEW o \in Orders, RequestRenew(j, o) \/ RequestDelete(j, o) \/ NightlyTake(j, o)
      PROVE  /\ given' = given /\ nightly' \subseteq nightly /\ wish' = wish
             /\ order'[j] \in DOMAIN orderFile \cup nightly /\ job'[j] # "apply"
  BY <1>0, <1>6 DEF RequestRenew, RequestDelete, NightlyTake, TakeJob
<1>7. QED
  BY <1>1, <1>2, <1>3, <1>4, <1>5, <1>6 DEF ToolStep, Asked, Writing, Creates

(* No order appears in the file or in a copy that was in neither, but the  *)
(* one its application creates.                                            *)
LEMMA KnownRows ==
    ASSUME OrderInv, NEW j \in Jobs, ToolStep(j) \/ \E o \in Orders : Asked(j, o), NEW o,
           o \in DOMAIN orderFile' \/ o \in DOMAIN mem'[j]
    PROVE  o \in DOMAIN orderFile \/ o \in DOMAIN mem[j] \/ (o = order[j] /\ order[j] \in Orders)
<1>1. ASSUME NEW b, Writes(j, b)
      PROVE  o \in DOMAIN mem[j] \/ (o = order[j] /\ order[j] \in Orders)
  <2>1. orderFile' = b /\ (mem'[j] = b \/ mem'[j] = NoOrders)
    BY <1>1 DEF Writes, Save, GoesOn, Stops
  <2>2. o \in DOMAIN b
    BY <2>1, EmptyBook
  <2>3. order[j] \in Orders
    BY <1>1, JobFacts DEF Writes, HasCopy, OrderInv
  <2>4. QED
    BY <1>1, <2>2, <2>3 DEF Writes, OtherRows
<1>2. ASSUME Reads(j) \/ Quiet(j) \/ Leaves(j)
      PROVE  o \in DOMAIN orderFile \/ o \in DOMAIN mem[j]
  BY <1>2, EmptyBook DEF Reads, Quiet, Leaves, Stops, bookVars
<1>3. QED
  BY <1>1, <1>2, BookSteps DEF BookStep, OrderInv

LEMMA OrdersKnownStep ==
    ASSUME OrderInv, NEW j \in Jobs, ToolStep(j) \/ \E o \in Orders : Asked(j, o)
    PROVE  OrdersKnown'
<1>0. OrdersKnown /\ NoOrder \notin Orders /\ given \subseteq Orders
  BY CertAssumption DEF OrderInv, CertTypeInv, CertNames
<1>1. given \subseteq given' /\ nightly' \subseteq given'
  BY <1>0, NumberStep DEF OrdersKnown
<1>2. order'[j] \in given' \cup {NoOrder}
  BY <1>0, NumberStep DEF OrdersKnown
<1>3. DOMAIN orderFile' \subseteq given' /\ DOMAIN mem'[j] \subseteq given'
  BY <1>0, <1>1, KnownRows DEF OrdersKnown
<1>4. \A i \in Jobs \ {j} : mem'[i] = mem[i] /\ order'[i] = order[i]
  BY OneJob DEF OthersKeep, OrderInv
<1>5. QED
  BY <1>0, <1>1, <1>2, <1>3, <1>4 DEF OrdersKnown

LEMMA NewOrdersStep ==
    ASSUME OrderInv, NEW j \in Jobs, ToolStep(j) \/ \E o \in Orders : Asked(j, o)
    PROVE  NewOrders'
<1>0. OrdersKnown /\ NewOrders /\ NoOrder \notin Orders /\ given \subseteq Orders
  BY CertAssumption DEF OrderInv, CertTypeInv, CertNames
<1>1. \A i \in Jobs \ {j} : /\ mem'[i] = mem[i] /\ order'[i] = order[i]
                            /\ job'[i] = job[i] /\ jobAt'[i] = jobAt[i]
  BY OneJob DEF OthersKeep, OrderInv
<1>2. \A k \in Jobs : Creates(k) => order[k] \in Orders /\ order[k] \in given
  BY <1>0 DEF Creates, OrdersKnown, OrderInv, CertTypeInv, JobShape, ShapeAt
<1>3. ASSUME NEW k \in Jobs, k # j, Creates(k)'
      PROVE  /\ order'[k] \notin DOMAIN orderFile' /\ order'[k] \notin nightly'
             /\ \A i \in Jobs : order'[k] \notin DOMAIN mem'[i] /\ (i # k => order'[i] # order'[k])
  <2>1. Creates(k) /\ order'[k] = order[k]
    BY <1>1, <1>3 DEF Creates
  <2>2. order[k] \notin DOMAIN orderFile' /\ order[k] \notin DOMAIN mem'[j]
    BY <1>0, <1>3, <2>1, KnownRows DEF NewOrders
  <2>3. order[k] \notin nightly'
    BY <1>0, <2>1, NumberStep DEF NewOrders
  <2>4. order'[j] # order[k]
    BY <1>0, <1>2, <1>3, <2>1, NumberStep DEF NewOrders
  <2>5. \A i \in Jobs : order[k] \notin DOMAIN mem[i] /\ (i # k => order[i] # order[k])
    BY <1>0, <2>1 DEF NewOrders
  <2>6. QED
    BY <1>1, <1>3, <2>1, <2>2, <2>3, <2>4, <2>5
<1>4. ASSUME Creates(j)', Creates(j), order'[j] = order[j]
      PROVE  /\ order'[j] \notin DOMAIN orderFile' /\ order'[j] \notin nightly'
             /\ \A i \in Jobs : order'[j] \notin DOMAIN mem'[i] /\ (i # j => order'[i] # order'[j])
  <2>1. /\ order[j] \notin DOMAIN orderFile /\ order[j] \notin nightly
        /\ \A i \in Jobs : order[j] \notin DOMAIN mem[i] /\ (i # j => order[i] # order[j])
    BY <1>0, <1>4 DEF NewOrders
  <2>2. order[j] \notin nightly'
    BY <2>1, NumberStep
  <2>3. order[j] \notin DOMAIN orderFile' /\ order[j] \notin DOMAIN mem'[j]
    <3>1. ~Writing(j)
      BY <1>4, WritingCreates DEF OrderInv
    <3>2. QED
      BY <2>1, <3>1, Kinds, ReadingReads, StayingIsQuiet, LeavingLeaves, EmptyBook
         DEF Reads, Quiet, Leaves, Stops, bookVars, OrderInv
  <2>4. QED
    BY <1>1, <1>4, <2>1, <2>2, <2>3
<1>5. ASSUME Creates(j)', order'[j] \in Orders \ given
      PROVE  /\ order'[j] \notin DOMAIN orderFile' /\ order'[j] \notin nightly'
             /\ \A i \in Jobs : order'[j] \notin DOMAIN mem'[i] /\ (i # j => order'[i] # order'[j])
  <2>1. order'[j] \notin nightly'
    BY <1>0, <1>5, NumberStep DEF OrdersKnown
  <2>2. \A i \in Jobs : order[i] \in given \cup {NoOrder} /\ DOMAIN mem[i] \subseteq given
    BY <1>0 DEF OrdersKnown
  <2>3. order'[j] \notin DOMAIN orderFile' /\ order'[j] \notin DOMAIN mem'[j]
    BY <1>0, <1>5, <2>2, KnownRows DEF OrdersKnown
  <2>4. QED
    BY <1>0, <1>1, <1>5, <2>1, <2>2, <2>3
<1>6. QED
  BY <1>3, <1>4, <1>5, NumberStep DEF NewOrders

LEMMA AsideOrders ==
    ASSUME OrderInv, Aside
    PROVE  OrdersKnown' /\ NewOrders'
<1>1. UNCHANGED <<job, jobAt, order, mem, given>>
  BY AsideFacts DEF toolVars
<1>2. DOMAIN orderFile' = DOMAIN orderFile
  BY AsideFacts, AgeFacts DEF OrderInv
<1>3. nightly' = nightly \/ nightly' \subseteq DOMAIN orderFile
  BY AsideFacts
<1>4. OrdersKnown'
  BY <1>1, <1>2, <1>3 DEF OrderInv, OrdersKnown
<1>5. NewOrders'
  BY <1>1, <1>2, <1>3 DEF OrderInv, NewOrders, Creates
<1>6. QED
  BY <1>4, <1>5

LEMMA OrderStep == OrderInv /\ [CertNext]_certVars => OrderInv'
<1> SUFFICES ASSUME OrderInv, [CertNext]_certVars PROVE OrderInv'
  OBVIOUS
<1>1. CertTypeInv'
  BY CertTypeStep DEF OrderInv
<1>2. ASSUME NEW j \in Jobs, ToolStep(j) \/ \E o \in Orders : Asked(j, o)
      PROVE  OrdersKnown' /\ NewOrders'
  BY <1>2, OrdersKnownStep, NewOrdersStep
<1>3. CASE Aside
  BY <1>1, <1>3, AsideOrders DEF OrderInv
<1>4. CASE UNCHANGED certVars
  <2>1. UNCHANGED <<job, jobAt, order, mem, orderFile, given, nightly>>
    BY <1>4 DEF certVars, toolVars, bookVars, restVars
  <2>2. OrdersKnown'
    BY <2>1 DEF OrderInv, OrdersKnown
  <2>3. NewOrders'
    BY <2>1 DEF OrderInv, NewOrders, Creates
  <2>4. QED
    BY <1>1, <2>2, <2>3 DEF OrderInv
<1>5. QED
  BY <1>1, <1>2, <1>3, <1>4 DEF OrderInv, CertNext, Asked, Aside

-----------------------------------------------------------------------------
(* The copies, and what becomes of an order or a redirection under way. *)

CopyInv == OrderInv /\ Copies /\ NotCutOff
ForceInv == CopyInv /\ Redirections /\ PutOff

LEMMA CopiesStep ==
    ASSUME CopyInv, NEW j \in Jobs, ToolStep(j) \/ \E o \in Orders : Asked(j, o)
    PROVE  Copies'
<1>0. CertTypeInv /\ Copies /\ outdated \in [Jobs -> BOOLEAN]
  BY DEF CopyInv, OrderInv, CertTypeInv, CertFlags
<1>1. ASSUME NEW i \in Jobs, i # j
      PROVE  mem'[i] = mem[i] /\ (HasCopy(i)' <=> HasCopy(i))
  BY <1>0, <1>1, OneJob DEF OthersKeep, HasCopy
<1>2. ASSUME NEW b, Writes(j, b)
      PROVE  Copies'
  <2>1. /\ orderFile' = b
        /\ outdated' = [i \in Jobs |-> i # j /\ (outdated[i] \/ (HasCopy(i) /\ b # orderFile))]
    BY <1>2 DEF Writes, Save
  <2>2. ASSUME NEW i \in Jobs, i # j, HasCopy(i)', ~outdated'[i] PROVE mem'[i] = orderFile'
    <3>1. ~outdated[i] /\ b = orderFile
      BY <1>1, <2>1, <2>2
    <3>2. QED
      BY <1>0, <1>1, <2>1, <2>2, <3>1 DEF Copies
  <2>3. HasCopy(j)' => mem'[j] = orderFile'
    BY <1>2, <2>1 DEF Writes, GoesOn, Stops, HasCopy
  <2>4. QED
    BY <2>2, <2>3 DEF Copies
<1>3. ASSUME Reads(j) \/ Quiet(j) \/ Leaves(j)
      PROVE  Copies'
  <2>1. orderFile' = orderFile /\ \A i \in Jobs \ {j} : outdated'[i] = outdated[i]
    BY <1>0, <1>3 DEF Reads, Quiet, Leaves, bookVars
  <2>2. \A i \in Jobs \ {j} : HasCopy(i)' /\ ~outdated'[i] => mem'[i] = orderFile'
    BY <1>0, <1>1, <2>1 DEF Copies
  <2>3. HasCopy(j)' /\ ~outdated'[j] => mem'[j] = orderFile'
    <3>1. CASE Reads(j)
      BY <3>1 DEF Reads
    <3>2. CASE Quiet(j)
      BY <1>0, <3>2 DEF Quiet, Copies, bookVars
    <3>3. CASE Leaves(j)
      BY <3>3 DEF Leaves, Stops, HasCopy
    <3>4. QED
      BY <1>3, <3>1, <3>2, <3>3
  <2>4. QED
    BY <2>2, <2>3 DEF Copies
<1>4. QED
  BY <1>0, <1>2, <1>3, BookSteps DEF BookStep

LEMMA NotCutOffStep ==
    ASSUME CopyInv, NEW j \in Jobs, ToolStep(j) \/ \E o \in Orders : Asked(j, o)
    PROVE  NotCutOff'
<1>0. CertTypeInv /\ NotCutOff /\ cut \subseteq cut'
  BY BookTypes DEF CopyInv, OrderInv
<1>1. ASSUME NEW i \in Jobs, i # j
      PROVE  /\ mem'[i] = mem[i] /\ order'[i] = order[i]
             /\ (HasCopy(i)' <=> HasCopy(i)) /\ (Renews(i)' <=> Renews(i)) /\ Site(i)' = Site(i)
  BY <1>0, <1>1, OneJob DEF OthersKeep, HasCopy, Renews, Site
<1>2. ASSUME NEW i \in Jobs, i # j, Renews(i), HasCopy(i), order[i] \in DOMAIN mem[i]
      PROVE  order[i] \in DOMAIN orderFile' \/ Site(i) \in cut'
  <2>1. order[i] \in DOMAIN orderFile \/ Site(i) \in cut
    BY <1>0, <1>2 DEF NotCutOff
  <2>2. ASSUME NEW b, Save(j, b), order[i] \in DOMAIN orderFile, order[i] \notin DOMAIN b
        PROVE  Site(i) \in cut'
    BY <1>2, <2>2 DEF Save
  <2>3. (\E b : Save(j, b)) \/ orderFile' = orderFile
    BY <1>0, BookSteps DEF BookStep, Writes, Reads, Quiet, Leaves, bookVars
  <2>4. QED
    BY <1>0, <2>1, <2>2, <2>3 DEF Save
<1>3. ASSUME Renews(j)', HasCopy(j)', order'[j] \in DOMAIN mem'[j]
      PROVE  order'[j] \in DOMAIN orderFile' \/ Site(j)' \in cut'
  <2>1. CASE Writing(j)
    <3>1. PICK b : Writes(j, b)
      BY <1>0, <2>1, Written
    <3>2. mem'[j] = b /\ orderFile' = b
      BY <1>3, <3>1 DEF Writes, Save, GoesOn, Stops, HasCopy
    <3>3. QED
      BY <1>3, <3>2
  <2>2. CASE Reading(j)
    BY <1>0, <1>3, <2>2, ReadingReads DEF Reads
  <2>3. CASE Staying(j)
    <3>1. mem'[j] = mem[j] /\ UNCHANGED bookVars /\ HasCopy(j)
      BY <1>0, <1>3, <2>3, StayingIsQuiet DEF Quiet
    <3>2. order'[j] = order[j] /\ job'[j] = job[j]
      BY <2>3, <3>1 DEF Staying, Check, ClearFiles, Validated, StepFails, GoTo,
                        RequestApply, NightlyTake, TakeJob, HasCopy
    <3>3. Renews(j) /\ Site(j)' = Site(j)
      BY <1>3, <3>2 DEF Renews, Site
    <3>4. QED
      BY <1>0, <1>3, <3>1, <3>2, <3>3 DEF NotCutOff, bookVars
  <2>4. CASE Leaving(j)
    BY <1>0, <1>3, <2>4, LeavingLeaves DEF Leaves, Stops, HasCopy
  <2>5. QED
    BY <2>1, <2>2, <2>3, <2>4, Kinds
<1>4. QED
  BY <1>1, <1>2, <1>3 DEF NotCutOff

(* An order whose thread was ended in the middle stays one.                *)
LEMMA KilledGrows ==
    ASSUME NEW j \in Jobs, ToolStep(j) \/ \E o \in Orders : Asked(j, o)
    PROVE  killed \subseteq killed' /\ KilledSites \subseteq KilledSites'
<1> USE DEF restVars
<1>1. CASE Writing(j)
  BY <1>1 DEF Writing, WriteAsked, DropOrder, CreateOrder, PlaceFile, AlreadyValid, KilledSites,
              GetCertificate, Download, Keep, RenewDone, CloseApply, FailRenew
<1>2. CASE StartTool(j) \/ InstallCert(j) \/ InstallFails(j) \/ FailApply(j) \/ LoseRenew(j)
  BY <1>2 DEF StartTool, InstallCert, InstallFails, FailApply, LoseRenew, KilledSites
<1>3. CASE Check(j) \/ ClearFiles(j) \/ Validated(j) \/ StepFails(j)
  BY <1>3 DEF Check, ClearFiles, Validated, StepFails, KilledSites
<1>4. CASE \E o \in Orders : Asked(j, o)
  BY <1>4 DEF Asked, RequestApply, RequestRenew, RequestDelete, NightlyTake, KilledSites
<1>5. CASE Die(j)
  BY <1>5 DEF Die, KilledSites
<1>6. QED
  BY <1>1, <1>2, <1>3, <1>4, <1>5 DEF ToolStep, Writing

(* What a step does to the redirections and the sites renewed.             *)
LEMMA ForceStep ==
    ASSUME ForceInv, NEW j \in Jobs, ToolStep(j) \/ \E o \in Orders : Asked(j, o)
    PROVE  /\ renewed \subseteq renewed' /\ wish' = wish
           /\ \/ force' = force /\ forced'[j] = forced[j] /\ (order'[j] = order[j] \/ jobAt[j] = "idle")
              \/ force' = force /\ forced'[j] = FALSE
                 /\ (forced[j] => Site(j) \in renewed' \cup cut' \cup KilledSites')
              \/ Check(j)
              \/ FailRenew(j)
<1>0. /\ CertTypeInv /\ j \in DOMAIN forced /\ ShapeAt(j) /\ cut \subseteq cut'
      /\ wish' = wish
  BY JobFacts, BookTypes, NumberStep DEF ForceInv, CopyInv, OrderInv, CertTypeInv, JobShape
<1>p. forced[j] => Renews(j) /\ (order[j] \in DOMAIN mem[j] \/ Site(j) \in cut)
  BY DEF ForceInv, PutOff
<1>1. CASE \/ WriteAsked(j) \/ CreateOrder(j) \/ ClearFiles(j) \/ PlaceFile(j) \/ AlreadyValid(j)
           \/ Validated(j) \/ GetCertificate(j) \/ StepFails(j)
  BY <1>0, <1>1 DEF WriteAsked, CreateOrder, ClearFiles, PlaceFile, AlreadyValid, Validated,
                    GetCertificate, StepFails, SaveOrder, GoTo, siteVars, restVars
<1>2. CASE Download(j)
  BY <1>0, <1>2 DEF Download, SaveOrder, GoTo, restVars
<1>3. CASE StartTool(j) \/ InstallCert(j) \/ InstallFails(j)
  BY <1>0, <1>3 DEF StartTool, InstallCert, InstallFails, siteVars, restVars
<1>4. CASE DropOrder(j)
  <2>1. ~Renews(j)
    BY <1>0, <1>4 DEF DropOrder, ShapeAt, Renews
  <2>2. QED
    BY <1>0, <1>p, <1>4, <2>1 DEF DropOrder, Over, siteVars, restVars
<1>5. CASE Keep(j)
  <2>1. force' = force /\ renewed' = renewed
    BY <1>5 DEF Keep, siteVars, restVars
  <2>2. IF Renews(j) THEN GoTo(j, "done") ELSE Over(j)
    BY <1>5 DEF Keep
  <2>3. QED
    BY <1>0, <1>p, <2>1, <2>2 DEF GoTo, Over
<1>6. CASE RenewDone(j)
  <2>1. force' = force /\ renewed' = renewed \cup {Site(j)}
    BY <1>6 DEF RenewDone, siteVars
  <2>2. forced'[j] = FALSE
    BY <1>0, <1>6 DEF RenewDone, Over
  <2>3. QED
    BY <1>0, <2>1, <2>2
<1>7. CASE FailApply(j)
  BY <1>0, <1>p, <1>7 DEF FailApply, Over, siteVars, restVars
<1>8. CASE CloseApply(j)
  <2>1. ~Renews(j)
    BY <1>0, <1>8 DEF CloseApply, ShapeAt, Renews
  <2>2. force' = force /\ renewed' = renewed
    BY <1>8 DEF CloseApply, siteVars, restVars
  <2>3. forced'[j] = FALSE
    BY <1>0, <1>8 DEF CloseApply, Over
  <2>4. QED
    BY <1>0, <1>p, <2>1, <2>2, <2>3
<1>9. CASE LoseRenew(j)
  BY <1>0, <1>p, <1>9 DEF LoseRenew, Over, siteVars, restVars
<1>13. CASE Die(j)
  <2>1. force' = force /\ renewed' = renewed /\ forced'[j] = FALSE
    BY <1>0, <1>13 DEF Die, Over, siteVars
  <2>2. forced[j] => Site(j) \in KilledSites'
    <3>1. forced[j] => killed' = killed \cup {order[j]}
      BY <1>p, <1>13 DEF Die, Renews
    <3>2. QED
      BY <3>1 DEF KilledSites, Site
  <2>3. QED
    BY <1>0, <2>1, <2>2
<1>10. CASE Check(j) \/ FailRenew(j)
  BY <1>0, <1>10 DEF Check, FailRenew, restVars
<1>11. ASSUME NEW o \in Orders, Asked(j, o)
       PROVE  force' = force /\ forced'[j] = forced[j] /\ jobAt[j] = "idle" /\ renewed' = renewed
  BY <1>11 DEF Asked, RequestApply, RequestRenew, RequestDelete, NightlyTake, TakeJob, siteVars
<1>12. QED
  BY <1>0, <1>1, <1>2, <1>3, <1>4, <1>5, <1>6, <1>7, <1>8, <1>9, <1>10, <1>11,
     <1>13 DEF ToolStep

LEMMA PutOffStep ==
    ASSUME ForceInv, NEW j \in Jobs, ToolStep(j) \/ \E o \in Orders : Asked(j, o)
    PROVE  PutOff'
<1>0. /\ CertTypeInv /\ PutOff /\ NotCutOff /\ cut \subseteq cut' /\ wish' = wish
      /\ j \in DOMAIN forced /\ j \in DOMAIN jobAt /\ ShapeAt(j) /\ j \in DOMAIN order /\ j \in DOMAIN mem
  BY JobFacts, BookTypes, NumberStep DEF ForceInv, CopyInv, OrderInv, CertTypeInv, JobShape
<1> DEFINE Held(i) == /\ jobAt[i] \notin {"idle", "asked", "drop", "start", "check"}
                      /\ Renews(i) /\ wish[Site(i)]
                      /\ order[i] \in DOMAIN mem[i] \/ Site(i) \in cut
<1>1. ASSUME NEW i \in Jobs, i # j, forced'[i] PROVE Held(i)'
  <2>1. /\ mem'[i] = mem[i] /\ order'[i] = order[i] /\ forced'[i] = forced[i]
        /\ jobAt'[i] = jobAt[i] /\ job'[i] = job[i]
    BY <1>0, <1>1, OneJob DEF OthersKeep
  <2>2. Held(i)
    BY <1>0, <1>1, <2>1 DEF PutOff
  <2>3. QED
    BY <1>0, <2>1, <2>2 DEF Renews, Site
<1>2. ASSUME forced'[j] PROVE Held(j)'
  <2>1. CASE Check(j)
    <3>1. /\ forced'[j] = force[Site(j)] /\ order[j] \in DOMAIN mem[j] /\ jobAt'[j] = "order"
          /\ jobAt[j] = "check" /\ UNCHANGED <<job, order, mem, cut>>
      BY <1>0, <2>1 DEF Check, bookVars
    <3>2. Renews(j) /\ Site(j) \in Sites
      <4>1. Renews(j) /\ order[j] \in Orders
        BY <1>0, <3>1 DEF ShapeAt
      <4>2. QED
        BY <4>1, CertAssumption DEF Site
    <3>3. wish[Site(j)]
      BY <1>2, <3>1, <3>2 DEF ForceInv, Redirections
    <3>4. QED
      BY <1>0, <3>1, <3>2, <3>3 DEF Renews, Site
  <2>2. CASE FailRenew(j)
    BY <1>0, <1>2, <2>2 DEF FailRenew, Over
  <2>3. CASE ~Check(j) /\ ~FailRenew(j)
    <3>1. forced[j]
      BY <1>2, <2>3, ForceStep
    <3>2. Held(j)
      BY <1>0, <3>1 DEF PutOff
    <3>3. order'[j] = order[j]
      BY <1>2, <2>3, <3>2, ForceStep
    <3>4. CASE Writing(j)
      <4>1. PICK b : Writes(j, b)
        BY <1>0, <3>4, Written
      <4>2. job'[j] = job[j] /\ mem'[j] = b
        BY <1>2, <3>2, <4>1 DEF Writes, GoesOn, Stops
      <4>3. order[j] \in DOMAIN b
        BY <3>2, <4>1 DEF Writes, OwnRow, Renews
      <4>4. jobAt'[j] \notin {"idle", "asked", "drop", "start", "check"}
        <5> USE <1>0, <1>2 DEF SaveOrder, GoTo, Over
        <5>1. ~WriteAsked(j) /\ ~DropOrder(j)
          BY <3>2 DEF WriteAsked, DropOrder
        <5>2. CASE CreateOrder(j) \/ PlaceFile(j) \/ AlreadyValid(j)
          BY <5>2 DEF CreateOrder, PlaceFile, AlreadyValid
        <5>3. CASE GetCertificate(j) \/ Download(j)
          BY <5>3 DEF GetCertificate, Download
        <5>4. CASE Keep(j)
          <6>1. IF Renews(j) THEN GoTo(j, "done") ELSE Over(j)
            BY <5>4 DEF Keep
          <6>2. QED
            BY <6>1
        <5>5. CASE RenewDone(j) \/ CloseApply(j)
          BY <5>5 DEF RenewDone, CloseApply
        <5>6. QED
          BY <2>3, <3>4, <5>1, <5>2, <5>3, <5>4, <5>5 DEF Writing
      <4>5. QED
        BY <1>0, <3>2, <3>3, <4>2, <4>3, <4>4 DEF Renews, Site
    <3>5. CASE Reading(j)
      <4>1. mem'[j] = orderFile
        BY <1>0, <3>5, ReadingReads DEF Reads
      <4>2. InstallCert(j) \/ InstallFails(j)
        BY <3>2, <3>5 DEF Reading, StartTool, FailApply, RequestRenew, RequestDelete, TakeJob
      <4>3. /\ jobAt'[j] \in {"keep", "fail"} /\ job'[j] = job[j] /\ jobAt[j] = "install"
        BY <1>0, <4>2 DEF InstallCert, InstallFails, Read
      <4>4. order[j] \in DOMAIN orderFile \/ Site(j) \in cut
        <5>1. order[j] \in DOMAIN mem[j] /\ HasCopy(j)
          BY <1>0, <4>3, JobFacts DEF HasCopy
        <5>2. QED
          BY <1>0, <3>2, <5>1 DEF NotCutOff
      <4>5. QED
        BY <1>0, <3>2, <3>3, <4>1, <4>3, <4>4 DEF Renews, Site
    <3>6. CASE Staying(j)
      <4>1. mem'[j] = mem[j]
        BY <1>0, <3>6, StayingIsQuiet DEF Quiet
      <4>2. jobAt'[j] \in {"place", "fetch", "fail"} /\ job'[j] = job[j]
        BY <1>0, <2>3, <3>2, <3>6 DEF Staying, ClearFiles, Validated, StepFails, GoTo,
                                RequestApply, NightlyTake, TakeJob
      <4>3. QED
        BY <1>0, <3>2, <3>3, <4>1, <4>2 DEF Renews, Site
    <3>7. CASE Leaving(j)
      BY <1>0, <1>2, <3>7, LeavingLeaves DEF Leaves, Stops
    <3>8. QED
      BY <3>4, <3>5, <3>6, <3>7, Kinds
  <2>4. QED
    BY <2>1, <2>2, <2>3
<1>3. QED
  BY <1>1, <1>2 DEF PutOff

LEMMA RedirectionsStep ==
    ASSUME ForceInv, NEW j \in Jobs, ToolStep(j) \/ \E o \in Orders : Asked(j, o)
    PROVE  Redirections'
<1>0. /\ CertTypeInv /\ Redirections /\ PutOff /\ cut \subseteq cut' /\ wish' = wish
      /\ renewed \subseteq renewed' /\ j \in DOMAIN forced
      /\ force \in [Sites -> BOOLEAN] /\ forced \in [Jobs -> BOOLEAN] /\ SiteOf \in [Orders -> Sites]
      /\ ShapeAt(j) /\ KilledSites \subseteq KilledSites'
  BY JobFacts, BookTypes, ForceStep, CertAssumption, KilledGrows
     DEF ForceInv, CopyInv, OrderInv, CertTypeInv, CertFlags, JobShape
<1>1. ASSUME NEW i \in Jobs, i # j PROVE forced'[i] = forced[i] /\ Site(i)' = Site(i)
  BY <1>0, <1>1, OneJob DEF OthersKeep, Site
<1>2. CASE force' = force
  <2>1. ASSUME NEW s \in Sites \ (renewed' \cup cut' \cup KilledSites'), wish[s], ~force[s]
        PROVE  \E i \in Jobs : forced'[i] /\ Site(i)' = s
    <3>1. PICK i \in Jobs : forced[i] /\ Site(i) = s
      BY <1>0, <2>1 DEF Redirections
    <3>2. CASE i # j
      BY <1>1, <3>1, <3>2
    <3>3. CASE i = j
      <4>1. jobAt[j] \notin {"idle", "check"}
        BY <1>0, <3>1, <3>3 DEF PutOff
      <4>2. ~Check(j)
        BY <4>1 DEF Check
      <4>3. ~(forced[j] => Site(j) \in renewed' \cup cut' \cup KilledSites')
        BY <2>1, <3>1, <3>3
      <4>4. CASE FailRenew(j)
        <5>1. force'[s] = (force[s] \/ forced[j])
          BY <1>0, <2>1, <3>1, <3>3, <4>4 DEF FailRenew
        <5>2. QED
          BY <1>2, <2>1, <3>1, <3>3, <5>1
      <4>5. CASE ~FailRenew(j)
        <5>1. forced'[j] = forced[j] /\ order'[j] = order[j]
          BY <4>1, <4>2, <4>3, <4>5, ForceStep
        <5>2. QED
          BY <3>1, <3>3, <5>1 DEF Site
      <4>6. QED
        BY <4>4, <4>5
    <3>4. QED
      BY <3>2, <3>3
  <2>2. QED
    BY <1>0, <1>2, <2>1 DEF Redirections
<1>3. CASE Check(j)
  <2>1. /\ forced' = [forced EXCEPT ![j] = force[Site(j)]] /\ force' = [force EXCEPT ![Site(j)] = FALSE]
        /\ order' = order /\ jobAt[j] = "check"
    BY <1>3 DEF Check
  <2>2. ~forced[j] /\ Site(j) \in Sites
    <3>1. ~forced[j] /\ order[j] \in Orders
      BY <1>0, <2>1 DEF PutOff, ShapeAt
    <3>2. QED
      BY <1>0, <3>1 DEF Site
  <2>3. \A s \in Sites : force'[s] => wish'[s]
    BY <1>0, <2>1, <2>2 DEF Redirections
  <2>4. ASSUME NEW s \in Sites \ (renewed' \cup cut' \cup KilledSites'), wish[s], ~force'[s]
        PROVE  \E i \in Jobs : forced'[i] /\ Site(i)' = s
    <3>1. CASE s = Site(j) /\ force[s]
      <4>1. forced'[j] = force[s] /\ Site(j)' = s
        BY <1>0, <2>1, <3>1 DEF Site
      <4>2. QED
        BY <3>1, <4>1
    <3>2. CASE ~(s = Site(j) /\ force[s])
      <4>1. ~force[s]
        BY <1>0, <2>1, <2>2, <2>4, <3>2
      <4>2. PICK i \in Jobs : forced[i] /\ Site(i) = s
        BY <1>0, <2>4, <4>1 DEF Redirections
      <4>3. i # j
        BY <2>2, <4>2
      <4>4. QED
        BY <1>1, <4>2, <4>3
    <3>3. QED
      BY <3>1, <3>2
  <2>5. QED
    BY <1>0, <2>3, <2>4 DEF Redirections
<1>4. CASE FailRenew(j)
  <2>1. force' = [force EXCEPT ![Site(j)] = @ \/ forced[j]] /\ jobAt[j] = "fail" /\ Renews(j)
    BY <1>4 DEF FailRenew
  <2>2. Site(j) \in Sites
    <3>1. order[j] \in Orders
      BY <1>0, <2>1 DEF ShapeAt, Renews
    <3>2. QED
      BY <1>0, <3>1 DEF Site
  <2>3. \A s \in Sites : s # Site(j) => force'[s] = force[s]
    BY <1>0, <2>1
  <2>4. force'[Site(j)] = (force[Site(j)] \/ forced[j])
    BY <1>0, <2>1, <2>2
  <2>5. forced[j] => wish[Site(j)]
    BY <1>0 DEF PutOff
  <2>6. \A s \in Sites : force[s] => wish[s]
    BY <1>0 DEF Redirections
  <2>7. ASSUME NEW s \in Sites, force'[s] PROVE wish'[s]
    BY <1>0, <2>3, <2>4, <2>5, <2>6, <2>7
  <2>8. ASSUME NEW s \in Sites \ (renewed' \cup cut' \cup KilledSites'), wish[s], ~force'[s]
        PROVE  \E i \in Jobs : forced'[i] /\ Site(i)' = s
    <3>1. ~force[s] /\ ~(s = Site(j) /\ forced[j])
      BY <2>3, <2>4, <2>8
    <3>2. PICK i \in Jobs : forced[i] /\ Site(i) = s
      BY <1>0, <2>8, <3>1 DEF Redirections
    <3>3. i # j
      BY <3>1, <3>2
    <3>4. QED
      BY <1>1, <3>2, <3>3
  <2>9. QED
    BY <1>0, <2>7, <2>8 DEF Redirections
<1>5. QED
  BY <1>2, <1>3, <1>4, ForceStep

-----------------------------------------------------------------------------
(* Orders and renewals that are pursued. *)

\* The copy a job saves, while nobody has saved an outdated one: the file
\* with the row of its order changed, or the file itself.
LEMMA SavedBook ==
    ASSUME CopyInv, NEW j \in Jobs, NEW b, Writes(j, b), ~clash'
    PROVE  b = orderFile \/ mem[j] = orderFile
<1>1. clash' = (clash \/ (outdated[j] /\ b # orderFile)) /\ HasCopy(j)
  BY DEF Writes, Save
<1>2. ~outdated[j] => mem[j] = orderFile
  BY <1>1 DEF CopyInv, Copies
<1>3. QED
  BY <1>1, <1>2

LEMMA PursuedStep ==
    ASSUME CopyInv, Pursued, ~clash', NEW j \in Jobs, ToolStep(j) \/ \E o \in Orders : Asked(j, o)
    PROVE  Pursued'
<1>0. /\ CertTypeInv /\ NewOrders /\ ShapeAt(j) /\ NoOrder \notin Orders
      /\ (\A o \in DOMAIN orderFile : o \in Orders) /\ killed \subseteq killed'
  BY CertAssumption, KilledGrows DEF CopyInv, OrderInv, CertTypeInv, JobShape, CertBooks, IsBook
<1>1. ASSUME NEW i \in Jobs, i # j
      PROVE  /\ mem'[i] = mem[i] /\ order'[i] = order[i] /\ job'[i] = job[i]
             /\ (HasCopy(i)' <=> HasCopy(i)) /\ (Renews(i)' <=> Renews(i))
  BY <1>0, <1>1, OneJob DEF OthersKeep, HasCopy, Renews
<1>2. ASSUME NEW b, Writes(j, b)
      PROVE  Pursued'
  <2>1. b = orderFile \/ mem[j] = orderFile
    BY <1>2, SavedBook
  <2>2. orderFile' = b /\ OtherRows(j, b) /\ OwnRow(j, b) /\ HasCopy(j)
    BY <1>2 DEF Writes, Save
  <2>3. \/ job'[j] = job[j] /\ order'[j] = order[j] /\ (mem'[j] = b \/ ~HasCopy(j)')
        \/ job'[j] = "none" /\ order'[j] = NoOrder /\ ~HasCopy(j)'
    BY <1>2 DEF Writes, GoesOn, Stops, HasCopy
  <2>4. ASSUME NEW o \in DOMAIN b, o # order[j]
        PROVE  o \in DOMAIN orderFile /\ b[o] = orderFile[o]
    BY <2>1, <2>2, <2>4 DEF OtherRows
  <2>5. ASSUME NEW o \in DOMAIN b \ killed', ~b[o].over
        PROVE  \E i \in Jobs : job'[i] = "apply" /\ order'[i] = o
    <3>1. CASE o # order[j]
      <4>1. PICK i \in Jobs : job[i] = "apply" /\ order[i] = o
        BY <1>0, <2>4, <2>5, <3>1 DEF Pursued
      <4>2. QED
        BY <1>1, <3>1, <4>1
    <3>2. CASE o = order[j] /\ job'[j] = "apply"
      BY <2>3, <3>2
    <3>3. CASE o = order[j] /\ job'[j] # "apply"
      <4>1. \/ job'[j] # job[j] /\ job[j] = "apply"
            \/ job[j] # "apply"
        BY <3>3
      <4>2. job[j] # "apply" /\ o \in DOMAIN mem[j] /\ mem[j][o].over = b[o].over
        BY <2>2, <2>5, <3>3 DEF OwnRow
      <4>3. o \in DOMAIN orderFile /\ ~orderFile[o].over
        BY <2>1, <2>5, <4>2
      <4>4. PICK i \in Jobs : job[i] = "apply" /\ order[i] = o
        BY <1>0, <2>5, <4>3 DEF Pursued
      <4>5. QED
        BY <1>1, <4>2, <4>4
    <3>4. QED
      BY <3>1, <3>2, <3>3
  <2>6. ASSUME NEW o \in DOMAIN b \ killed', b[o].renew = "pending"
        PROVE  \E i \in Jobs : Renews(i)' /\ order'[i] = o
    <3>1. CASE o # order[j]
      <4>1. PICK i \in Jobs : Renews(i) /\ order[i] = o
        BY <1>0, <2>4, <2>6, <3>1 DEF Pursued
      <4>2. QED
        BY <1>1, <3>1, <4>1
    <3>2. CASE o = order[j] /\ job'[j] \in {"renew", "nightly"}
      BY <2>3, <3>2 DEF Renews
    <3>3. CASE o = order[j] /\ job'[j] \notin {"renew", "nightly"}
      <4>1. ~Renews(j) /\ o \in DOMAIN mem[j] /\ mem[j][o].renew = "pending"
        BY <2>2, <2>6, <3>3 DEF OwnRow
      <4>2. o \in DOMAIN orderFile /\ orderFile[o].renew = "pending"
        BY <2>1, <2>6, <4>1
      <4>3. PICK i \in Jobs : Renews(i) /\ order[i] = o
        BY <1>0, <2>6, <4>2 DEF Pursued
      <4>4. QED
        BY <1>1, <4>1, <4>3
    <3>4. QED
      BY <3>1, <3>2, <3>3
  <2>7. ASSUME NEW i \in Jobs, Renews(i)', HasCopy(i)', order'[i] \notin DOMAIN mem'[i]
        PROVE  order'[i] \notin DOMAIN b
    <3>1. CASE i = j
      BY <2>3, <2>7, <3>1
    <3>2. CASE i # j
      <4>1. Renews(i) /\ HasCopy(i) /\ order[i] \notin DOMAIN mem[i] /\ order'[i] = order[i]
        BY <1>1, <2>7, <3>2
      <4>2. order[i] \notin DOMAIN orderFile
        BY <4>1 DEF Pursued
      <4>3. ASSUME order[i] = order[j], order[j] \in DOMAIN b PROVE FALSE
        <5>1. order[j] \notin DOMAIN mem[j]
          BY <2>1, <4>2, <4>3
        <5>2. Creates(j)
          BY <2>2, <4>3, <5>1 DEF OwnRow
        <5>3. QED
          BY <1>0, <3>2, <4>3, <5>2 DEF NewOrders
      <4>4. QED
        BY <2>4, <4>1, <4>2, <4>3
    <3>3. QED
      BY <3>1, <3>2
  <2>8. QED
    BY <2>2, <2>5, <2>6, <2>7 DEF Pursued
<1>3. ASSUME Reads(j) \/ Quiet(j) \/ Leaves(j), ~Writing(j)
      PROVE  Pursued'
  <2>0. orderFile' = orderFile
    BY <1>3 DEF Reads, Quiet, Leaves, bookVars
  <2>1. \/ job'[j] = job[j] /\ order'[j] = order[j]
        \/ job[j] = "none"
        \/ job'[j] = "none" /\ (order[j] \in DOMAIN orderFile \ killed' => job[j] \notin {"apply", "renew", "nightly"})
    <3>1. CASE Reading(j)
      BY <1>0, <3>1 DEF Reading, StartTool, InstallCert, InstallFails, FailApply, RequestRenew,
                        RequestDelete, TakeJob, ShapeAt
    <3>2. CASE Staying(j)
      BY <1>0, <3>2 DEF Staying, Check, ClearFiles, Validated, StepFails, GoTo, RequestApply,
                        NightlyTake, TakeJob, ShapeAt
    <3>3. CASE Leaving(j)
      <4>1. job'[j] = "none"
        BY <1>0, <3>3, LeavingLeaves DEF Leaves, Stops
      <4>2. CASE LoseRenew(j)
        <5>1. Renews(j) /\ HasCopy(j) /\ order[j] \notin DOMAIN mem[j]
          BY <4>2 DEF LoseRenew, HasCopy
        <5>2. QED
          BY <4>1, <5>1 DEF Pursued
      <4>4. CASE Die(j)
        <5>1. job[j] # "delete" => order[j] \in killed'
          BY <4>4 DEF Die
        <5>2. QED
          BY <4>1, <5>1
      <4>3. QED
        BY <3>3, <4>1, <4>2, <4>4 DEF Leaving
    <3>4. QED
      BY <1>3, <3>1, <3>2, <3>3, Kinds
  <2>2. ASSUME NEW o \in DOMAIN orderFile \ killed', NEW i \in Jobs, order[i] = o,
               job[i] = "apply" \/ Renews(i)
        PROVE  (job[i] = "apply" => job'[i] = "apply") /\ (Renews(i) => Renews(i)') /\ order'[i] = o
    BY <1>1, <2>1, <2>2 DEF Renews
  <2>3. \A o \in DOMAIN orderFile \ killed' :
          /\ ~orderFile[o].over => \E i \in Jobs : job'[i] = "apply" /\ order'[i] = o
          /\ orderFile[o].renew = "pending" => \E i \in Jobs : Renews(i)' /\ order'[i] = o
    BY <1>0, <2>2 DEF Pursued
  <2>4. ASSUME Renews(j)', HasCopy(j)', order'[j] \notin DOMAIN mem'[j]
        PROVE  order'[j] \notin DOMAIN orderFile
    <3>1. CASE Reads(j)
      BY <2>4, <3>1 DEF Reads
    <3>2. CASE Quiet(j)
      <4>1. HasCopy(j) /\ mem'[j] = mem[j]
        BY <2>4, <3>2 DEF Quiet
      <4>2. job[j] # "none" /\ job'[j] # "none"
        BY <1>0, <2>4, <4>1 DEF HasCopy, Renews, ShapeAt
      <4>3. job'[j] = job[j] /\ order'[j] = order[j]
        BY <2>1, <4>2
      <4>4. QED
        BY <2>4, <4>1, <4>3 DEF Pursued, Renews
    <3>3. CASE Leaves(j)
      BY <2>4, <3>3 DEF Leaves, Stops, HasCopy
    <3>4. QED
      BY <1>3, <3>1, <3>2, <3>3
  <2>5. ASSUME NEW i \in Jobs, i # j, Renews(i)', HasCopy(i)', order'[i] \notin DOMAIN mem'[i]
        PROVE  order'[i] \notin DOMAIN orderFile
    BY <1>1, <2>5 DEF Pursued
  <2>6. QED
    BY <2>0, <2>3, <2>4, <2>5 DEF Pursued
<1>4. QED
  BY <1>0, <1>2, <1>3, BookSteps, Written DEF BookStep

-----------------------------------------------------------------------------
CertInv == ForceInv /\ (~clash => Pursued)

LEMMA AsideRest ==
    ASSUME CertInv, Aside
    PROVE  Copies' /\ NotCutOff' /\ Redirections' /\ PutOff' /\ (~clash' => Pursued')
<1>0. /\ CertTypeInv /\ Copies /\ NotCutOff /\ Redirections /\ PutOff /\ (~clash => Pursued)
  BY DEF CertInv, ForceInv, CopyInv, OrderInv
<1>1. UNCHANGED <<job, jobAt, order, mem, forced, outdated, clash, cut, force, wish, renewed, killed>>
  BY AsideFacts DEF toolVars
<1>2. /\ DOMAIN orderFile' = DOMAIN orderFile
      /\ \A o \in DOMAIN orderFile :
           orderFile'[o].over = orderFile[o].over /\ orderFile'[o].renew = orderFile[o].renew
      /\ orderFile' = orderFile \/ AllIdle
  BY <1>0, AsideFacts, AgeFacts
<1>3. Copies'
  BY <1>0, <1>1, <1>2 DEF Copies, HasCopy, AllIdle
<1>4. NotCutOff'
  BY <1>0, <1>1, <1>2 DEF NotCutOff, HasCopy, Renews, Site
<1>5. Redirections' /\ PutOff'
  BY <1>0, <1>1 DEF Redirections, PutOff, Renews, Site, KilledSites
<1>6. ASSUME ~clash' PROVE Pursued'
  BY <1>0, <1>1, <1>2, <1>6 DEF Pursued, HasCopy, Renews
<1>7. QED
  BY <1>3, <1>4, <1>5, <1>6

LEMMA CertInvInit == CertInit => CertInv
<1> SUFFICES ASSUME CertInit PROVE CertInv
  OBVIOUS
<1>1. OrdersKnown /\ NewOrders
  BY EmptyBook DEF CertInit, OrdersKnown, NewOrders, Creates
<1>2. Copies /\ NotCutOff
  BY DEF CertInit, Copies, NotCutOff, HasCopy
<1>3. Redirections /\ PutOff
  BY DEF CertInit, Redirections, PutOff
<1>4. Pursued
  BY EmptyBook DEF CertInit, Pursued, HasCopy
<1>5. QED
  BY <1>1, <1>2, <1>3, <1>4, CertTypeInit DEF CertInv, ForceInv, CopyInv, OrderInv

LEMMA CertInvStep == CertInv /\ [CertNext]_certVars => CertInv'
<1> SUFFICES ASSUME CertInv, [CertNext]_certVars PROVE CertInv'
  OBVIOUS
<1>1. OrderInv'
  BY OrderStep DEF CertInv, ForceInv, CopyInv
<1>2. ASSUME NEW j \in Jobs, ToolStep(j) \/ \E o \in Orders : Asked(j, o) PROVE CertInv'
  <2>1. Copies' /\ NotCutOff' /\ PutOff' /\ Redirections'
    BY <1>2, CopiesStep, NotCutOffStep, PutOffStep, RedirectionsStep DEF CertInv, ForceInv
  <2>2. ASSUME ~clash' PROVE Pursued'
    <3>1. ~clash
      BY <1>2, <2>2, BookSteps DEF CertInv, ForceInv, CopyInv, OrderInv, BookStep, Writes, Save,
                                   Reads, Quiet, Leaves, bookVars
    <3>2. QED
      BY <1>2, <2>2, <3>1, PursuedStep DEF CertInv, ForceInv
  <2>3. QED
    BY <1>1, <2>1, <2>2 DEF CertInv, ForceInv, CopyInv
<1>3. CASE Aside
  BY <1>1, <1>3, AsideRest DEF CertInv, ForceInv, CopyInv
<1>4. CASE UNCHANGED certVars
  <2>1. UNCHANGED <<job, jobAt, order, mem, forced, outdated, clash, cut, force, wish, renewed, killed, orderFile>>
    BY <1>4 DEF certVars, toolVars, bookVars, siteVars, restVars
  <2>2. Copies' /\ NotCutOff' /\ Redirections' /\ PutOff'
    BY <2>1 DEF CertInv, ForceInv, CopyInv, Copies, NotCutOff, Redirections, PutOff, HasCopy, Renews, Site,
              KilledSites
  <2>3. ~clash' => Pursued'
    BY <2>1 DEF CertInv, Pursued, HasCopy, Renews
  <2>4. QED
    BY <1>1, <2>2, <2>3 DEF CertInv, ForceInv, CopyInv
<1>5. QED
  BY <1>2, <1>3, <1>4 DEF CertNext, Asked, Aside

LEMMA CertInvSettles == CertInv => JobsSettle
<1> SUFFICES ASSUME CertInv, AllIdle, ~clash PROVE
      /\ \A o \in DOMAIN orderFile \ killed :
            orderFile[o].over /\ orderFile[o].renew # "pending"
      /\ \A s \in Sites \ (renewed \cup cut \cup KilledSites) : force[s] = wish[s]
  BY DEF JobsSettle
<1>1. \A j \in Jobs : job[j] = "none" /\ jobAt[j] = "idle" /\ ~Renews(j)
  BY DEF AllIdle, CertInv, ForceInv, CopyInv, OrderInv, CertTypeInv, JobShape, ShapeAt, Renews
<1>2. \A o \in DOMAIN orderFile \ killed :
        orderFile[o].over /\ orderFile[o].renew # "pending"
  BY <1>1 DEF CertInv, Pursued
<1>3. \A j \in Jobs : ~forced[j]
  BY <1>1 DEF CertInv, ForceInv, PutOff
<1>4. \A s \in Sites : force[s] \in BOOLEAN /\ wish[s] \in BOOLEAN
  BY DEF CertInv, ForceInv, CopyInv, OrderInv, CertTypeInv, CertFlags
<1>5. \A s \in Sites \ (renewed \cup cut \cup KilledSites) : force[s] <=> wish[s]
  BY <1>3 DEF CertInv, ForceInv, Redirections
<1>6. QED
  BY <1>2, <1>4, <1>5

\* Whatever step of an application or a renewal fails, and however the jobs of
\* any number of users interleave, every order is brought to an end and every
\* redirection put back, as long as no outdated copy was saved over the file;
\* but for the orders whose thread was ended in the middle.
THEOREM JobsAreSettled == CertSpec => []JobsSettle
<1>1. QED
  BY CertInvInit, CertInvStep, CertInvSettles, PTL DEF CertSpec
-----------------------------------------------------------------------------
(* A behaviour of the two parts side by side is one of each of them.       *)
LEMMA RequestsParts == RequestsSpec => Spec /\ CertSpec
<1>1. RequestsInit => Init /\ CertInit
  BY DEF RequestsInit
<1>2. [RequestsNext]_<<part, vars, certVars>> => [Next]_vars /\ [CertNext]_certVars
  BY DEF RequestsNext
<1>3. QED
  BY <1>1, <1>2, PTL DEF RequestsSpec, Spec, CertSpec

(* The installation queue and the certificate orders side by side: every   *)
(* variable keeps its type, and all that is proved of one holds of both.   *)
THEOREM RequestsTypeCorrect == RequestsSpec => []RequestsTypeOK
  BY RequestsParts, TypeCorrect, CertTypeCorrect, PTL DEF RequestsTypeOK
=============================================================================
