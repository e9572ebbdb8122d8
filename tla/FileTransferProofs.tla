------------------------- MODULE FileTransferProofs -------------------------
(***************************************************************************)
(* Theorems about FileTransfer, for every set of tasks and requests, every *)
(* number of records, every choice of operations, and crashes.             *)
(***************************************************************************)
EXTENDS FileTransfer, TLAPS

TaskRows   == [Tasks -> TaskStatus \cup {"none", "deleted"}]
RecordRows == [Tasks -> [Files -> RecStatus \cup {"none"}]]

-----------------------------------------------------------------------------
(* What the shared writes preserve. *)

LEMMA SaveStatusType ==
    ASSUME RowsOK, NEW t, NEW s \in TaskStatus, SaveStatus(t, s)
    PROVE  task' \in TaskRows
BY DEF RowsOK, SaveStatus, TaskRows

LEMMA UpdateRecordsType ==
    ASSUME RowsOK, NEW t, NEW from, NEW to \in RecStatus \cup {"none"},
           UpdateRecords(t, from, to)
    PROVE  rec' \in RecordRows
BY DEF RowsOK, UpdateRecords, RecordRows

LEMMA OneRecordType ==
    ASSUME RowsOK, NEW t, NEW f, NEW s \in RecStatus \cup {"none"},
           rec' = [rec EXCEPT ![t][f] = s]
    PROVE  rec' \in RecordRows
BY DEF RowsOK, RecordRows

LEMMA GotoType ==
    ASSUME RequestsOK, NEW r \in Requests, NEW s \in ReqSteps, Goto(r, s)
    PROVE  RequestsOK'
BY DEF RequestsOK, Goto

LEMMA FinishType ==
    ASSUME RequestsOK, NEW r \in Requests, Finish(r)
    PROVE  RequestsOK'
BY TransferAssumption DEF RequestsOK, Finish, ReqSteps

LEMMA StepType ==
    ASSUME ExecOK, NEW t, NEW from, NEW to \in Steps, Step(t, from, to)
    PROVE  pc' \in [Tasks -> Steps]
BY DEF ExecOK, Step

-----------------------------------------------------------------------------
(* Type correctness is inductive together with MemOK and WorksOnTask. *)

IType == TypeOK /\ MemOK /\ WorksOnTask

LEMMA NewCallType ==
    ASSUME IType, NEW r \in Requests, NewCall(r) PROVE IType'
<1> USE DEF IType, TypeOK, MemOK, WorksOnTask
<1>1. CASE CreateCheck(r)
  BY <1>1 DEF CreateCheck, RowsOK, ExecOK, RequestsOK, execVars, ReqSteps
<1>2. ASSUME NEW op, NEW t \in Tasks, NEW s \in ReqSteps, Call(r, op, t, s)
      PROVE  IType'
  BY <1>2 DEF Call, RowsOK, ExecOK, RequestsOK, execVars
<1>3. CASE StartRead(r)
  BY <1>2, <1>3 DEF StartRead, ReqSteps
<1>4. CASE CancelRead(r)
  BY <1>2, <1>4 DEF CancelRead, ReqSteps
<1>5. CASE RetryRead(r)
  BY <1>2, <1>5 DEF RetryRead, ReqSteps
<1>6. CASE DestroyRead(r)
  BY <1>2, <1>6 DEF DestroyRead, ReqSteps
<1> QED BY <1>1, <1>3, <1>4, <1>5, <1>6 DEF NewCall

LEMMA ContinueType ==
    ASSUME IType, NEW r \in Requests, Continue(r) PROVE IType'
<1> USE DEF IType, TypeOK
<1>1. UNCHANGED execVars /\ ExecOK' /\ MemOK'
  <2>1. UNCHANGED execVars
    BY DEF Continue, InsertTask, InsertRecord, StartSave, Schedule, ScheduleFails,
       CancelSave, CancelRecords, RetrySave, RetryRecords, DestroyCancel, MarkCancelled,
       DestroySkip, DestroyRecords, DestroyTask
  <2> QED BY <2>1 DEF execVars, ExecOK, MemOK
<1>2. task' \in TaskRows
  <2>1. CASE InsertTask(r)
    BY <2>1 DEF InsertTask, RowsOK, TaskRows, TaskStatus
  <2>2. CASE StartSave(r) \/ ScheduleFails(r) \/ RetrySave(r)
    BY <2>2, SaveStatusType DEF StartSave, ScheduleFails, RetrySave, TaskStatus
  <2>3. CASE CancelSave(r) \/ DestroyCancel(r)
    BY <2>3, SaveStatusType DEF CancelSave, DestroyCancel, MarkCancelled, TaskStatus
  <2>4. CASE DestroyTask(r)
    BY <2>4 DEF DestroyTask, RowsOK, TaskRows
  <2>5. CASE UNCHANGED task
    BY <2>5 DEF RowsOK, TaskRows
  <2> QED BY <2>1, <2>2, <2>3, <2>4, <2>5 DEF Continue, InsertRecord, Schedule,
             CancelRecords, RetryRecords, DestroySkip, DestroyRecords
<1>3. rec' \in RecordRows
  <2>1. CASE InsertRecord(r)
    BY <2>1, OneRecordType DEF InsertRecord, RecStatus
  <2>2. CASE CancelRecords(r) \/ RetryRecords(r) \/ DestroySkip(r) \/ DestroyRecords(r)
             \/ DestroyTask(r)
    BY <2>2, UpdateRecordsType DEF CancelRecords, RetryRecords, DestroySkip, DestroyRecords,
       DestroyTask, RecStatus
  <2>3. CASE UNCHANGED rec
    BY <2>3 DEF RowsOK, RecordRows
  <2> QED BY <2>1, <2>2, <2>3 DEF Continue, InsertTask, StartSave, Schedule, ScheduleFails,
             CancelSave, RetrySave, DestroyCancel, MarkCancelled
<1>4. jobs' \subseteq Tasks
  <2>1. CASE Schedule(r)
    <3>1. rtask[r] \in Tasks
      BY <2>1 DEF Schedule, At, WorksOnTask
    <3> QED BY <2>1, <3>1 DEF Schedule, RowsOK
  <2>2. CASE UNCHANGED jobs
    BY <2>2 DEF RowsOK
  <2> QED BY <2>1, <2>2 DEF Continue, InsertTask, InsertRecord, StartSave, ScheduleFails,
       CancelSave, CancelRecords, RetrySave, RetryRecords, DestroyCancel, MarkCancelled,
       DestroySkip, DestroyRecords, DestroyTask
<1>5. RequestsOK'
  <2>1. CASE InsertTask(r)
    BY <2>1, TransferAssumption DEF InsertTask, RequestsOK, ReqSteps
  <2>2. CASE InsertRecord(r)
    <3>1. CASE Goto(r, "startsave") \/ Finish(r)
      BY <3>1, GotoType, FinishType DEF ReqSteps
    <3>2. CASE /\ rfile[r] < NumFiles
               /\ rfile' = [rfile EXCEPT ![r] = rfile[r] + 1]
               /\ UNCHANGED <<rpc, rop, rtask>>
      BY <3>2, TransferAssumption DEF RequestsOK
    <3> QED BY <2>2, <3>1, <3>2 DEF InsertRecord
  <2>3. CASE StartSave(r) \/ RetrySave(r)
    BY <2>3, GotoType, FinishType DEF StartSave, RetrySave, GotoIfSaved, ReqSteps
  <2>4. CASE CancelSave(r) \/ DestroyCancel(r)
    BY <2>4, GotoType, FinishType DEF CancelSave, DestroyCancel, MarkCancelled, GotoIfSaved,
       ReqSteps
  <2>5. CASE Schedule(r) \/ ScheduleFails(r) \/ CancelRecords(r) \/ RetryRecords(r)
             \/ DestroyTask(r)
    BY <2>5, FinishType DEF Schedule, ScheduleFails, CancelRecords, RetryRecords, DestroyTask
  <2>6. CASE DestroySkip(r) \/ DestroyRecords(r)
    BY <2>6, GotoType DEF DestroySkip, DestroyRecords, ReqSteps
  <2> QED BY <2>1, <2>2, <2>3, <2>4, <2>5, <2>6 DEF Continue
<1>6. late' \in [Tasks -> 0..2]
  BY DEF Continue, InsertTask, InsertRecord, StartSave, Schedule, ScheduleFails,
     CancelSave, CancelRecords, RetrySave, RetryRecords, DestroyCancel, MarkCancelled,
     DestroySkip, DestroyRecords, DestroyTask
<1>7. WorksOnTask'
  <2>1. CASE InsertTask(r)
    BY <2>1 DEF InsertTask, RequestsOK, WorksOnTask
  <2>2. CASE rpc'[r] = "idle" /\ \A q \in Requests \ {r} : rpc'[q] = rpc[q] /\ rtask'[q] = rtask[q]
    BY <2>2 DEF WorksOnTask
  <2>3. CASE UNCHANGED rtask /\ rtask[r] \in Tasks /\ \A q \in Requests \ {r} : rpc'[q] = rpc[q]
    BY <2>3 DEF WorksOnTask
  <2>4. CASE rtask[r] \in Tasks /\ \E s : Goto(r, s)
    BY <2>3, <2>4 DEF Goto, RequestsOK
  <2>5. CASE Finish(r)
    BY <2>2, <2>5 DEF Finish, RequestsOK
  <2>6. ~InsertTask(r) => rtask[r] \in Tasks
    BY DEF WorksOnTask, At, Continue, InsertRecord, StartSave, Schedule, ScheduleFails,
       CancelSave, CancelRecords, RetrySave, RetryRecords, DestroyCancel, DestroySkip,
       DestroyRecords, DestroyTask
  <2>7. CASE InsertRecord(r) /\ UNCHANGED <<rpc, rop, rtask>>
    BY <2>3, <2>7 DEF InsertRecord, At, WorksOnTask
  <2>8. ~InsertTask(r) /\ ~(InsertRecord(r) /\ UNCHANGED <<rpc, rop, rtask>>)
           => Finish(r) \/ \E s : Goto(r, s)
    BY DEF Continue, InsertRecord, StartSave, Schedule, ScheduleFails, CancelSave,
       CancelRecords, RetrySave, RetryRecords, DestroyCancel, MarkCancelled, DestroySkip,
       DestroyRecords, DestroyTask, GotoIfSaved
  <2> QED BY <2>1, <2>4, <2>5, <2>6, <2>7, <2>8
<1> QED BY <1>1, <1>2, <1>3, <1>4, <1>5, <1>6, <1>7 DEF RowsOK, TaskRows, RecordRows

LEMMA ExecType ==
    ASSUME IType, NEW t \in Tasks, Exec(t) PROVE IType'
<1> USE DEF IType, TypeOK
<1>1. UNCHANGED <<jobs, reqVars>> /\ RequestsOK' /\ WorksOnTask' /\ jobs' \subseteq Tasks
  <2>1. UNCHANGED <<jobs, reqVars>>
    BY DEF Exec, Begin, Fetch, NextRecord, LoopEnds, Mark, Copy, SaveRecord, Refresh, Decide,
       Final, GiveUp, Release
  <2> QED BY <2>1 DEF reqVars, RequestsOK, RowsOK, WorksOnTask
<1>2. task' \in TaskRows
  <2>1. CASE Begin(t) \/ GiveUp(t)
    BY <2>1, SaveStatusType DEF Begin, GiveUp, TaskStatus
  <2>2. CASE Final(t)
    <3>1. mem[t] \in TaskStatus
      BY <2>2 DEF Final, Step, MemOK, TaskStatus
    <3> QED BY <2>2, <3>1, SaveStatusType DEF Final
  <2>3. CASE UNCHANGED task
    BY <2>3 DEF RowsOK, TaskRows
  <2> QED BY <2>1, <2>2, <2>3 DEF Exec, Fetch, NextRecord, LoopEnds, Mark, Copy, SaveRecord,
             Refresh, Decide, Release
<1>3. rec' \in RecordRows
  <2>1. CASE Mark(t)
    BY <2>1, OneRecordType DEF Mark, RowsOK, RecordRows, RecStatus
  <2>2. CASE Copy(t)
    <3>1. PICK out \in Outcomes :
            rec' = [rec EXCEPT ![t][cur[t]] = IF out = "skipped" /\ @ # "none" THEN out ELSE @]
      BY <2>2 DEF Copy
    <3> QED BY <3>1 DEF RowsOK, RecordRows, RecStatus, Outcomes
  <2>3. CASE SaveRecord(t)
    <3>1. mem[t] \in RecStatus
      BY <2>3 DEF SaveRecord, Step, MemOK, Outcomes, RecStatus
    <3> QED BY <2>3, <3>1 DEF SaveRecord, RowsOK, RecordRows
  <2>4. CASE UNCHANGED rec
    BY <2>4 DEF RowsOK, RecordRows
  <2> QED BY <2>1, <2>2, <2>3, <2>4 DEF Exec, Begin, Fetch, NextRecord, LoopEnds, Refresh,
             Decide, Final, GiveUp, Release
<1>4. pc' \in [Tasks -> Steps]
  <2>1. CASE Release(t)
    BY <2>1 DEF Release, ExecOK, Steps
  <2>2. CASE Begin(t) \/ Fetch(t) \/ NextRecord(t) \/ LoopEnds(t) \/ Mark(t) \/ Copy(t)
    BY <2>2, StepType DEF Begin, Fetch, NextRecord, LoopEnds, Mark, Copy, Steps
  <2>3. CASE SaveRecord(t) \/ Refresh(t) \/ Decide(t) \/ Final(t) \/ GiveUp(t)
    BY <2>3, StepType DEF SaveRecord, Refresh, Decide, Final, GiveUp, Steps
  <2> QED BY <2>1, <2>2, <2>3 DEF Exec
<1>5. /\ todo' \in [Tasks -> SUBSET Files]
      /\ cur'  \in [Tasks -> 0..NumFiles]
  BY TransferAssumption DEF ExecOK, Files, Exec, Begin, Fetch, NextRecord, LoopEnds, Mark, Copy,
     SaveRecord, Refresh, Decide, Final, GiveUp, Release
<1>6. mem'  \in [Tasks -> Outcomes \cup {"cancelled", "none"}]
  BY DEF ExecOK, Outcomes, Exec, Begin, Fetch, NextRecord, LoopEnds, Mark, Copy, SaveRecord,
     Refresh, Decide, Final, GiveUp, Release
<1>7. late' \in [Tasks -> 0..2]
  BY DEF Exec, Begin, Fetch, NextRecord, LoopEnds, Mark, Copy, SaveRecord, Refresh, Decide,
     Final, GiveUp, Release
<1>8. MemOK'
  <2>1. CASE Copy(t)
    BY <2>1 DEF Copy, Step, MemOK, ExecOK
  <2>2. CASE Refresh(t)
    BY <2>2 DEF Refresh, Step, MemOK, ExecOK
  <2>3. CASE Decide(t)
    BY <2>3 DEF Decide, Step, MemOK, ExecOK
  <2>4. CASE UNCHANGED mem /\ pc'[t] \notin {"save", "final"} /\ \A u \in Tasks \ {t} : pc'[u] = pc[u]
    BY <2>4 DEF MemOK
  <2>5. CASE Begin(t) \/ Fetch(t) \/ NextRecord(t) \/ LoopEnds(t) \/ Mark(t)
    BY <2>4, <2>5 DEF Begin, Fetch, NextRecord, LoopEnds, Mark, Step, ExecOK
  <2>6. CASE SaveRecord(t) \/ Final(t) \/ GiveUp(t) \/ Release(t)
    BY <2>4, <2>6 DEF SaveRecord, Final, GiveUp, Release, Step, ExecOK
  <2> QED BY <2>1, <2>2, <2>3, <2>5, <2>6 DEF Exec
<1> QED BY <1>1, <1>2, <1>3, <1>4, <1>5, <1>6, <1>7, <1>8 DEF RowsOK, ExecOK, TaskRows, RecordRows

LEMMA TypeInvariance == Spec => []IType
<1>1. Init => IType
  BY TransferAssumption DEF Init, IType, TypeOK, MemOK, WorksOnTask, RowsOK, ExecOK, RequestsOK, Steps, ReqSteps
<1>2. IType /\ [Next]_vars => IType'
  <2> SUFFICES ASSUME IType, [Next]_vars PROVE IType'
    OBVIOUS
  <2>1. ASSUME NEW r \in Requests, NewCall(r) \/ Continue(r) PROVE IType'
    BY <2>1, NewCallType, ContinueType
  <2>2. ASSUME NEW t \in Tasks, Submit(t) PROVE IType'
    BY <2>2 DEF Submit, IType, TypeOK, MemOK, WorksOnTask, RowsOK, ExecOK, RequestsOK, reqVars, Steps
  <2>3. ASSUME NEW t \in Tasks, Exec(t) PROVE IType'
    BY <2>3, ExecType
  <2>4. CASE Crash
    BY <2>4, TransferAssumption DEF Crash, IType, TypeOK, MemOK, WorksOnTask, RowsOK, ExecOK, RequestsOK,
       Steps, ReqSteps
  <2>5. CASE UNCHANGED vars
    BY <2>5 DEF vars, IType, TypeOK, MemOK, WorksOnTask, RowsOK, ExecOK, RequestsOK
  <2> QED BY <2>1, <2>2, <2>3, <2>4, <2>5 DEF Next
<1> QED BY <1>1, <1>2, PTL DEF Spec

\* No request, executor step, job submission or crash takes a variable out of
\* its range: in particular every status saved is one of the model's choices.
THEOREM TypeCorrect == Spec => []TypeOK
<1>1. IType => TypeOK
  BY DEF IType
<1> QED BY <1>1, TypeInvariance, PTL

-----------------------------------------------------------------------------
(* What a request may do to the rows: it never writes "failed" or           *)
(* "transferring" in a record nor "complete" in a task, and never revives a *)
(* deleted task; the executor's memory is its own.                          *)

LEMMA NewCallEffects ==
    ASSUME NEW r \in Requests, NewCall(r)
    PROVE  UNCHANGED <<task, rec, jobs, execVars, late>>
BY DEF NewCall, CreateCheck, StartRead, CancelRead, RetryRead, DestroyRead, Call

LEMMA UpdateRecordsEffect ==
    ASSUME IType, NEW u, NEW from, NEW to \in {"pending", "skipped", "none"},
           UpdateRecords(u, from, to), NEW t \in Tasks, NEW f \in Files
    PROVE  rec'[t][f] \in {rec[t][f], to}
BY DEF IType, TypeOK, RowsOK, UpdateRecords

LEMMA ContinueRecords ==
    ASSUME IType, NEW r \in Requests, Continue(r), NEW t \in Tasks, NEW f \in Files
    PROVE  rec'[t][f] \in {rec[t][f], "pending", "skipped", "none"}
<1> USE DEF IType, TypeOK
<1>1. CASE InsertRecord(r)
  BY <1>1 DEF InsertRecord, RowsOK
<1>2. CASE CancelRecords(r) \/ RetryRecords(r) \/ DestroySkip(r) \/ DestroyRecords(r)
           \/ DestroyTask(r)
  BY <1>2, UpdateRecordsEffect DEF CancelRecords, RetryRecords, DestroySkip, DestroyRecords,
     DestroyTask
<1>3. CASE UNCHANGED rec
  BY <1>3
<1> QED BY <1>1, <1>2, <1>3 DEF Continue, InsertTask, StartSave, Schedule, ScheduleFails,
           CancelSave, RetrySave, DestroyCancel, MarkCancelled

LEMMA ContinueTask ==
    ASSUME IType, NEW r \in Requests, Continue(r), NEW t \in Tasks
    PROVE  /\ task'[t] = "complete" => task[t] = "complete"
           /\ task[t] = "deleted" => task'[t] = "deleted"
           /\ late'[t] \in {0, late[t]}
           /\ task'[t] = "cancelled" /\ task[t] # "cancelled" => late'[t] = 0
<1> USE DEF IType, TypeOK
<1>1. CASE InsertTask(r)
  BY <1>1 DEF InsertTask, RowsOK
<1>2. CASE StartSave(r) \/ ScheduleFails(r) \/ RetrySave(r)
  BY <1>2 DEF StartSave, ScheduleFails, RetrySave, SaveStatus, Exists, TaskStatus, RowsOK
<1>3. CASE CancelSave(r) \/ DestroyCancel(r)
  BY <1>3 DEF CancelSave, DestroyCancel, MarkCancelled, SaveStatus, Exists, TaskStatus, RowsOK
<1>4. CASE DestroyTask(r)
  BY <1>4 DEF DestroyTask, RowsOK
<1>5. CASE UNCHANGED <<task, late>>
  BY <1>5
<1> QED BY <1>1, <1>2, <1>3, <1>4, <1>5 DEF Continue, InsertRecord, Schedule,
           CancelRecords, RetryRecords, DestroySkip, DestroyRecords

LEMMA ContinueExec ==
    ASSUME NEW r \in Requests, Continue(r) PROVE UNCHANGED execVars
BY DEF Continue, InsertTask, InsertRecord, StartSave, Schedule, ScheduleFails,
   CancelSave, CancelRecords, RetrySave, RetryRecords, DestroyCancel, MarkCancelled,
   DestroySkip, DestroyRecords, DestroyTask

-----------------------------------------------------------------------------
(* The outcome of a task. *)

Working == Steps \ {"idle", "begin", "done"}

\* While an executor is at work its task is not shown as complete, and what it
\* is about to report agrees with the records.
IOutcome ==
    /\ \A t \in Tasks : pc[t] \in Working => task[t] # "complete"
    /\ \A t \in Tasks : pc[t] = "final" /\ mem[t] = "complete" =>
          \A f \in Files : rec[t][f] # "failed"
    /\ CompleteMeansNoFailure

LEMMA ExecOutcome ==
    ASSUME IType, IOutcome, NEW t \in Tasks, Exec(t) PROVE IOutcome'
<1> USE DEF IType, TypeOK, IOutcome, CompleteMeansNoFailure, RowsOK, ExecOK, Step, SaveStatus, Exists,
        TaskStatus, Working, Steps
<1>1. CASE Begin(t)
  BY <1>1 DEF Begin
<1>2. CASE Fetch(t) \/ LoopEnds(t) \/ Release(t)
  <2>1. CASE Fetch(t)
    BY <2>1 DEF Fetch
  <2>2. CASE LoopEnds(t)
    BY <2>2 DEF LoopEnds
  <2>3. CASE Release(t)
    BY <2>3 DEF Release
  <2> QED BY <1>2, <2>1, <2>2, <2>3
<1>3. CASE NextRecord(t)
  BY <1>3 DEF NextRecord
<1>4. CASE Mark(t)
  BY <1>4 DEF Mark
<1>5. CASE Copy(t)
  <2>1. PICK out \in Outcomes :
          rec' = [rec EXCEPT ![t][cur[t]] = IF out = "skipped" /\ @ # "none" THEN out ELSE @]
    BY <1>5 DEF Copy
  <2>2. \A u \in Tasks, f \in Files : rec'[u][f] = "failed" => rec[u][f] = "failed"
    BY <2>1
  <2> QED BY <1>5, <2>2 DEF Copy
<1>6. CASE SaveRecord(t)
  <2>1. \A u \in Tasks \ {t} : rec'[u] = rec[u]
    BY <1>6 DEF SaveRecord
  <2> QED BY <1>6, <2>1 DEF SaveRecord
<1>7. CASE Refresh(t)
  BY <1>7 DEF Refresh
<1>8. CASE Decide(t)
  BY <1>8 DEF Decide
<1>9. CASE Final(t)
  BY <1>9 DEF Final
<1>10. CASE GiveUp(t)
  <2>1. task' = [task EXCEPT ![t] = IF Exists(t) THEN "failed" ELSE @]
    BY <1>10 DEF GiveUp
  <2> QED BY <1>10, <2>1 DEF GiveUp
<1> QED BY <1>1, <1>2, <1>3, <1>4, <1>5, <1>6, <1>7, <1>8, <1>9, <1>10 DEF Exec

\* A task reported complete has no failed record: cancels, retries, restarts,
\* deletions, dropped jobs and crashes cannot make execute overlook a failure.
THEOREM CompleteTasksHaveNoFailure == Spec => []CompleteMeansNoFailure
<1>1. Init => IOutcome
  BY DEF Init, IOutcome, CompleteMeansNoFailure, Working
<1>2. IType /\ IOutcome /\ [Next]_vars => IOutcome'
  <2> SUFFICES ASSUME IType, IOutcome, [Next]_vars PROVE IOutcome'
    OBVIOUS
  <2>1. ASSUME NEW r \in Requests, NewCall(r) PROVE IOutcome'
    BY <2>1, NewCallEffects DEF IOutcome, CompleteMeansNoFailure, execVars
  <2>2. ASSUME NEW r \in Requests, Continue(r) PROVE IOutcome'
    <3>1. \A t \in Tasks : task'[t] = "complete" => task[t] = "complete"
      BY <2>2, ContinueTask
    <3>2. \A t \in Tasks, f \in Files : rec'[t][f] = "failed" => rec[t][f] = "failed"
      BY <2>2, ContinueRecords
    <3> QED BY <2>2, <3>1, <3>2, ContinueExec DEF IOutcome, CompleteMeansNoFailure, execVars
  <2>3. ASSUME NEW t \in Tasks, Submit(t) PROVE IOutcome'
    BY <2>3 DEF Submit, IOutcome, CompleteMeansNoFailure, Working, Steps, IType, TypeOK, ExecOK
  <2>4. ASSUME NEW t \in Tasks, Exec(t) PROVE IOutcome'
    BY <2>4, ExecOutcome
  <2>5. CASE Crash
    BY <2>5 DEF Crash, IOutcome, CompleteMeansNoFailure, Working
  <2>6. CASE UNCHANGED vars
    BY <2>6 DEF vars, IOutcome, CompleteMeansNoFailure
  <2> QED BY <2>1, <2>2, <2>3, <2>4, <2>5, <2>6 DEF Next
<1>3. IOutcome => CompleteMeansNoFailure
  BY DEF IOutcome
<1> QED BY <1>1, <1>2, <1>3, TypeInvariance, PTL DEF Spec

-----------------------------------------------------------------------------
(* One file in transfer. *)

\* Unless the process can die, a record is in state transferring only while
\* its executor is between the save before and the save after the transfer.
THEOREM TransferringRecordsAreOwned == Spec => []TransferringIsOwned
<1>1. Init => TransferringIsOwned
  BY DEF Init, TransferringIsOwned
<1>2. IType /\ TransferringIsOwned /\ [Next]_vars => TransferringIsOwned'
  <2> SUFFICES ASSUME IType, TransferringIsOwned, [Next]_vars, ~CanCrash
               PROVE  TransferringIsOwned'
    BY DEF TransferringIsOwned
  <2>1. ASSUME NEW r \in Requests, NewCall(r) PROVE TransferringIsOwned'
    BY <2>1, NewCallEffects DEF TransferringIsOwned, execVars
  <2>2. ASSUME NEW r \in Requests, Continue(r) PROVE TransferringIsOwned'
    <3>1. \A t \in Tasks, f \in Files :
             rec'[t][f] = "transferring" => rec[t][f] = "transferring"
      BY <2>2, ContinueRecords
    <3> QED BY <2>2, <3>1, ContinueExec DEF TransferringIsOwned, execVars
  <2>3. ASSUME NEW t \in Tasks, Submit(t) PROVE TransferringIsOwned'
    BY <2>3 DEF Submit, TransferringIsOwned, IType, TypeOK, ExecOK
  <2>4. ASSUME NEW t \in Tasks, Exec(t) PROVE TransferringIsOwned'
    <3> USE DEF TransferringIsOwned, IType, TypeOK, RowsOK, ExecOK, Step
    <3>1. CASE Begin(t) \/ Fetch(t) \/ NextRecord(t) \/ LoopEnds(t) \/ Release(t)
      BY <2>4, <3>1 DEF Begin, Fetch, NextRecord, LoopEnds, Release
    <3>2. CASE Mark(t)
      BY <3>2 DEF Mark
    <3>3. CASE Copy(t)
      <4>1. PICK out \in Outcomes :
              rec' = [rec EXCEPT ![t][cur[t]] = IF out = "skipped" /\ @ # "none" THEN out ELSE @]
        BY <3>3 DEF Copy
      <4>2. \A u \in Tasks, f \in Files :
               rec'[u][f] = "transferring" => rec[u][f] = "transferring"
        BY <4>1
      <4> QED BY <3>3, <4>2 DEF Copy
    <3>4. CASE SaveRecord(t)
      <4>1. mem[t] \in Outcomes
        BY <3>4 DEF SaveRecord, MemOK
      <4>2. \A f \in Files : rec'[t][f] # "transferring"
        BY <3>4, <4>1 DEF SaveRecord, Outcomes
      <4>3. \A u \in Tasks \ {t} : rec'[u] = rec[u] /\ pc'[u] = pc[u] /\ cur'[u] = cur[u]
        BY <3>4 DEF SaveRecord
      <4> QED BY <4>2, <4>3
    <3>5. CASE Refresh(t) \/ Decide(t)
      BY <3>5 DEF Refresh, Decide
    <3>6. CASE Final(t) \/ GiveUp(t)
      BY <3>6 DEF Final, GiveUp
    <3> QED BY <2>4, <3>1, <3>2, <3>3, <3>4, <3>5, <3>6 DEF Exec
  <2>5. CASE Crash
    BY <2>5 DEF Crash
  <2>6. CASE UNCHANGED vars
    BY <2>6 DEF vars, TransferringIsOwned
  <2> QED BY <2>1, <2>2, <2>3, <2>4, <2>5, <2>6 DEF Next
<1> QED BY <1>1, <1>2, TypeInvariance, PTL DEF Spec

-----------------------------------------------------------------------------
(* Cancellation. *)

\* What is cancelled, or about to be saved as such, has begun one file at most
\* since; and none, as long as the executor may still begin that one.
ILate == \A t \in Tasks :
    /\ task[t] = "cancelled" => late[t] <= 1
    /\ task[t] = "cancelled" /\ pc[t] = "mark" => late[t] = 0
    /\ pc[t] = "final" /\ mem[t] = "cancelled" => late[t] <= 1

\* As long as its row says that a task is cancelled, at most one file was begun
\* since the cancel, however starts, retries and crashes interleave (execute,
\* cancel_transfer).
THEOREM CancelStopsAfterOneFile == Spec => []CancelStopsNewFiles
<1>1. Init => ILate
  BY DEF Init, ILate
<1>2. IType /\ ILate /\ [Next]_vars => ILate'
  <2> SUFFICES ASSUME IType, ILate, [Next]_vars PROVE ILate'
    OBVIOUS
  <2> USE DEF ILate
  <2>1. ASSUME NEW r \in Requests, NewCall(r) PROVE ILate'
    BY <2>1, NewCallEffects DEF execVars
  <2>2. ASSUME NEW r \in Requests, Continue(r) PROVE ILate'
    BY <2>2, ContinueTask, ContinueExec DEF execVars
  <2>3. ASSUME NEW t \in Tasks, Submit(t) PROVE ILate'
    BY <2>3 DEF Submit, IType, TypeOK, ExecOK
  <2>4. ASSUME NEW t \in Tasks, Exec(t) PROVE ILate'
    <3> USE DEF IType, TypeOK, RowsOK, ExecOK, Step, SaveStatus
    <3>1. CASE Begin(t)
      BY <3>1 DEF Begin
    <3>2. CASE Fetch(t) \/ LoopEnds(t) \/ Release(t) \/ Copy(t)
      BY <3>2 DEF Fetch, LoopEnds, Release, Copy
    <3>3. CASE NextRecord(t)
      BY <3>3 DEF NextRecord
    <3>4. CASE Mark(t)
      BY <3>4 DEF Mark
    <3>5. CASE SaveRecord(t) \/ Refresh(t) \/ Decide(t)
      BY <3>5 DEF SaveRecord, Refresh, Decide
    <3>6. CASE Final(t) \/ GiveUp(t)
      BY <3>6 DEF Final, GiveUp
    <3> QED BY <2>4, <3>1, <3>2, <3>3, <3>4, <3>5, <3>6 DEF Exec
  <2>5. CASE Crash
    BY <2>5 DEF Crash
  <2>6. CASE UNCHANGED vars
    BY <2>6 DEF vars
  <2> QED BY <2>1, <2>2, <2>3, <2>4, <2>5, <2>6 DEF Next
<1>3. ILate => CancelStopsNewFiles
  BY DEF ILate, CancelStopsNewFiles
<1> QED BY <1>1, <1>2, <1>3, TypeInvariance, PTL DEF Spec

\* No save of an executor that outlives its task brings the row back.
THEOREM DeletionIsFinal == Spec => DeletedForever
<1>1. IType /\ [Next]_vars =>
        [\A t \in Tasks : task[t] = "deleted" => task'[t] = "deleted"]_vars
  <2> SUFFICES ASSUME IType, [Next]_vars, NEW t \in Tasks, task[t] = "deleted"
               PROVE  task'[t] = "deleted"
    OBVIOUS
  <2>1. ASSUME NEW r \in Requests, NewCall(r) PROVE task'[t] = "deleted"
    BY <2>1, NewCallEffects
  <2>2. ASSUME NEW r \in Requests, Continue(r) PROVE task'[t] = "deleted"
    BY <2>2, ContinueTask
  <2>3. ASSUME NEW u \in Tasks, Submit(u) \/ Exec(u) PROVE task'[t] = "deleted"
    <3>1. ~Exists(t)
      BY DEF Exists, TaskStatus
    <3>2. (\E s : SaveStatus(u, s)) \/ UNCHANGED task
      BY <2>3 DEF Submit, Exec, Begin, Fetch, NextRecord, LoopEnds, Mark, Copy, SaveRecord,
         Refresh, Decide, Final, GiveUp, Release
    <3> QED BY <3>1, <3>2 DEF SaveStatus, IType, TypeOK, RowsOK
  <2>4. CASE Crash \/ UNCHANGED vars
    BY <2>4 DEF Crash, vars
  <2> QED BY <2>1, <2>2, <2>3, <2>4 DEF Next
<1> QED BY <1>1, TypeInvariance, PTL DEF Spec, DeletedForever

-----------------------------------------------------------------------------
(* A complete task, when each task is started by the request that made it. *)

\* A request that inserts the rows of a new task and is to start it.
Starts(r) == rpc[r] \in {"records", "startsave", "schedule"}

\* A task is started by the request that made it, once, when its rows are there.
StartedOnce ==
    /\ \A r \in Requests : rpc[r] \notin {"retrysave", "retryrecs"}
    /\ \A r \in Requests : Starts(r) =>
          /\ rtask[r] \notin jobs /\ pc[rtask[r]] = "idle"
          /\ task[rtask[r]] \notin {"none", "complete"}
          /\ \A q \in Requests \ {r} : Starts(q) => rtask[q] # rtask[r]
    /\ \A t \in Tasks : t \in jobs => pc[t] = "idle"
    /\ \A t \in Tasks : task[t] = "none" => t \notin jobs /\ pc[t] = "idle"

Handled(t, f) == rec[t][f] \in {"complete", "skipped", "none"}
Tried(t, f)   == Handled(t, f) \/ rec[t][f] = "failed"

\* What the executor of t has passed it has tried; what it leaves untried at its
\* end is of a task that was cancelled or deleted.
TriedSoFar(t) ==
    /\ pc[t] \in {"loop", "mark", "copy", "save"} =>
          \A f \in Files : Tried(t, f) \/ f \in todo[t] \/ (pc[t] # "loop" /\ f = cur[t])
    /\ pc[t] = "refresh" =>
          (\A f \in Files : Tried(t, f)) \/ task[t] \in {"cancelled", "deleted"}
    /\ pc[t] = "decide" => \A f \in Files : Tried(t, f)
    /\ pc[t] = "final" /\ mem[t] = "complete" => \A f \in Files : Handled(t, f)
    /\ task[t] = "complete" =>
          /\ pc[t] \in {"done", "idle"} /\ t \notin jobs
          /\ \A f \in Files : Handled(t, f)

\* Before its executor has fetched them, no record of a task is in transfer: no
\* executor has been at work on it, not even one that a crash has ended.
NotBegun(t) ==
    \/ t \in jobs
    \/ pc[t] \in {"begin", "fetch"}
    \/ task[t] = "none"
    \/ \E r \in Requests : Starts(r) /\ rtask[r] = t

FirstRun(t) == NotBegun(t) => \A f \in Files : rec[t][f] # "transferring"

IHandled == StartedOnce /\ \A t \in Tasks : TriedSoFar(t) /\ FirstRun(t)

LEMMA NewCallHandled ==
    ASSUME IType, StartedByMaker, IHandled, NEW r \in Requests, NewCall(r)
    PROVE  IHandled'
<1>1. UNCHANGED <<task, rec, jobs, pc, todo, cur, mem>>
  BY NewCallEffects DEF execVars
<1>2. ~StartRead(r) /\ ~RetryRead(r)
  BY DEF StartedByMaker, StartRead, RetryRead, Call
<1>3. /\ rpc'[r] \in {"insert", "cancelsave", "killsave", "delrecs"}
      /\ \A q \in Requests \ {r} : rpc'[q] = rpc[q] /\ rtask'[q] = rtask[q]
  BY <1>2 DEF NewCall, CreateCheck, CancelRead, DestroyRead, Call, IType, TypeOK, RequestsOK
<1>4. \A q \in Requests : (Starts(q))' => q # r /\ Starts(q) /\ rtask'[q] = rtask[q]
  BY <1>3 DEF Starts
<1>5. StartedOnce'
  BY <1>1, <1>3, <1>4 DEF IHandled, StartedOnce
<1>6. \A t \in Tasks : (TriedSoFar(t))'
  BY <1>1 DEF IHandled, TriedSoFar, Tried, Handled
<1>7. \A t \in Tasks : (FirstRun(t))'
  BY <1>1, <1>4 DEF IHandled, FirstRun, NotBegun
<1> QED BY <1>5, <1>6, <1>7 DEF IHandled

\* What one step of a request does to the requests, the tasks and the jobs.
LEMMA ContinueBooks ==
    ASSUME IType, IHandled, NEW r \in Requests, Continue(r)
    PROVE  /\ rpc'[r] \notin {"retrysave", "retryrecs"}
           /\ \A q \in Requests \ {r} : rpc'[q] = rpc[q] /\ rtask'[q] = rtask[q]
           /\ \/ /\ jobs' = jobs
                 /\ (Starts(r))' => Starts(r) /\ rtask'[r] = rtask[r]
              \/ /\ jobs' = jobs
                 /\ rtask'[r] \in Tasks
                 /\ task[rtask'[r]] = "none" /\ task'[rtask'[r]] = "pending"
              \/ /\ Starts(r) /\ ~(Starts(r))'
                 /\ jobs' = jobs \cup {rtask[r]}
<1> USE DEF IType, TypeOK, RowsOK, RequestsOK, Starts, At
<1>1. rpc[r] \notin {"retrysave", "retryrecs"}
  BY DEF IHandled, StartedOnce
<1>2. CASE InsertTask(r)
  BY <1>2 DEF InsertTask
<1>3. CASE InsertRecord(r)
  BY <1>3 DEF InsertRecord, Goto, Finish
<1>4. CASE StartSave(r)
  BY <1>4 DEF StartSave, GotoIfSaved, Goto, Finish
<1>5. CASE Schedule(r)
  BY <1>5 DEF Schedule, Finish
<1>6. CASE ScheduleFails(r) \/ CancelRecords(r) \/ DestroyTask(r)
  BY <1>6 DEF ScheduleFails, CancelRecords, DestroyTask, Finish
<1>7. CASE CancelSave(r) \/ DestroyCancel(r)
  BY <1>7 DEF CancelSave, DestroyCancel, MarkCancelled, GotoIfSaved, Goto, Finish
<1>8. CASE DestroySkip(r) \/ DestroyRecords(r)
  BY <1>8 DEF DestroySkip, DestroyRecords, Goto
<1> QED BY <1>1, <1>2, <1>3, <1>4, <1>5, <1>6, <1>7, <1>8
        DEF Continue, RetrySave, RetryRecords

\* ... and to the row and the records of one task.
LEMMA ContinueRows ==
    ASSUME IType, IHandled, NEW r \in Requests, Continue(r), NEW t \in Tasks
    PROVE  /\ task'[t] = "none" => task[t] = "none"
           /\ ~(Starts(r) /\ t = rtask[r]) =>
                 /\ task[t] \in {"cancelled", "deleted"} => task'[t] \in {"cancelled", "deleted"}
                 /\ \A f \in Files : /\ Handled(t, f) => (Handled(t, f))'
                                     /\ Tried(t, f) => (Tried(t, f))'
<1> USE DEF IType, TypeOK, RowsOK
<1>1. rpc[r] \notin {"retrysave", "retryrecs"}
  BY DEF IHandled, StartedOnce
<1>2. SUFFICES /\ task'[t] = "none" => task[t] = "none"
               /\ ~(Starts(r) /\ t = rtask[r]) =>
                    /\ task[t] \in {"cancelled", "deleted"} => task'[t] \in {"cancelled", "deleted"}
                    /\ \A f \in Files : rec'[t][f] \in {rec[t][f], "skipped", "none"}
  BY DEF Handled, Tried
<1>3. CASE InsertTask(r)
  BY <1>3 DEF InsertTask
<1>4. CASE InsertRecord(r)
  BY <1>4 DEF InsertRecord, Starts, At
<1>5. CASE StartSave(r) \/ ScheduleFails(r)
  BY <1>5 DEF StartSave, ScheduleFails, SaveStatus, Starts, At
<1>6. CASE CancelSave(r) \/ DestroyCancel(r)
  BY <1>6 DEF CancelSave, DestroyCancel, MarkCancelled, SaveStatus
<1>7. CASE CancelRecords(r) \/ DestroySkip(r) \/ DestroyRecords(r)
  BY <1>7, UpdateRecordsEffect DEF CancelRecords, DestroySkip, DestroyRecords
<1>8. CASE DestroyTask(r)
  BY <1>8, UpdateRecordsEffect DEF DestroyTask
<1>9. CASE Schedule(r)
  BY <1>9 DEF Schedule
<1> QED BY <1>1, <1>3, <1>4, <1>5, <1>6, <1>7, <1>8, <1>9
        DEF Continue, RetrySave, RetryRecords, At

LEMMA ContinueHandled ==
    ASSUME IType, IHandled, NEW r \in Requests, Continue(r)
    PROVE  IHandled'
<1>1. StartedOnce
  BY DEF IHandled
<1>2. UNCHANGED <<pc, todo, cur, mem>>
  BY ContinueExec DEF execVars
<1>3. /\ rpc'[r] \notin {"retrysave", "retryrecs"}
      /\ \A q \in Requests \ {r} : rpc'[q] = rpc[q] /\ rtask'[q] = rtask[q]
  BY ContinueBooks
<1>4. \A t \in Tasks : task'[t] \in {"none", "complete"} => task'[t] = task[t]
  BY ContinueRows, ContinueTask
<1>5. \A q \in Requests : Starts(q) => rtask[q] \in Tasks
  BY DEF Starts, IType, WorksOnTask
<1>6. \A q \in Requests \ {r} : (Starts(q))' <=> Starts(q)
  BY <1>3 DEF Starts
<1>7. StartedOnce'
  <2>1. CASE jobs' = jobs /\ ((Starts(r))' => Starts(r) /\ rtask'[r] = rtask[r])
    BY <1>1, <1>2, <1>3, <1>4, <1>5, <1>6, <2>1 DEF StartedOnce
  <2>2. CASE /\ jobs' = jobs
             /\ rtask'[r] \in Tasks
             /\ task[rtask'[r]] = "none" /\ task'[rtask'[r]] = "pending"
    BY <1>1, <1>2, <1>3, <1>4, <1>5, <1>6, <2>2 DEF StartedOnce
  <2>3. CASE Starts(r) /\ ~(Starts(r))' /\ jobs' = jobs \cup {rtask[r]}
    BY <1>1, <1>2, <1>3, <1>4, <1>5, <1>6, <2>3 DEF StartedOnce
  <2> QED BY <2>1, <2>2, <2>3, ContinueBooks
<1>8. ASSUME NEW t \in Tasks PROVE (TriedSoFar(t))'
  <2>1. TriedSoFar(t)
    BY DEF IHandled
  <2>2. Starts(r) /\ t = rtask[r] => pc[t] = "idle" /\ task[t] # "complete"
    BY <1>1 DEF StartedOnce
  <2>3. t \in jobs' => t \in jobs \/ (Starts(r) /\ t = rtask[r])
    BY ContinueBooks
  <2>4. task'[t] = "complete" => task[t] = "complete"
    BY <1>4
  <2>5. CASE Starts(r) /\ t = rtask[r]
    BY <1>2, <2>2, <2>4, <2>5 DEF TriedSoFar
  <2>6. CASE ~(Starts(r) /\ t = rtask[r])
    <3>1. /\ task[t] \in {"cancelled", "deleted"} => task'[t] \in {"cancelled", "deleted"}
          /\ \A f \in Files : /\ Handled(t, f) => (Handled(t, f))'
                              /\ Tried(t, f) => (Tried(t, f))'
      BY <2>6, ContinueRows
    <3> QED BY <1>2, <2>1, <2>3, <2>4, <2>6, <3>1 DEF TriedSoFar
  <2> QED BY <2>5, <2>6
<1>9. ASSUME NEW t \in Tasks PROVE (FirstRun(t))'
  <2>1. (NotBegun(t))' => NotBegun(t)
    BY <1>2, <1>3, <1>4, <1>6, ContinueBooks DEF NotBegun
  <2>2. \A f \in Files : rec'[t][f] = "transferring" => rec[t][f] = "transferring"
    BY ContinueRecords
  <2> QED BY <2>1, <2>2 DEF IHandled, FirstRun
<1> QED BY <1>7, <1>8, <1>9 DEF IHandled

LEMMA SubmitHandled ==
    ASSUME IType, IHandled, NEW t \in Tasks, Submit(t)
    PROVE  IHandled'
<1>1. /\ UNCHANGED <<task, rec, todo, cur, mem, rpc, rtask>>
      /\ t \in jobs /\ jobs' = jobs \ {t}
      /\ pc[t] = "idle" /\ pc'[t] = "begin"
      /\ \A u \in Tasks \ {t} : pc'[u] = pc[u]
  BY DEF Submit, reqVars, IHandled, StartedOnce, IType, TypeOK, ExecOK
<1>2. \A q \in Requests : Starts(q) => rtask[q] \in Tasks
  BY DEF Starts, IType, WorksOnTask
<1>3. \A q \in Requests : (Starts(q))' <=> Starts(q)
  BY <1>1 DEF Starts
<1>4. StartedOnce'
  BY <1>1, <1>2, <1>3 DEF IHandled, StartedOnce
<1>5. \A u \in Tasks : (TriedSoFar(u))'
  BY <1>1 DEF IHandled, TriedSoFar, Tried, Handled
<1>6. \A u \in Tasks : (FirstRun(u))'
  BY <1>1, <1>3 DEF IHandled, FirstRun, NotBegun
<1> QED BY <1>4, <1>5, <1>6 DEF IHandled

\* A step of the executor of t leaves the rest alone.
LEMMA ExecOthers ==
    ASSUME IType, NEW t \in Tasks, Exec(t)
    PROVE  /\ UNCHANGED <<jobs, rpc, rtask>>
           /\ pc[t] # "idle"
           /\ task'[t] = "none" => task[t] = "none"
           /\ \A u \in Tasks \ {t} :
                 /\ task'[u] = task[u] /\ rec'[u] = rec[u] /\ pc'[u] = pc[u]
                 /\ todo'[u] = todo[u] /\ cur'[u] = cur[u] /\ mem'[u] = mem[u]
<1> USE DEF IType, TypeOK, RowsOK, ExecOK, Step, SaveStatus, reqVars
<1>1. CASE Begin(t)
  BY <1>1 DEF Begin
<1>2. CASE Fetch(t) \/ LoopEnds(t) \/ Release(t)
  BY <1>2 DEF Fetch, LoopEnds, Release
<1>3. CASE NextRecord(t)
  BY <1>3 DEF NextRecord
<1>4. CASE Mark(t)
  BY <1>4 DEF Mark
<1>5. CASE Copy(t)
  BY <1>5 DEF Copy
<1>6. CASE SaveRecord(t)
  BY <1>6 DEF SaveRecord
<1>7. CASE Refresh(t) \/ Decide(t)
  BY <1>7 DEF Refresh, Decide
<1>8. CASE Final(t)
  BY <1>8 DEF Final, MemOK
<1>9. CASE GiveUp(t)
  BY <1>9 DEF GiveUp
<1> QED BY <1>1, <1>2, <1>3, <1>4, <1>5, <1>6, <1>7, <1>8, <1>9 DEF Exec

LEMMA ExecTried ==
    ASSUME IType, NEW t \in Tasks, t \notin jobs, TriedSoFar(t), FirstRun(t), Exec(t)
    PROVE  (TriedSoFar(t))'
<1> USE DEF TriedSoFar, IType, TypeOK, RowsOK, ExecOK, Step, SaveStatus
<1>1. CASE Begin(t)
  BY <1>1 DEF Begin, Exists, TaskStatus
<1>2. CASE Fetch(t)
  <2>1. \A f \in Files : rec[t][f] # "transferring"
    BY <1>2 DEF Fetch, FirstRun, NotBegun
  <2>2. \A f \in Files : (Tried(t, f))' \/ f \in todo'[t]
    BY <1>2, <2>1 DEF Fetch, Tried, Handled, RecStatus
  <2> QED BY <1>2, <2>2 DEF Fetch
<1>3. CASE NextRecord(t)
  BY <1>3 DEF NextRecord, Tried, Handled
<1>4. CASE LoopEnds(t)
  BY <1>4 DEF LoopEnds, Tried, Handled
<1>5. CASE Mark(t)
  <2>1. \A f \in Files : f # cur[t] => rec'[t][f] = rec[t][f]
    BY <1>5 DEF Mark
  <2> QED BY <1>5, <2>1 DEF Mark, Tried, Handled
<1>6. CASE Copy(t)
  <2>1. \A f \in Files : f # cur[t] => rec'[t][f] = rec[t][f]
    BY <1>6 DEF Copy
  <2> QED BY <1>6, <2>1 DEF Copy, Tried, Handled
<1>7. CASE SaveRecord(t)
  <2>1. \A f \in Files : f # cur[t] => rec'[t][f] = rec[t][f]
    BY <1>7 DEF SaveRecord
  <2>2. rec[t][cur[t]] # "none" => \A f \in Files : f = cur[t] => (Tried(t, f))'
    BY <1>7 DEF SaveRecord, MemOK, Outcomes, Tried, Handled
  <2> QED BY <1>7, <2>1, <2>2 DEF SaveRecord, Tried, Handled
<1>8. CASE Refresh(t)
  BY <1>8 DEF Refresh, Exists, TaskStatus, Tried, Handled
<1>9. CASE Decide(t)
  BY <1>9 DEF Decide, Tried, Handled
<1>10. CASE Final(t)
  BY <1>10 DEF Final, Handled
<1>11. CASE GiveUp(t)
  BY <1>11 DEF GiveUp
<1>12. CASE Release(t)
  BY <1>12 DEF Release, Handled
<1> QED BY <1>1, <1>2, <1>3, <1>4, <1>5, <1>6, <1>7, <1>8, <1>9, <1>10, <1>11, <1>12 DEF Exec

LEMMA ExecHandled ==
    ASSUME IType, IHandled, NEW t \in Tasks, Exec(t)
    PROVE  IHandled'
<1>1. /\ UNCHANGED <<jobs, rpc, rtask>>
      /\ pc[t] # "idle"
      /\ task'[t] = "none" => task[t] = "none"
      /\ \A u \in Tasks \ {t} :
            /\ task'[u] = task[u] /\ rec'[u] = rec[u] /\ pc'[u] = pc[u]
            /\ todo'[u] = todo[u] /\ cur'[u] = cur[u] /\ mem'[u] = mem[u]
  BY ExecOthers
<1>2. \A q \in Requests : Starts(q) => rtask[q] \in Tasks \ {t}
  BY <1>1 DEF Starts, IType, WorksOnTask, IHandled, StartedOnce
<1>3. \A q \in Requests : (Starts(q))' <=> Starts(q)
  BY <1>1 DEF Starts
<1>4. StartedOnce'
  BY <1>1, <1>2, <1>3 DEF IHandled, StartedOnce
<1>5. (TriedSoFar(t))'
  BY <1>1, ExecTried DEF IHandled, StartedOnce
<1>6. \A u \in Tasks \ {t} : (TriedSoFar(u))'
  BY <1>1 DEF IHandled, TriedSoFar, Tried, Handled
<1>7. (FirstRun(t))'
  <2>1. (NotBegun(t))' => Begin(t)
    <3>1. pc'[t] \in {"begin", "fetch"} => Begin(t)
      BY DEF Exec, Begin, Fetch, NextRecord, LoopEnds, Mark, Copy, SaveRecord, Refresh, Decide,
         Final, GiveUp, Release, Step, IType, TypeOK, ExecOK
    <3> QED BY <1>1, <1>2, <1>3, <3>1 DEF NotBegun, IHandled, StartedOnce
  <2>2. Begin(t) => UNCHANGED rec /\ pc[t] = "begin"
    BY DEF Begin, Step
  <2> QED BY <2>1, <2>2 DEF IHandled, FirstRun, NotBegun
<1>8. \A u \in Tasks \ {t} : (FirstRun(u))'
  BY <1>1, <1>3 DEF IHandled, FirstRun, NotBegun
<1> QED BY <1>4, <1>5, <1>6, <1>7, <1>8 DEF IHandled

\* A task that its maker has started and that is reported complete has every
\* record copied, skipped or gone (the comment "all done" of execute), whatever
\* cancels, deletions and crashes interleave.
THEOREM CompleteTasksAreHandled == Spec => []CompleteMeansAllHandled
<1> DEFINE Inv == StartedByMaker => IHandled
<1>1. Init => Inv
  BY DEF Init, IHandled, StartedOnce, Starts, TriedSoFar, FirstRun
<1>2. IType /\ Inv /\ [Next]_vars => Inv'
  <2> SUFFICES ASSUME IType, StartedByMaker, IHandled, [Next]_vars PROVE IHandled'
    BY DEF StartedByMaker
  <2>1. ASSUME NEW r \in Requests, NewCall(r) PROVE IHandled'
    BY <2>1, NewCallHandled
  <2>2. ASSUME NEW r \in Requests, Continue(r) PROVE IHandled'
    BY <2>2, ContinueHandled
  <2>3. ASSUME NEW t \in Tasks, Submit(t) PROVE IHandled'
    BY <2>3, SubmitHandled
  <2>4. ASSUME NEW t \in Tasks, Exec(t) PROVE IHandled'
    BY <2>4, ExecHandled
  <2>5. CASE Crash
    BY <2>5 DEF Crash, IHandled, StartedOnce, Starts, TriedSoFar, FirstRun, NotBegun, Handled
  <2>6. CASE UNCHANGED vars
    BY <2>6 DEF vars, IHandled, StartedOnce, Starts, TriedSoFar, FirstRun, NotBegun, Tried, Handled
  <2> QED BY <2>1, <2>2, <2>3, <2>4, <2>5, <2>6 DEF Next
<1>3. Inv => CompleteMeansAllHandled
  BY DEF IHandled, TriedSoFar, Handled, CompleteMeansAllHandled
<1> HIDE DEF Inv
<1> QED BY <1>1, <1>2, <1>3, TypeInvariance, PTL DEF Spec
=============================================================================
