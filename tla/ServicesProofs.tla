--------------------------- MODULE ServicesProofs ---------------------------
(***************************************************************************)
(* Theorems about BackupEngine, for every number of rows, threads and      *)
(* requests, every length of the pool's queue, and crashes at any step,    *)
(* and about WafConfig, for every number of requests, saves and mishaps;   *)
(* the last one is about both side by side, as MCServices checks them.     *)
(***************************************************************************)
EXTENDS MCServices, FiniteSetTheorems, TLAPS

\* A request past its checks has a row, a thread with a job has one too, the
\* last steps of a job are those of its kind, and a thread is in the locked set
\* only while it has the file open.
RequestShape ==
    \A r \in Callers :
        /\ cpc[r] \notin {"idle", "insert"} => rrow[r] \in Rows
        /\ cpc[r] = "presubmit" => rpre[r] \in Rows

JobShape ==
    \A w \in Workers :
        /\ pc[w] # "idle" => row[w] \in Rows
        /\ pc[w] = "packed" => kind[w] = "backup"
        /\ pc[w] = "apply" => kind[w] = "restore"

LockShape ==
    \A w \in Workers :
        /\ pc[w] \in {"flock", "refuse", "mark", "work", "packed", "apply", "close"}
              => handle[w] # 0
        /\ pc[w] \in {"idle", "open", "flock", "refuse", "unlink"} => w \notin locked

\* A deleted row is not being restored.
RestoreShape == \A b \in Rows : rs[b] = "running" => HasRow(b)

IType == EngTypeOK /\ RequestShape /\ JobShape /\ LockShape /\ RestoreShape

LEMMA Numbers ==
    /\ Rows \subseteq Nat \ {0}
    /\ Rows \subseteq 0..NumRows
    /\ 0 \in 0..NumRows
    /\ Cardinality(Workers) \in Nat
    /\ Inodes \subseteq 0..Cardinality(Workers)
    /\ 0 \notin Inodes
    /\ 0 \in 0..Cardinality(Workers)
<1>1. Cardinality(Workers) \in Nat
  BY BackupAssumption, FS_CardinalityType
<1> QED BY <1>1, BackupAssumption DEF Rows, Inodes

LEMMA SetType ==
    ASSUME EngTypeOK, NEW b, NEW s
    PROVE  /\ s \in BackupStatus /\ SetBackup(b, s)
                => /\ bs' \in [Rows -> BackupStatus \cup {"none", "deleted"}]
                   /\ \A a \in Rows : bs'[a] \in BackupStatus <=> HasRow(a)
           /\ s \in RestoreStatus /\ SetRestore(b, s) => rs' \in [Rows -> RestoreStatus]
BY DEF EngTypeOK, SetBackup, SetRestore, HasRow

LEMMA InsertType ==
    ASSUME EngTypeOK, NEW b \in Rows, NEW s \in BackupStatus, Insert(b, s)
    PROVE  /\ bs' \in [Rows -> BackupStatus \cup {"none", "deleted"}]
           /\ \A a \in Rows : HasRow(a) => bs'[a] \in BackupStatus
BY DEF EngTypeOK, Insert, HasRow, BackupStatus

LEMMA SubmitType ==
    ASSUME EngTypeOK, NEW k \in Kinds, NEW b \in Rows, Enqueue(<<k, b>>)
    PROVE  queue' \in Seq(Kinds \X Rows)
<1>1. <<k, b>> \in Kinds \X Rows /\ queue \in Seq(Kinds \X Rows)
  BY DEF EngTypeOK
<1> QED BY <1>1 DEF Enqueue

LEMMA ReportType ==
    ASSUME IType, NEW w \in Workers, NEW s \in {"running", "failed"},
           row[w] \in Rows, ReportStatus(w, s)
    PROVE  /\ bs' \in [Rows -> BackupStatus \cup {"none", "deleted"}]
           /\ rs' \in [Rows -> RestoreStatus]
           /\ RestoreShape'
<1>1. s \in BackupStatus /\ s \in RestoreStatus
  BY DEF BackupStatus, RestoreStatus
<1>2. CASE kind[w] = "backup" /\ SetBackup(row[w], s) /\ UNCHANGED rs
  BY <1>1, <1>2, SetType DEF IType, EngTypeOK, RestoreShape, HasRow
<1>3. CASE kind[w] = "restore" /\ SetRestore(row[w], s) /\ UNCHANGED bs
  <2>1. rs' \in [Rows -> RestoreStatus]
    BY <1>1, <1>3, SetType DEF IType
  <2>2. rs' = [rs EXCEPT ![row[w]] = IF HasRow(row[w]) THEN s ELSE @]
    BY <1>3 DEF SetRestore
  <2> QED BY <1>3, <2>1, <2>2 DEF IType, EngTypeOK, RestoreShape, HasRow
<1> QED BY <1>2, <1>3 DEF ReportStatus

----------------------------------------------------------------------------
LEMMA NewCallType ==
    ASSUME IType, NEW r \in Callers, NewCall(r)
    PROVE  IType'
<1> USE Numbers DEF IType, EngTypeOK, CallSteps, RequestShape, JobShape, LockShape, RestoreShape,
                    engRows, jobVars, lock, callVars
<1>1. ASSUME NEW s \in CallSteps, NEW b \in 0..NumRows, Accept(r, s, b),
             s # "insert" => s \in {"count", "remove", "delrow", "cancel"} /\ b \in Rows
      PROVE  IType'
  BY <1>1 DEF Accept, Goto, HasRow
<1>2. CASE CreateCount(r)
  BY <1>1, <1>2 DEF CreateCount
<1>3. CASE RestoreLoad(r)
  BY <1>1, <1>3 DEF RestoreLoad
<1>4. CASE DeleteLoad(r)
  BY <1>1, <1>4 DEF DeleteLoad
<1>5. CASE CancelFind(r)
  BY <1>1, <1>5 DEF CancelFind
<1>6. CASE Upload(r)
  <2>0. PICK b \in Rows : \E f \in {b} \cup ({file[a] : a \in Rows} \ {0}) :
          Insert(b, "done") /\ file' = [file EXCEPT ![b] = f] /\ disk' = disk \cup {f}
    BY <1>6 DEF Upload
  <2>1. PICK f \in {b} \cup ({file[a] : a \in Rows} \ {0}) :
          Insert(b, "done") /\ file' = [file EXCEPT ![b] = f] /\ disk' = disk \cup {f}
    BY <2>0
  <2>2. f \in Rows
    <3>1. \A a \in Rows : file[a] \in 0..NumRows
      OBVIOUS
    <3> QED BY <2>1, <3>1, BackupAssumption DEF Rows
  <2>3. bs' \in [Rows -> BackupStatus \cup {"none", "deleted"}]
        /\ \A a \in Rows : HasRow(a) => bs'[a] \in BackupStatus
    BY <2>1, InsertType DEF BackupStatus
  <2>4. UNCHANGED <<rs, queue, jobVars, lock, callVars, lost>>
    BY <1>6 DEF Upload
  <2> QED BY <2>1, <2>2, <2>3, <2>4 DEF HasRow
<1> QED BY <1>2, <1>3, <1>4, <1>5, <1>6 DEF NewCall

LEMMA ContinueType ==
    ASSUME IType, NEW r \in Callers, Continue(r)
    PROVE  IType'
<1> USE Numbers DEF IType, EngTypeOK, CallSteps, RequestShape, JobShape, LockShape, RestoreShape,
                    engRows, jobVars, lock, callVars
<1>1. ASSUME NEW b \in Rows, Insert(b, "waiting"), UNCHANGED rs
      PROVE  /\ bs' \in [Rows -> BackupStatus \cup {"none", "deleted"}]
             /\ RestoreShape'
  BY <1>1, InsertType DEF BackupStatus, HasRow
<1>2. CASE CreateInsert(r)
  <2>1. PICK b \in Rows : Insert(b, "waiting") /\ rrow' = [rrow EXCEPT ![r] = b]
    BY <1>2 DEF CreateInsert
  <2> QED BY <1>1, <1>2, <2>1 DEF CreateInsert, Step, Goto
<1>3. CASE CreateSubmit(r)
  <2>1. queue' \in Seq(Kinds \X Rows)
    BY <1>3, SubmitType DEF CreateSubmit, Answer, Kinds
  <2> QED BY <1>3, <2>1 DEF CreateSubmit, Answer, HasRow
<1>4. CASE RestoreCount(r)
  <2>1. CASE Answer(r, "count")
    BY <1>4, <2>1 DEF RestoreCount, Answer, HasRow
  <2>2. CASE Step(r, "count", "preinsert") /\ UNCHANGED <<rrow, rpre>>
    BY <1>4, <2>2 DEF RestoreCount, Step, Goto, HasRow
  <2> QED BY <1>4, <2>1, <2>2 DEF RestoreCount
<1>5. CASE PreInsert(r)
  <2>1. PICK b \in Rows : Insert(b, "waiting") /\ rpre' = [rpre EXCEPT ![r] = b]
    BY <1>5 DEF PreInsert
  <2> QED BY <1>1, <1>5, <2>1 DEF PreInsert, Step, Goto
<1>6. CASE PreFails(r)
  BY <1>6 DEF PreFails, Step, Goto, HasRow
<1>7. CASE PreSubmit(r)
  <2>1. queue' \in Seq(Kinds \X Rows)
    BY <1>7, SubmitType DEF PreSubmit, Step, Kinds
  <2> QED BY <1>7, <2>1 DEF PreSubmit, Step, Goto, HasRow
<1>8. CASE RestoreSubmit(r)
  <2>1. queue' \in Seq(Kinds \X Rows)
    BY <1>8, SubmitType DEF RestoreSubmit, Answer, Kinds
  <2> QED BY <1>8, <2>1 DEF RestoreSubmit, Answer, HasRow
<1>9. CASE RemoveFile(r)
  BY <1>9 DEF RemoveFile, Step, Goto, HasRow
<1>10. CASE RemoveRow(r)
  <2>1. bs' \in [Rows -> BackupStatus \cup {"none", "deleted"}] /\ rs' \in [Rows -> RestoreStatus]
    BY <1>10 DEF RemoveRow, RestoreStatus
  <2>2. \A b \in Rows : rs'[b] = "running" => bs'[b] \in BackupStatus
    BY <1>10 DEF RemoveRow, HasRow, Answer
  <2> QED BY <1>10, <2>1, <2>2 DEF RemoveRow, Answer, HasRow
<1>11. CASE CancelMark(r)
  <2>1. /\ bs' \in [Rows -> BackupStatus \cup {"none", "deleted"}]
        /\ \A a \in Rows : bs'[a] \in BackupStatus <=> HasRow(a)
    BY <1>11, SetType DEF CancelMark, BackupStatus
  <2> QED BY <1>11, <2>1 DEF CancelMark, Answer, HasRow
<1> QED BY <1>2, <1>3, <1>4, <1>5, <1>6, <1>7, <1>8, <1>9, <1>10, <1>11 DEF Continue

LEMMA TakeType ==
    ASSUME IType, NEW w \in Workers, Take(w)
    PROVE  IType'
<1> USE Numbers DEF IType, EngTypeOK, WorkSteps, RequestShape, JobShape, LockShape, RestoreShape,
                    engRows, lock, callVars
<1>1. queue' \in Seq(Kinds \X Rows) /\ Head(queue) \in Kinds \X Rows
  BY DEF Take
<1>2. Head(queue)[1] \in Kinds /\ Head(queue)[2] \in Rows
  BY <1>1
<1>3. UNCHANGED <<engRows, lock, callVars, lost>> /\ pc[w] = "idle"
  BY DEF Take, JobStep
<1>4. CASE pc' = [pc EXCEPT ![w] = "idle"] /\ UNCHANGED <<kind, row>>
  BY <1>1, <1>3, <1>4 DEF HasRow
<1>5. CASE /\ pc' = [pc EXCEPT ![w] = "open"]
           /\ kind' = [kind EXCEPT ![w] = Head(queue)[1]]
           /\ row'  = [row EXCEPT ![w] = Head(queue)[2]]
  <2>1. kind' \in [Workers -> Kinds] /\ row' \in [Workers -> 0..NumRows] /\ pc' \in [Workers -> WorkSteps]
    BY <1>2, <1>5
  <2>2. JobShape'
    BY <1>2, <1>5
  <2>3. LockShape'
    BY <1>3, <1>5
  <2> QED BY <1>1, <1>3, <2>1, <2>2, <2>3 DEF HasRow
<1> QED BY <1>4, <1>5 DEF Take, JobStep

LEMMA WorkerType ==
    ASSUME IType, NEW w \in Workers, Worker(w)
    PROVE  IType'
<1> USE Numbers DEF IType, EngTypeOK, WorkSteps, RequestShape, JobShape, LockShape,
                    engRows, jobVars, lock, callVars, JobStep
<1>1. CASE Take(w)
  BY <1>1, TakeType
<1>2. CASE Open(w)
  <2>1. path' \in 0..Cardinality(Workers) /\ path' # 0
    BY <1>2 DEF Open
  <2> QED BY <1>2, <2>1 DEF Open, RestoreShape, HasRow
<1>3. CASE Flock(w)
  BY <1>3 DEF Flock, RestoreShape, HasRow
<1>4. CASE Refuse(w)
  <2>1. /\ bs' \in [Rows -> BackupStatus \cup {"none", "deleted"}]
        /\ rs' \in [Rows -> RestoreStatus]
        /\ RestoreShape'
    BY <1>4, ReportType DEF Refuse
  <2>2. kind' = [kind EXCEPT ![w] = "backup"] /\ row' = [row EXCEPT ![w] = 0]
    BY <1>4 DEF Refuse, Leave
  <2> QED BY <1>4, <2>1, <2>2 DEF Refuse, Kinds
<1>5. CASE Mark(w)
  <2>1. /\ bs' \in [Rows -> BackupStatus \cup {"none", "deleted"}]
        /\ rs' \in [Rows -> RestoreStatus]
        /\ RestoreShape'
    BY <1>5, ReportType DEF Mark
  <2> QED BY <1>5, <2>1 DEF Mark
<1>6. CASE Pack(w)
  BY <1>6 DEF Pack, RestoreShape, HasRow
<1>7. CASE Done(w)
  <2>1. /\ bs' \in [Rows -> BackupStatus \cup {"none", "deleted"}]
        /\ \A a \in Rows : bs'[a] \in BackupStatus <=> HasRow(a)
    BY <1>7, SetType DEF Done, BackupStatus
  <2> QED BY <1>7, <2>1 DEF Done, RestoreShape, HasRow
<1>8. CASE Extract(w)
  BY <1>8 DEF Extract, RestoreShape, HasRow
<1>9. CASE Applied(w)
  <2>1. rs' \in [Rows -> RestoreStatus]
    BY <1>9, SetType DEF Applied, RestoreStatus
  <2>2. rs' = [rs EXCEPT ![row[w]] = IF HasRow(row[w]) THEN "done" ELSE @] /\ UNCHANGED bs
    BY <1>9 DEF Applied, SetRestore
  <2>3. RestoreShape'
    BY <2>1, <2>2 DEF RestoreShape, HasRow
  <2> QED BY <1>9, <2>1, <2>3 DEF Applied
<1>10. CASE Raise(w)
  <2>1. /\ bs' \in [Rows -> BackupStatus \cup {"none", "deleted"}]
        /\ rs' \in [Rows -> RestoreStatus]
        /\ RestoreShape'
    BY <1>10, ReportType DEF Raise, Working
  <2> QED BY <1>10, <2>1 DEF Raise, Working
<1>11. CASE Close(w)
  BY <1>11 DEF Close, RestoreShape, HasRow
<1>12. CASE Unlink(w)
  <2>1. kind' = [kind EXCEPT ![w] = "backup"] /\ row' = [row EXCEPT ![w] = 0]
    BY <1>12 DEF Unlink, Leave
  <2> QED BY <1>12, <2>1 DEF Unlink, Kinds, RestoreShape, HasRow
<1> QED BY <1>1, <1>2, <1>3, <1>4, <1>5, <1>6, <1>7, <1>8, <1>9, <1>10, <1>11, <1>12 DEF Worker

LEMMA CrashType ==
    ASSUME IType, EngCrash
    PROVE  IType'
<1>1. lost' \subseteq Rows
  <2>1. lost \subseteq Rows
    BY DEF IType, EngTypeOK
  <2>2. \A r \in Callers : cpc[r] = "delrow" => rrow[r] \in Rows
    BY Numbers DEF IType, EngTypeOK, RequestShape, HasRow
  <2> QED BY <2>1, <2>2 DEF EngCrash
<1>2. queue' \in Seq(Kinds \X Rows)
  BY DEF EngCrash
<1> USE Numbers DEF IType, EngTypeOK, WorkSteps, CallSteps, Kinds,
                    RequestShape, JobShape, LockShape, RestoreShape, engRows, HasRow
<1> QED BY <1>1, <1>2 DEF EngCrash

LEMMA TypeStep == IType /\ [EngNext]_engVars => IType'
<1> SUFFICES ASSUME IType, [EngNext]_engVars PROVE IType'
  OBVIOUS
<1>1. ASSUME NEW r \in Callers, NewCall(r) \/ Continue(r) PROVE IType'
  BY <1>1, NewCallType, ContinueType
<1>2. ASSUME NEW w \in Workers, Worker(w) PROVE IType'
  BY <1>2, WorkerType
<1>3. CASE EngCrash
  BY <1>3, CrashType
<1>4. CASE UNCHANGED engVars
  BY <1>4 DEF engVars, engRows, jobVars, lock, callVars, IType, EngTypeOK,
              RequestShape, JobShape, LockShape, RestoreShape, HasRow
<1> QED BY <1>1, <1>2, <1>3, <1>4 DEF EngNext

LEMMA TypeInit == EngInit => IType
BY Numbers DEF EngInit, IType, EngTypeOK, RequestShape, JobShape, LockShape, RestoreShape, HasRow,
               BackupStatus, RestoreStatus, WorkSteps, CallSteps, Kinds

\* Every variable keeps its type and no thread holds the flock of a file it does
\* not have open.
THEOREM TypeCorrect == EngSpec => []EngTypeOK
<1>1. IType => EngTypeOK
  BY DEF IType
<1> QED BY <1>1, TypeInit, TypeStep, PTL DEF EngSpec

----------------------------------------------------------------------------
(* Every running job has a thread.  Requests leave the threads alone and    *)
(* mark nothing as running; a thread that stops working reports first.      *)

LEMMA RunningRequest ==
    ASSUME IType, RunningIsOwned, NEW r \in Callers, NewCall(r) \/ Continue(r)
    PROVE  RunningIsOwned'
<1>1. UNCHANGED <<jobVars, lost>>
  BY DEF NewCall, Continue, CreateCount, RestoreLoad, DeleteLoad, CancelFind, Upload, Accept,
         CreateInsert, CreateSubmit, RestoreCount, PreInsert, PreFails, PreSubmit,
         RestoreSubmit, RemoveFile, RemoveRow, CancelMark
<1>2. \A b \in Rows : bs'[b] = "running" => bs[b] = "running"
  BY DEF NewCall, Continue, CreateCount, RestoreLoad, DeleteLoad, CancelFind, Upload, Accept,
         CreateInsert, CreateSubmit, RestoreCount, PreInsert, PreFails, PreSubmit,
         RestoreSubmit, RemoveFile, RemoveRow, CancelMark,
         Insert, SetBackup, engRows, IType, EngTypeOK
<1>3. \A b \in Rows : rs'[b] = "running" => rs[b] = "running"
  BY DEF NewCall, Continue, CreateCount, RestoreLoad, DeleteLoad, CancelFind, Upload, Accept,
         CreateInsert, CreateSubmit, RestoreCount, PreInsert, PreFails, PreSubmit,
         RestoreSubmit, RemoveFile, RemoveRow, CancelMark, engRows, IType, EngTypeOK
<1> QED BY <1>1, <1>2, <1>3 DEF RunningIsOwned, Works, jobVars

\* A thread that goes on working owns what it owned.
LEMMA KeepsWorking ==
    ASSUME IType, RunningIsOwned, NEW w \in Workers, NEW from, NEW to \in WorkSteps,
           JobStep(w, from, to), from \in Working => to \in Working,
           UNCHANGED <<bs, rs, kind, row, lost>>
    PROVE  RunningIsOwned'
<1>1. \A v \in Workers, k \in Kinds, b \in Rows : Works(v, k, b) => Works(v, k, b)'
  BY DEF Works, JobStep, IType, EngTypeOK
<1> QED BY <1>1 DEF RunningIsOwned, Kinds

\* A thread that reports the end of its job owns nothing any more.
LEMMA StopsWorking ==
    ASSUME IType, RunningIsOwned, NEW w \in Workers, UNCHANGED lost, row[w] \in Rows,
           \A v \in Workers \ {w} : pc'[v] = pc[v] /\ kind'[v] = kind[v] /\ row'[v] = row[v],
           \A b \in Rows : bs'[b] = "running" =>
               bs[b] = "running" /\ ~(kind[w] = "backup" /\ row[w] = b),
           \A b \in Rows : rs'[b] = "running" =>
               rs[b] = "running" /\ ~(kind[w] = "restore" /\ row[w] = b)
    PROVE  RunningIsOwned'
BY DEF RunningIsOwned, Works

LEMMA ReportsEnd ==
    ASSUME IType, NEW w \in Workers, NEW s \in {"done", "failed"}, row[w] \in Rows, ReportStatus(w, s)
    PROVE  /\ \A b \in Rows : bs'[b] = "running" =>
                  bs[b] = "running" /\ ~(kind[w] = "backup" /\ row[w] = b)
           /\ \A b \in Rows : rs'[b] = "running" =>
                  rs[b] = "running" /\ ~(kind[w] = "restore" /\ row[w] = b)
<1>1. CASE kind[w] = "backup" /\ SetBackup(row[w], s) /\ UNCHANGED rs
  BY <1>1 DEF SetBackup, HasRow, BackupStatus, IType, EngTypeOK
<1>2. CASE kind[w] = "restore" /\ SetRestore(row[w], s) /\ UNCHANGED bs
  BY <1>2 DEF SetRestore, HasRow, RestoreShape, IType, EngTypeOK
<1> QED BY <1>1, <1>2 DEF ReportStatus

LEMMA RunningWorker ==
    ASSUME IType, RunningIsOwned, NEW w \in Workers, Worker(w)
    PROVE  RunningIsOwned'
<1> USE DEF engRows, JobStep
<1>1. CASE Take(w)
  <2>1. \A v \in Workers, k \in Kinds, b \in Rows : Works(v, k, b) => Works(v, k, b)'
    BY <1>1 DEF Take, Works, Working, IType, EngTypeOK
  <2> QED BY <1>1, <2>1 DEF Take, RunningIsOwned, Kinds
<1>2. CASE Open(w)
  BY <1>2, KeepsWorking DEF Open, WorkSteps, Working
<1>3. CASE Flock(w)
  <2>1. \A v \in Workers, k \in Kinds, b \in Rows : Works(v, k, b) => Works(v, k, b)'
    BY <1>3 DEF Flock, Works, Working, IType, EngTypeOK
  <2> QED BY <1>3, <2>1 DEF Flock, RunningIsOwned, Kinds
<1>4. CASE Refuse(w)
  <2>1. row[w] \in Rows
    BY <1>4 DEF Refuse, IType, JobShape
  <2>2. \A v \in Workers \ {w} : pc'[v] = pc[v] /\ kind'[v] = kind[v] /\ row'[v] = row[v]
    BY <1>4 DEF Refuse, Leave, IType, EngTypeOK
  <2>3. ReportStatus(w, "failed") /\ UNCHANGED lost
    BY <1>4 DEF Refuse
  <2>4. /\ \A b \in Rows : bs'[b] = "running" =>
              bs[b] = "running" /\ ~(kind[w] = "backup" /\ row[w] = b)
        /\ \A b \in Rows : rs'[b] = "running" =>
              rs[b] = "running" /\ ~(kind[w] = "restore" /\ row[w] = b)
    BY <2>1, <2>3, ReportsEnd
  <2> QED BY <2>1, <2>2, <2>3, <2>4, StopsWorking
<1>5. CASE Mark(w)
  <2>1. \A v \in Workers, k \in Kinds, b \in Rows : Works(v, k, b) => Works(v, k, b)'
    BY <1>5 DEF Mark, Works, Working, IType, EngTypeOK
  <2>2. Works(w, kind[w], row[w])'
    BY <1>5 DEF Mark, Works, Working, IType, EngTypeOK
  <2>3. \A b \in Rows : /\ bs'[b] = "running" => bs[b] = "running" \/ (kind[w] = "backup" /\ row[w] = b)
                        /\ rs'[b] = "running" => rs[b] = "running" \/ (kind[w] = "restore" /\ row[w] = b)
    BY <1>5 DEF Mark, ReportStatus, SetBackup, SetRestore, IType, EngTypeOK
  <2> QED BY <1>5, <2>1, <2>2, <2>3 DEF Mark, RunningIsOwned, Kinds
<1>6. CASE Pack(w)
  BY <1>6, KeepsWorking DEF Pack, WorkSteps, Working
<1>7. CASE Done(w)
  <2>1. row[w] \in Rows /\ kind[w] = "backup"
    BY <1>7 DEF Done, IType, JobShape
  <2>2. \A v \in Workers \ {w} : pc'[v] = pc[v] /\ kind'[v] = kind[v] /\ row'[v] = row[v]
    BY <1>7 DEF Done, IType, EngTypeOK
  <2>3. ReportStatus(w, "done") /\ UNCHANGED lost
    BY <1>7, <2>1 DEF Done, ReportStatus
  <2>4. /\ \A b \in Rows : bs'[b] = "running" =>
              bs[b] = "running" /\ ~(kind[w] = "backup" /\ row[w] = b)
        /\ \A b \in Rows : rs'[b] = "running" =>
              rs[b] = "running" /\ ~(kind[w] = "restore" /\ row[w] = b)
    BY <2>1, <2>3, ReportsEnd
  <2> QED BY <2>1, <2>2, <2>3, <2>4, StopsWorking
<1>8. CASE Extract(w)
  BY <1>8, KeepsWorking DEF Extract, WorkSteps, Working
<1>9. CASE Applied(w)
  <2>1. row[w] \in Rows /\ kind[w] = "restore"
    BY <1>9 DEF Applied, IType, JobShape
  <2>2. \A v \in Workers \ {w} : pc'[v] = pc[v] /\ kind'[v] = kind[v] /\ row'[v] = row[v]
    BY <1>9 DEF Applied, IType, EngTypeOK
  <2>3. ReportStatus(w, "done") /\ UNCHANGED lost
    BY <1>9, <2>1 DEF Applied, ReportStatus
  <2>4. /\ \A b \in Rows : bs'[b] = "running" =>
              bs[b] = "running" /\ ~(kind[w] = "backup" /\ row[w] = b)
        /\ \A b \in Rows : rs'[b] = "running" =>
              rs[b] = "running" /\ ~(kind[w] = "restore" /\ row[w] = b)
    BY <2>1, <2>3, ReportsEnd
  <2> QED BY <2>1, <2>2, <2>3, <2>4, StopsWorking
<1>10. CASE Raise(w)
  <2>1. row[w] \in Rows
    BY <1>10 DEF Raise, Working, IType, JobShape
  <2>2. \A v \in Workers \ {w} : pc'[v] = pc[v] /\ kind'[v] = kind[v] /\ row'[v] = row[v]
    BY <1>10 DEF Raise, IType, EngTypeOK
  <2>3. ReportStatus(w, "failed") /\ UNCHANGED lost
    BY <1>10 DEF Raise
  <2>4. /\ \A b \in Rows : bs'[b] = "running" =>
              bs[b] = "running" /\ ~(kind[w] = "backup" /\ row[w] = b)
        /\ \A b \in Rows : rs'[b] = "running" =>
              rs[b] = "running" /\ ~(kind[w] = "restore" /\ row[w] = b)
    BY <2>1, <2>3, ReportsEnd
  <2> QED BY <2>1, <2>2, <2>3, <2>4, StopsWorking
<1>11. CASE Close(w)
  BY <1>11, KeepsWorking DEF Close, WorkSteps, Working
<1>12. CASE Unlink(w)
  <2>1. \A v \in Workers, k \in Kinds, b \in Rows : Works(v, k, b) => Works(v, k, b)'
    BY <1>12 DEF Unlink, Leave, Works, Working, IType, EngTypeOK
  <2> QED BY <1>12, <2>1 DEF Unlink, RunningIsOwned, Kinds
<1> QED BY <1>1, <1>2, <1>3, <1>4, <1>5, <1>6, <1>7, <1>8, <1>9, <1>10, <1>11, <1>12 DEF Worker

LEMMA RunningStep == IType /\ RunningIsOwned /\ [EngNext]_engVars => RunningIsOwned'
<1> SUFFICES ASSUME IType, RunningIsOwned, [EngNext]_engVars PROVE RunningIsOwned'
  OBVIOUS
<1>1. ASSUME NEW r \in Callers, NewCall(r) \/ Continue(r) PROVE RunningIsOwned'
  BY <1>1, RunningRequest
<1>2. ASSUME NEW w \in Workers, Worker(w) PROVE RunningIsOwned'
  BY <1>2, RunningWorker
<1>3. CASE EngCrash
  BY <1>3 DEF EngCrash, RunningIsOwned, Unfinished, engRows
<1>4. CASE UNCHANGED engVars
  BY <1>4 DEF engVars, engRows, jobVars, RunningIsOwned, Works
<1> QED BY <1>1, <1>2, <1>3, <1>4 DEF EngNext

\* A backup or restore that is shown as running is one a thread works on,
\* unless the process died meanwhile: the status that keeps the next backup or
\* restore from being accepted is never left behind by a job that has ended.
THEOREM RunningJobsAreOwned == EngSpec => []RunningIsOwned
<1>1. EngInit => RunningIsOwned
  BY DEF EngInit, RunningIsOwned
<1> QED BY <1>1, TypeInit, TypeStep, RunningStep, PTL DEF EngSpec

----------------------------------------------------------------------------
(* Every waiting backup has an owner, handed from the request that inserted *)
(* the row to the queue of the pool and from there to a thread.             *)

Holds(r, b) == \/ cpc[r] = "submit" /\ rrow[r] = b
               \/ cpc[r] = "presubmit" /\ rpre[r] = b

Queued(b) == \E i \in 1..Len(queue) : queue[i] = <<"backup", b>>

Starts(w, b) == pc[w] \in Starting /\ kind[w] = "backup" /\ row[w] = b

Owned(b) == \/ \E r \in Callers : Holds(r, b)
            \/ Queued(b)
            \/ \E w \in Workers : Starts(w, b)

AllOwned == \A b \in Rows \ lost : bs[b] = "waiting" => Owned(b)

LEMMA OwnedIsWaiting == AllOwned <=> WaitingIsOwned
BY DEF AllOwned, WaitingIsOwned, Owned, Holds, Queued, Starts

\* A step after which every waiting row has an owner: the one it had, or a new one.
LEMMA Handed ==
    ASSUME AllOwned, UNCHANGED lost,
           \A b \in Rows : bs'[b] = "waiting" => (bs[b] = "waiting" /\ (Owned(b) => Owned(b)')) \/ Owned(b)'
    PROVE  AllOwned'
BY DEF AllOwned

LEMMA Appended ==
    ASSUME EngTypeOK, NEW job \in Kinds \X Rows, Enqueue(job)
    PROVE  /\ \A b \in Rows : Queued(b) => Queued(b)'
           /\ \A b \in Rows : job = <<"backup", b>> => Queued(b)'
<1>1. /\ queue \in Seq(Kinds \X Rows) /\ queue' = Append(queue, job)
      /\ Len(queue) \in Nat
  BY DEF EngTypeOK, Enqueue
<1>2. /\ Len(queue') = Len(queue) + 1
      /\ \A i \in 1..Len(queue) : queue'[i] = queue[i]
      /\ queue'[Len(queue) + 1] = job
  BY <1>1
<1>3. 1..Len(queue) \subseteq 1..Len(queue') /\ Len(queue) + 1 \in 1..Len(queue')
  BY <1>1, <1>2
<1> QED BY <1>2, <1>3 DEF Queued

LEMMA WaitingNewCall ==
    ASSUME IType, AllOwned, NEW r \in Callers, NewCall(r)
    PROVE  AllOwned'
<1>1. \A q \in Callers, b \in Rows : Holds(q, b) => Holds(q, b)'
  BY DEF NewCall, CreateCount, RestoreLoad, DeleteLoad, CancelFind, Upload, Accept, Goto, Holds,
         callVars, IType, EngTypeOK
<1>2. UNCHANGED <<queue, jobVars, lost>>
  BY DEF NewCall, CreateCount, RestoreLoad, DeleteLoad, CancelFind, Upload, Accept
<1>3. \A b \in Rows : bs'[b] = "waiting" => bs[b] = "waiting"
  BY DEF NewCall, CreateCount, RestoreLoad, DeleteLoad, CancelFind, Upload, Accept, Insert, engRows,
         IType, EngTypeOK
<1>4. \A b \in Rows : Owned(b) => Owned(b)'
  BY <1>1, <1>2 DEF Owned, Queued, Starts, jobVars
<1> QED BY <1>2, <1>3, <1>4, Handed

\* A request that inserts a row holds it.
LEMMA WaitingInsert ==
    ASSUME IType, AllOwned, NEW r \in Callers, CreateInsert(r) \/ PreInsert(r)
    PROVE  AllOwned'
<1>1. \A q \in Callers, b \in Rows : Holds(q, b) => Holds(q, b)'
  BY DEF CreateInsert, PreInsert, Step, Goto, Holds, IType, EngTypeOK
<1>2. UNCHANGED <<queue, jobVars, lost>>
  BY DEF CreateInsert, PreInsert
<1>3. PICK c \in Rows : Insert(c, "waiting") /\ Holds(r, c)'
  BY DEF CreateInsert, PreInsert, Step, Goto, Holds, IType, EngTypeOK
<1>4. \A b \in Rows : bs'[b] = "waiting" => bs[b] = "waiting" \/ b = c
  BY <1>3 DEF Insert, IType, EngTypeOK
<1>5. \A b \in Rows : Owned(b) => Owned(b)'
  BY <1>1, <1>2 DEF Owned, Queued, Starts, jobVars
<1>6. Owned(c)'
  BY <1>3 DEF Owned
<1> QED BY <1>2, <1>4, <1>5, <1>6, Handed

\* A request that submits a job hands its row to the queue.
LEMMA WaitingSubmit ==
    ASSUME IType, AllOwned, NEW r \in Callers, CreateSubmit(r) \/ PreSubmit(r) \/ RestoreSubmit(r)
    PROVE  AllOwned'
<1>1. UNCHANGED <<bs, jobVars, lost>>
  BY DEF CreateSubmit, PreSubmit, RestoreSubmit, engRows
<1>2. \A q \in Callers \ {r}, b \in Rows : Holds(q, b) => Holds(q, b)'
  BY DEF CreateSubmit, PreSubmit, RestoreSubmit, Answer, Step, Goto, Holds, IType, EngTypeOK
<1>3. PICK job \in Kinds \X Rows :
        Enqueue(job) /\ \A b \in Rows : Holds(r, b) => job = <<"backup", b>>
  <2>1. CASE CreateSubmit(r)
    <3>1. <<"backup", rrow[r]>> \in Kinds \X Rows
      BY <2>1 DEF CreateSubmit, Answer, Kinds, IType, RequestShape
    <3> QED BY <2>1, <3>1 DEF CreateSubmit, Answer, Holds
  <2>2. CASE PreSubmit(r)
    <3>1. <<"backup", rpre[r]>> \in Kinds \X Rows
      BY <2>2 DEF PreSubmit, Step, Kinds, IType, RequestShape
    <3> QED BY <2>2, <3>1 DEF PreSubmit, Step, Holds
  <2>3. CASE RestoreSubmit(r)
    <3>1. <<"restore", rrow[r]>> \in Kinds \X Rows
      BY <2>3 DEF RestoreSubmit, Answer, Kinds, IType, RequestShape
    <3> QED BY <2>3, <3>1 DEF RestoreSubmit, Answer, Holds
  <2> QED BY <2>1, <2>2, <2>3
<1>4. /\ \A b \in Rows : Queued(b) => Queued(b)'
      /\ \A b \in Rows : job = <<"backup", b>> => Queued(b)'
  BY <1>3, Appended DEF IType
<1>5. \A b \in Rows : Owned(b) => Owned(b)'
  BY <1>1, <1>2, <1>3, <1>4 DEF Owned, Starts, jobVars
<1> QED BY <1>1, <1>5, Handed

\* The other steps of a request hold no row and let no row wait.
LEMMA WaitingContinue ==
    ASSUME IType, AllOwned, NEW r \in Callers,
           RestoreCount(r) \/ PreFails(r) \/ RemoveFile(r) \/ RemoveRow(r) \/ CancelMark(r)
    PROVE  AllOwned'
<1>1. \A q \in Callers, b \in Rows : Holds(q, b) => Holds(q, b)'
  BY DEF RestoreCount, PreFails, RemoveFile, RemoveRow, CancelMark, Answer, Step, Goto, Holds,
         IType, EngTypeOK
<1>2. UNCHANGED <<queue, jobVars, lost>>
  BY DEF RestoreCount, PreFails, RemoveFile, RemoveRow, CancelMark
<1>3. \A b \in Rows : bs'[b] = "waiting" => bs[b] = "waiting"
  BY DEF RestoreCount, PreFails, RemoveFile, RemoveRow, CancelMark, SetBackup, engRows, IType,
         EngTypeOK
<1>4. \A b \in Rows : Owned(b) => Owned(b)'
  BY <1>1, <1>2 DEF Owned, Queued, Starts, jobVars
<1> QED BY <1>2, <1>3, <1>4, Handed

\* A thread takes the row over from the queue.
LEMMA WaitingTake ==
    ASSUME IType, AllOwned, NEW w \in Workers, Take(w)
    PROVE  AllOwned'
<1>1. UNCHANGED <<bs, callVars, lost>>
  BY DEF Take, engRows
<1>2. \A v \in Workers, b \in Rows : Starts(v, b) => Starts(v, b)'
  BY DEF Take, JobStep, Starts, Starting, IType, EngTypeOK
<1>3. \A b \in Rows : bs[b] = "waiting" /\ Head(queue) = <<"backup", b>> => Starts(w, b)'
  BY DEF Take, JobStep, Starts, Starting, HasRow, BackupStatus, IType, EngTypeOK
<1>4. \A b \in Rows : Queued(b) => Head(queue) = <<"backup", b>> \/ Queued(b)'
  <2> SUFFICES ASSUME NEW b \in Rows, NEW i \in 1..Len(queue), queue[i] = <<"backup", b>>,
                      Head(queue) # <<"backup", b>>
               PROVE  Queued(b)'
    BY DEF Queued
  <2>1. /\ queue \in Seq(Kinds \X Rows) /\ queue # <<>> /\ queue' = Tail(queue)
        /\ Len(queue) \in Nat
    BY DEF Take, IType, EngTypeOK
  <2>2. i # 1
    BY <2>1
  <2>3. Len(queue') = Len(queue) - 1 /\ \A j \in 1..Len(queue') : queue'[j] = queue[j + 1]
    BY <2>1
  <2>4. i - 1 \in 1..Len(queue') /\ (i - 1) + 1 = i
    BY <2>1, <2>2, <2>3
  <2> QED BY <2>3, <2>4 DEF Queued
<1>5. \A b \in Rows : bs[b] = "waiting" => (Owned(b) => Owned(b)')
  BY <1>1, <1>2, <1>3, <1>4 DEF Owned, Holds, callVars
<1> QED BY <1>1, <1>5, Handed

\* A thread that starts goes on to start, or it reports a status that is not "waiting".
LEMMA WaitingWorker ==
    ASSUME IType, AllOwned, NEW w \in Workers, Worker(w), ~Take(w)
    PROVE  AllOwned'
<1>1. UNCHANGED <<queue, callVars, lost>>
  BY DEF Worker, Open, Flock, Refuse, Mark, Pack, Done, Extract, Applied, Raise, Close, Unlink
<1>2. \A v \in Workers \ {w}, b \in Rows : Starts(v, b) => Starts(v, b)'
  BY DEF Worker, Open, Flock, Refuse, Mark, Pack, Done, Extract, Applied, Raise, Close, Unlink,
         JobStep, Leave, Starts, IType, EngTypeOK
<1>3. \A b \in Rows : bs'[b] = "waiting" => bs[b] = "waiting"
  BY DEF Worker, Open, Flock, Refuse, Mark, Pack, Done, Extract, Applied, Raise, Close, Unlink,
         ReportStatus, SetBackup, engRows, IType, EngTypeOK
<1>4. \A b \in Rows : bs'[b] = "waiting" /\ Starts(w, b) => Starts(w, b)'
  <2>1. CASE Open(w) \/ Flock(w)
    BY <2>1 DEF Open, Flock, JobStep, Starts, Starting, IType, EngTypeOK
  <2>2. ASSUME NEW s \in {"failed", "running"}, ReportStatus(w, s), NEW b \in Rows, Starts(w, b)
        PROVE  bs'[b] # "waiting"
    BY <2>2 DEF ReportStatus, Starts, SetBackup, HasRow, BackupStatus, IType, EngTypeOK
  <2>3. CASE Refuse(w) \/ Mark(w) \/ Raise(w)
    BY <2>2, <2>3 DEF Refuse, Mark, Raise
  <2>4. CASE Pack(w) \/ Done(w) \/ Extract(w) \/ Applied(w) \/ Close(w) \/ Unlink(w)
    BY <2>4 DEF Pack, Done, Extract, Applied, Close, Unlink, JobStep, Starts, Starting
  <2> QED BY <2>1, <2>3, <2>4 DEF Worker
<1>5. \A b \in Rows : bs'[b] = "waiting" => (Owned(b) => Owned(b)')
  BY <1>1, <1>2, <1>4 DEF Owned, Holds, Queued, callVars
<1> QED BY <1>1, <1>3, <1>5, Handed

LEMMA WaitingStep == IType /\ AllOwned /\ [EngNext]_engVars => AllOwned'
<1> SUFFICES ASSUME IType, AllOwned, [EngNext]_engVars PROVE AllOwned'
  OBVIOUS
<1>1. ASSUME NEW r \in Callers, NewCall(r) PROVE AllOwned'
  BY <1>1, WaitingNewCall
<1>2. ASSUME NEW r \in Callers, Continue(r) PROVE AllOwned'
  BY <1>2, WaitingInsert, WaitingSubmit, WaitingContinue DEF Continue
<1>3. ASSUME NEW w \in Workers, Worker(w) PROVE AllOwned'
  BY <1>3, WaitingTake, WaitingWorker
<1>4. CASE EngCrash
  BY <1>4 DEF EngCrash, AllOwned, Unfinished, engRows
<1>5. CASE UNCHANGED engVars
  BY <1>5 DEF engVars, engRows, jobVars, callVars, AllOwned, Owned, Holds, Queued, Starts
<1> QED BY <1>1, <1>2, <1>3, <1>4, <1>5 DEF EngNext

\* No backup that was accepted is forgotten: while it waits, a request, the
\* queue or a thread has it, and the thread that does not get the lock says so.
THEOREM WaitingJobsAreOwned == EngSpec => []WaitingIsOwned
<1>1. EngInit => AllOwned
  BY DEF EngInit, AllOwned
<1>2. AllOwned => WaitingIsOwned
  BY OwnedIsWaiting
<1> QED BY <1>1, <1>2, TypeInit, TypeStep, WaitingStep, PTL DEF EngSpec

----------------------------------------------------------------------------
(* A complete backup has its archive.  The archive of a job is written      *)
(* before the row names it, so that no deletion can find it: a row has at   *)
(* most one job in its life, and names no archive before that job is done.  *)

Active(w, b) ==
    pc[w] \in Starting \cup {"work", "packed"} /\ kind[w] = "backup" /\ row[w] = b

HasJob(b) == \/ \E r \in Callers : Holds(r, b)
             \/ Queued(b)
             \/ \E w \in Workers : Active(w, b)

OneHolder  == \A q, r \in Callers, b \in Rows : Holds(q, b) /\ Holds(r, b) => q = r
OneEntry   == \A i, j \in 1..Len(queue), b \in Rows :
                  queue[i] = <<"backup", b>> /\ queue[j] = <<"backup", b>> => i = j
OneThread  == \A v, w \in Workers, b \in Rows : Active(v, b) /\ Active(w, b) => v = w
OnePlace   == \A b \in Rows :
                  /\ \A r \in Callers : Holds(r, b) => ~Queued(b)
                  /\ \A r \in Callers, w \in Workers : Holds(r, b) => ~Active(w, b)
                  /\ \A w \in Workers : Queued(b) => ~Active(w, b)
OneJobEach == OneHolder /\ OneEntry /\ OneThread /\ OnePlace

Fresh == \A b \in Rows : /\ HasJob(b) => file[b] = 0 /\ bs[b] # "none"
                         /\ bs[b] = "none" => file[b] = 0

Single == OneJobEach /\ Fresh

\* A step that neither starts a job nor moves one.
LEMMA JobsFrame ==
    ASSUME OneJobEach, UNCHANGED queue,
           \A r \in Callers, b \in Rows : Holds(r, b)' => Holds(r, b),
           \A w \in Workers, b \in Rows : Active(w, b)' => Active(w, b)
    PROVE  /\ OneJobEach'
           /\ \A b \in Rows : HasJob(b)' => HasJob(b)
<1>1. \A b \in Rows : Queued(b)' <=> Queued(b)
  BY DEF Queued
<1>2. OneHolder' /\ OneThread'
  BY DEF OneJobEach, OneHolder, OneThread
<1>3. OneEntry'
  BY DEF OneJobEach, OneEntry
<1>4. OnePlace'
  BY <1>1 DEF OneJobEach, OnePlace
<1>5. \A b \in Rows : HasJob(b)' => HasJob(b)
  BY <1>1 DEF HasJob
<1> QED BY <1>2, <1>3, <1>4, <1>5 DEF OneJobEach

LEMMA FreshFrame ==
    ASSUME Fresh, \A b \in Rows : HasJob(b)' => HasJob(b),
           \A b \in Rows : bs'[b] = "none" => bs[b] = "none", UNCHANGED file
    PROVE  Fresh'
BY DEF Fresh

\* Requests that insert or submit nothing.
LEMMA SingleRequest ==
    ASSUME IType, Single, NEW r \in Callers,
           \/ CreateCount(r) \/ RestoreLoad(r) \/ DeleteLoad(r) \/ CancelFind(r)
           \/ RestoreCount(r) \/ PreFails(r) \/ RemoveFile(r) \/ RemoveRow(r) \/ CancelMark(r)
    PROVE  Single'
<1>1. \A q \in Callers, b \in Rows : Holds(q, b)' => Holds(q, b)
  BY DEF CreateCount, RestoreLoad, DeleteLoad, CancelFind, Accept, RestoreCount, PreFails,
         RemoveFile, RemoveRow, CancelMark, Answer, Step, Goto, Holds, IType, EngTypeOK
<1>2. UNCHANGED <<queue, jobVars, file>>
  BY DEF CreateCount, RestoreLoad, DeleteLoad, CancelFind, Accept, RestoreCount, PreFails,
         RemoveFile, RemoveRow, CancelMark, engRows
<1>3. \A b \in Rows : bs'[b] = "none" => bs[b] = "none"
  BY DEF CreateCount, RestoreLoad, DeleteLoad, CancelFind, Accept, RestoreCount, PreFails,
         RemoveFile, RemoveRow, CancelMark, SetBackup, HasRow, BackupStatus, engRows, IType, EngTypeOK
<1>4. \A w \in Workers, b \in Rows : Active(w, b)' => Active(w, b)
  BY <1>2 DEF Active, jobVars
<1>5. OneJobEach' /\ \A b \in Rows : HasJob(b)' => HasJob(b)
  BY <1>1, <1>2, <1>4, JobsFrame DEF Single
<1> QED BY <1>2, <1>3, <1>5, FreshFrame DEF Single

LEMMA SingleUpload ==
    ASSUME IType, Single, NEW r \in Callers, Upload(r)
    PROVE  Single'
<1>1. UNCHANGED <<queue, jobVars, callVars>>
  BY DEF Upload
<1>2. PICK c \in Rows : bs[c] = "none" /\ bs' = [bs EXCEPT ![c] = "done"]
                        /\ \E f : file' = [file EXCEPT ![c] = f]
  BY DEF Upload, Insert
<1>3. OneJobEach' /\ \A b \in Rows : HasJob(b)' => HasJob(b)
  BY <1>1, JobsFrame DEF Single, Holds, Active, jobVars, callVars
<1>4. ~HasJob(c)
  BY <1>2 DEF Single, Fresh
<1>5. Fresh'
  BY <1>2, <1>3, <1>4 DEF Single, Fresh, IType, EngTypeOK
<1> QED BY <1>3, <1>5 DEF Single

LEMMA SingleInsert ==
    ASSUME IType, Single, NEW r \in Callers, CreateInsert(r) \/ PreInsert(r)
    PROVE  Single'
<1>1. UNCHANGED <<queue, jobVars, file>>
  BY DEF CreateInsert, PreInsert
<1>2. PICK c \in Rows : /\ bs[c] = "none" /\ bs' = [bs EXCEPT ![c] = "waiting"]
                        /\ \A q \in Callers, b \in Rows :
                              Holds(q, b)' => Holds(q, b) \/ (q = r /\ b = c)
  <2>1. CASE CreateInsert(r)
    <3>1. PICK c \in Rows : Insert(c, "waiting") /\ rrow' = [rrow EXCEPT ![r] = c]
      BY <2>1 DEF CreateInsert
    <3>2. \A q \in Callers, b \in Rows : Holds(q, b)' => Holds(q, b) \/ (q = r /\ b = c)
      BY <2>1, <3>1 DEF CreateInsert, Step, Goto, Holds, IType, EngTypeOK
    <3> QED BY <3>1, <3>2 DEF Insert
  <2>2. CASE PreInsert(r)
    <3>1. PICK c \in Rows : Insert(c, "waiting") /\ rpre' = [rpre EXCEPT ![r] = c]
      BY <2>2 DEF PreInsert
    <3>2. \A q \in Callers, b \in Rows : Holds(q, b)' => Holds(q, b) \/ (q = r /\ b = c)
      BY <2>2, <3>1 DEF PreInsert, Step, Goto, Holds, IType, EngTypeOK
    <3> QED BY <3>1, <3>2 DEF Insert
  <2> QED BY <2>1, <2>2
<1>3. ~HasJob(c)
  BY <1>2 DEF Single, Fresh
<1>4. /\ \A b \in Rows : Queued(b)' <=> Queued(b)
      /\ \A w \in Workers, b \in Rows : Active(w, b)' <=> Active(w, b)
  BY <1>1 DEF Queued, Active, jobVars
<1>5. OneHolder'
  BY <1>2, <1>3 DEF Single, OneJobEach, OneHolder, HasJob
<1>6. OneEntry' /\ OneThread'
  BY <1>1, <1>4 DEF Single, OneJobEach, OneEntry, OneThread
<1>7. OnePlace'
  BY <1>2, <1>3, <1>4 DEF Single, OneJobEach, OnePlace, HasJob
<1>8. \A b \in Rows : HasJob(b)' => HasJob(b) \/ b = c
  BY <1>2, <1>4 DEF HasJob
<1>9. Fresh'
  BY <1>1, <1>2, <1>8 DEF Single, Fresh, IType, EngTypeOK
<1> QED BY <1>5, <1>6, <1>7, <1>9 DEF Single, OneJobEach

\* A row that is handed to the queue has left the request.
LEMMA SingleSubmit ==
    ASSUME IType, Single, NEW r \in Callers, CreateSubmit(r) \/ PreSubmit(r) \/ RestoreSubmit(r)
    PROVE  Single'
<1>1. UNCHANGED <<bs, file, jobVars>>
  BY DEF CreateSubmit, PreSubmit, RestoreSubmit, engRows
<1>2. /\ \A q \in Callers, b \in Rows : Holds(q, b)' => Holds(q, b)
      /\ \A b \in Rows : ~Holds(r, b)'
  BY DEF CreateSubmit, PreSubmit, RestoreSubmit, Answer, Step, Goto, Holds, IType, EngTypeOK
<1>3. PICK job : Enqueue(job) /\ \A b \in Rows : job = <<"backup", b>> => Holds(r, b)
  <2>1. CASE CreateSubmit(r)
    BY <2>1 DEF CreateSubmit, Answer, Holds
  <2>2. CASE PreSubmit(r)
    BY <2>2 DEF PreSubmit, Step, Holds
  <2>3. CASE RestoreSubmit(r)
    <3>1. \A b \in Rows : <<"restore", rrow[r]>> # <<"backup", b>>
      OBVIOUS
    <3> QED BY <2>3, <3>1 DEF RestoreSubmit
  <2> QED BY <2>1, <2>2, <2>3
<1>4. /\ Len(queue) \in Nat /\ Len(queue') = Len(queue) + 1
      /\ \A i \in 1..Len(queue) : queue'[i] = queue[i]
      /\ queue'[Len(queue) + 1] = job
  <2>1. queue \in Seq(Kinds \X Rows) /\ queue' = Append(queue, job)
    BY <1>3 DEF Enqueue, IType, EngTypeOK
  <2> QED BY <2>1
<1>5. \A i \in 1..Len(queue') : i \in 1..Len(queue) \/ i = Len(queue) + 1
  BY <1>4
<1>6. \A b \in Rows : Queued(b)' => Queued(b) \/ Holds(r, b)
  BY <1>3, <1>4, <1>5 DEF Queued
<1>7. \A w \in Workers, b \in Rows : Active(w, b)' <=> Active(w, b)
  BY <1>1 DEF Active, jobVars
<1>8. OneHolder' /\ OneThread'
  BY <1>2, <1>7 DEF Single, OneJobEach, OneHolder, OneThread
<1>9. OneEntry'
  <2> SUFFICES ASSUME NEW i \in 1..Len(queue'), NEW j \in 1..Len(queue'), NEW b \in Rows,
                      queue'[i] = <<"backup", b>>, queue'[j] = <<"backup", b>>
               PROVE  i = j
    BY DEF OneEntry
  <2>1. CASE i \in 1..Len(queue) /\ j \in 1..Len(queue)
    BY <1>4, <2>1 DEF Single, OneJobEach, OneEntry
  <2>2. CASE ~(i \in 1..Len(queue) /\ j \in 1..Len(queue)) /\ i # j
    <3>1. job = <<"backup", b>> /\ Queued(b)
      BY <1>4, <1>5, <2>2 DEF Queued
    <3> QED BY <1>3, <3>1 DEF Single, OneJobEach, OnePlace
  <2> QED BY <2>1, <2>2
<1>10. OnePlace'
  <2>1. \A b \in Rows, q \in Callers : Holds(q, b)' => Holds(q, b) /\ q # r
    BY <1>2
  <2>2. \A b \in Rows, q \in Callers : Holds(q, b)' => ~Holds(r, b)
    BY <2>1 DEF Single, OneJobEach, OneHolder
  <2> QED BY <1>6, <1>7, <2>1, <2>2 DEF Single, OneJobEach, OnePlace
<1>11. \A b \in Rows : HasJob(b)' => HasJob(b)
  BY <1>2, <1>6, <1>7 DEF HasJob
<1>12. Fresh'
  BY <1>1, <1>11, FreshFrame DEF Single
<1> QED BY <1>8, <1>9, <1>10, <1>12 DEF Single, OneJobEach

\* A thread takes the one entry of its row; the others move up.
LEMMA SingleTake ==
    ASSUME IType, Single, NEW w \in Workers, Take(w)
    PROVE  Single'
<1>1. UNCHANGED <<bs, file, callVars>>
  BY DEF Take, engRows
<1>2. /\ queue \in Seq(Kinds \X Rows) /\ queue # <<>> /\ queue' = Tail(queue)
      /\ Head(queue) = queue[1]
  BY DEF Take, IType, EngTypeOK
<1>3. /\ Len(queue) \in Nat /\ 1 \in 1..Len(queue) /\ Len(queue') = Len(queue) - 1
      /\ \A i \in 1..Len(queue') : i + 1 \in 1..Len(queue) /\ queue'[i] = queue[i + 1]
  BY <1>2
<1>4. \A b \in Rows : Queued(b)' => Queued(b) /\ queue[1] # <<"backup", b>>
  <2> SUFFICES ASSUME NEW b \in Rows, NEW i \in 1..Len(queue'), queue'[i] = <<"backup", b>>
               PROVE  Queued(b) /\ queue[1] # <<"backup", b>>
    BY DEF Queued
  <2>1. i + 1 \in 1..Len(queue) /\ queue[i + 1] = <<"backup", b>> /\ i + 1 # 1
    BY <1>3
  <2> QED BY <1>3, <2>1 DEF Queued, Single, OneJobEach, OneEntry
<1>5. \A v \in Workers, b \in Rows :
        Active(v, b)' => Active(v, b) \/ (v = w /\ queue[1] = <<"backup", b>>)
  <2>1. queue[1] = <<queue[1][1], queue[1][2]>>
    BY <1>2
  <2> QED BY <1>2, <2>1 DEF Take, JobStep, Active, Starting, IType, EngTypeOK
<1>6. \A b \in Rows : queue[1] = <<"backup", b>> => Queued(b)
  BY <1>3 DEF Queued
<1>7. \A r \in Callers, b \in Rows : Holds(r, b)' <=> Holds(r, b)
  BY <1>1 DEF Holds, callVars
<1>8. OneHolder'
  BY <1>7 DEF Single, OneJobEach, OneHolder
<1>9. OneThread'
  BY <1>5, <1>6 DEF Single, OneJobEach, OneThread, OnePlace
<1>10. OneEntry'
  <2> SUFFICES ASSUME NEW i \in 1..Len(queue'), NEW j \in 1..Len(queue'), NEW b \in Rows,
                      queue'[i] = <<"backup", b>>, queue'[j] = <<"backup", b>>
               PROVE  i = j
    BY DEF OneEntry
  <2>1. i + 1 = j + 1
    <3>1. /\ i + 1 \in 1..Len(queue) /\ queue[i + 1] = <<"backup", b>>
          /\ j + 1 \in 1..Len(queue) /\ queue[j + 1] = <<"backup", b>>
      BY <1>3
    <3> QED BY <3>1 DEF Single, OneJobEach, OneEntry
  <2> QED BY <1>3, <2>1
<1>11. OnePlace'
  BY <1>4, <1>5, <1>6, <1>7 DEF Single, OneJobEach, OnePlace
<1>12. \A b \in Rows : HasJob(b)' => HasJob(b)
  BY <1>4, <1>5, <1>6, <1>7 DEF HasJob
<1>13. Fresh'
  BY <1>1, <1>12, FreshFrame DEF Single
<1> QED BY <1>8, <1>9, <1>10, <1>11, <1>13 DEF Single, OneJobEach

LEMMA SingleWorker ==
    ASSUME IType, Single, NEW w \in Workers, Worker(w), ~Take(w)
    PROVE  Single'
<1>1. UNCHANGED <<queue, callVars>>
  BY DEF Worker, Open, Flock, Refuse, Mark, Pack, Done, Extract, Applied, Raise, Close, Unlink
<1>2. \A v \in Workers, b \in Rows : Active(v, b)' => Active(v, b)
  BY DEF Worker, Open, Flock, Refuse, Mark, Pack, Done, Extract, Applied, Raise, Close, Unlink,
         JobStep, Leave, Active, Starting, IType, EngTypeOK
<1>3. \A b \in Rows : bs'[b] = "none" => bs[b] = "none"
  BY DEF Worker, Open, Flock, Refuse, Mark, Pack, Done, Extract, Applied, Raise, Close, Unlink,
         ReportStatus, SetBackup, HasRow, BackupStatus, engRows, IType, EngTypeOK
<1>4. OneJobEach' /\ \A b \in Rows : HasJob(b)' => HasJob(b)
  BY <1>1, <1>2, JobsFrame DEF Single, Holds, callVars
<1>5. CASE ~Done(w)
  <2>1. UNCHANGED file
    BY <1>5 DEF Worker, Open, Flock, Refuse, Mark, Pack, Extract, Applied, Raise, Close, Unlink, engRows
  <2> QED BY <1>3, <1>4, <2>1, FreshFrame DEF Single
<1>6. CASE Done(w)
  <2>0. PICK c \in Rows : c = row[w]
    BY <1>6 DEF Done, JobStep, IType, JobShape
  <2>1. Active(w, c)
    BY <1>6, <2>0 DEF Done, JobStep, Active, IType, JobShape
  <2>2. \A r \in Callers : ~Holds(r, c)'
    BY <1>1, <2>1 DEF Single, OneJobEach, OnePlace, Holds, callVars
  <2>3. ~Queued(c)'
    BY <1>1, <2>1 DEF Single, OneJobEach, OnePlace, Queued
  <2>4. \A v \in Workers : ~Active(v, c)'
    <3>1. ~Active(w, c)'
      BY <1>6 DEF Done, JobStep, Active, Starting, IType, EngTypeOK
    <3> QED BY <1>2, <2>1, <3>1 DEF Single, OneJobEach, OneThread
  <2>5. ~HasJob(c)'
    BY <2>2, <2>3, <2>4 DEF HasJob
  <2>6. \A b \in Rows \ {c} : file'[b] = file[b]
    BY <1>6, <2>0 DEF Done, IType, EngTypeOK
  <2>7. bs[c] # "none" /\ bs'[c] # "none"
    BY <1>3, <2>1 DEF Single, Fresh, HasJob
  <2>8. \A b \in Rows : /\ HasJob(b)' => file'[b] = 0 /\ bs'[b] # "none"
                        /\ bs'[b] = "none" => file'[b] = 0
    BY <1>3, <1>4, <2>5, <2>6, <2>7 DEF Single, Fresh
  <2>9. Fresh'
    BY <2>8 DEF Fresh
  <2> QED BY <1>4, <2>9 DEF Single
<1> QED BY <1>5, <1>6

LEMMA SingleCrash ==
    ASSUME IType, Single, EngCrash
    PROVE  Single'
<1>1. \A b \in Rows : ~HasJob(b)'
  BY DEF EngCrash, HasJob, Holds, Queued, Active, Starting
<1>2. OneJobEach'
  BY <1>1 DEF OneJobEach, OneHolder, OneEntry, OneThread, OnePlace, HasJob, Queued
<1>3. UNCHANGED <<bs, file>>
  BY DEF EngCrash, engRows
<1> QED BY <1>1, <1>2, <1>3 DEF Single, Fresh

LEMMA SingleStep == IType /\ Single /\ [EngNext]_engVars => Single'
<1> SUFFICES ASSUME IType, Single, [EngNext]_engVars PROVE Single'
  OBVIOUS
<1>1. ASSUME NEW r \in Callers, NewCall(r) PROVE Single'
  BY <1>1, SingleRequest, SingleUpload DEF NewCall
<1>2. ASSUME NEW r \in Callers, Continue(r) PROVE Single'
  BY <1>2, SingleRequest, SingleInsert, SingleSubmit DEF Continue
<1>3. ASSUME NEW w \in Workers, Worker(w) PROVE Single'
  BY <1>3, SingleTake, SingleWorker
<1>4. CASE EngCrash
  BY <1>4, SingleCrash
<1>5. CASE UNCHANGED engVars
  <2>1. UNCHANGED <<queue, jobVars, callVars, bs, file>>
    BY <1>5 DEF engVars, engRows
  <2>2. OneJobEach' /\ \A b \in Rows : HasJob(b)' => HasJob(b)
    BY <2>1, JobsFrame DEF Single, Holds, Active, jobVars, callVars
  <2> QED BY <2>1, <2>2, FreshFrame DEF Single
<1> QED BY <1>1, <1>2, <1>3, <1>4, <1>5 DEF EngNext

----------------------------------------------------------------------------
\* A name other than the row's own is the name of an archive that was there.
Names == \A a \in Rows : file[a] # 0 => file[file[a]] = file[a]

\* Between packing and naming, the archive is on disk.
PackedOnDisk == \A w \in Workers : pc[w] = "packed" => row[w] \in disk

Archives == Names /\ PackedOnDisk /\ DoneHasArchive

\* The archive of a done row, or what excuses its absence.
Excused(b) == \/ file[b] \in disk
              \/ b \in lost
              \/ \E r \in Callers : cpc[r] = "delrow" /\ rrow[r] = b
              \/ \E a \in Rows \ {b} : file[a] = file[b]

LEMMA ArchivesFrame ==
    ASSUME IType, Archives, UNCHANGED file,
           \A w \in Workers : pc'[w] = "packed" => row'[w] \in disk',
           \A b \in Rows : bs'[b] = "done" => bs[b] = "done" /\ (Excused(b) => Excused(b)')
    PROVE  Archives'
BY DEF Archives, Names, PackedOnDisk, DoneHasArchive, Excused

\* Nothing but a deletion changes what a request in deletion stands for.
LEMMA ArchivesRequest ==
    ASSUME IType, Archives, NEW r \in Callers,
           \/ CreateCount(r) \/ RestoreLoad(r) \/ DeleteLoad(r) \/ CancelFind(r)
           \/ CreateInsert(r) \/ CreateSubmit(r) \/ RestoreCount(r)
           \/ PreInsert(r) \/ PreFails(r) \/ PreSubmit(r) \/ RestoreSubmit(r) \/ CancelMark(r)
    PROVE  Archives'
<1>1. UNCHANGED <<file, disk, jobVars, lost>>
  BY DEF CreateCount, RestoreLoad, DeleteLoad, CancelFind, Accept, CreateInsert, CreateSubmit,
         RestoreCount, PreInsert, PreFails, PreSubmit, RestoreSubmit, CancelMark, engRows
<1>2. \A b \in Rows : bs'[b] = "done" => bs[b] = "done"
  BY DEF CreateCount, RestoreLoad, DeleteLoad, CancelFind, Accept, CreateInsert, CreateSubmit,
         RestoreCount, PreInsert, PreFails, PreSubmit, RestoreSubmit, CancelMark,
         Insert, SetBackup, engRows, IType, EngTypeOK
<1>3. cpc[r] # "delrow"
  BY DEF CreateCount, RestoreLoad, DeleteLoad, CancelFind, Accept, CreateInsert, CreateSubmit,
         RestoreCount, PreInsert, PreFails, PreSubmit, RestoreSubmit, CancelMark, Answer, Step
<1>4. \A q \in Callers \ {r} : cpc'[q] = cpc[q] /\ rrow'[q] = rrow[q]
  <2>1. CASE CreateInsert(r)
    <3>1. PICK c \in Rows : rrow' = [rrow EXCEPT ![r] = c]
      BY <2>1 DEF CreateInsert
    <3> QED BY <2>1, <3>1 DEF CreateInsert, Step, Goto, IType, EngTypeOK
  <2>2. CASE ~CreateInsert(r)
    BY <2>2 DEF CreateCount, RestoreLoad, DeleteLoad, CancelFind, Accept, CreateSubmit,
           RestoreCount, PreInsert, PreFails, PreSubmit, RestoreSubmit, CancelMark, Answer, Step,
           Goto, IType, EngTypeOK
  <2> QED BY <2>1, <2>2
<1>5. \A b \in Rows : Excused(b) => Excused(b)'
  BY <1>1, <1>3, <1>4 DEF Excused
<1> QED BY <1>1, <1>2, <1>5, ArchivesFrame DEF Archives, PackedOnDisk, jobVars

\* An archive that is removed was the one of the row in deletion.
LEMMA ArchivesDeletion ==
    ASSUME IType, Single, Archives, NEW r \in Callers, RemoveFile(r) \/ RemoveRow(r)
    PROVE  Archives'
<1>1. UNCHANGED <<file, jobVars, lost>>
  BY DEF RemoveFile, RemoveRow
<1>2. CASE RemoveFile(r)
  <2>0. PICK d \in Rows : d = rrow[r]
    BY <1>2 DEF RemoveFile, Step, IType, RequestShape
  <2>1. disk' = disk \ {file[d]} /\ UNCHANGED <<bs, rrow>> /\ cpc' = [cpc EXCEPT ![r] = "delrow"]
    BY <1>2, <2>0 DEF RemoveFile, Step, Goto
  <2>2. cpc'[r] = "delrow" /\ rrow'[r] = d
        /\ \A q \in Callers \ {r} : cpc'[q] = cpc[q] /\ rrow'[q] = rrow[q]
        /\ cpc[r] # "delrow"
    BY <1>2, <2>0, <2>1 DEF RemoveFile, Step, IType, EngTypeOK
  <2>3. \A b \in Rows : Excused(b) => Excused(b)'
    <3> SUFFICES ASSUME NEW b \in Rows, Excused(b) PROVE Excused(b)'
      OBVIOUS
    <3>1. CASE b = d
      BY <2>2, <3>1 DEF Excused
    <3>2. CASE b # d /\ file[b] = file[d]
      BY <1>1, <3>2 DEF Excused
    <3>3. CASE b # d /\ file[b] # file[d]
      BY <1>1, <2>1, <2>2, <3>3 DEF Excused
    <3> QED BY <3>1, <3>2, <3>3
  <2>4. \A w \in Workers : pc'[w] = "packed" => row'[w] \in disk'
    <3> SUFFICES ASSUME NEW w \in Workers, pc[w] = "packed" PROVE row[w] \in disk \ {file[d]}
      BY <1>1, <2>1 DEF jobVars
    <3>1. row[w] \in disk /\ row[w] \in Rows
      BY DEF Archives, PackedOnDisk, IType, JobShape
    <3>2. Active(w, row[w])
      BY DEF Active, IType, JobShape
    <3>3. file[row[w]] = 0
      BY <3>1, <3>2 DEF Single, Fresh, HasJob
    <3>4. row[w] # 0
      BY <3>1, Numbers
    <3>5. file[d] # row[w]
      BY <3>1, <3>3, <3>4 DEF Archives, Names
    <3> QED BY <3>1, <3>5
  <2> QED BY <1>1, <2>1, <2>3, <2>4, ArchivesFrame
<1>3. CASE RemoveRow(r)
  <2>1. /\ UNCHANGED disk
        /\ \A q \in Callers \ {r} : cpc'[q] = cpc[q] /\ rrow'[q] = rrow[q]
        /\ \A b \in Rows : bs'[b] = "done" => bs[b] = "done" /\ b # rrow[r]
    BY <1>3 DEF RemoveRow, Answer, IType, EngTypeOK
  <2>2. \A b \in Rows : b # rrow[r] => (Excused(b) => Excused(b)')
    BY <1>1, <2>1 DEF Excused
  <2> QED BY <1>1, <2>1, <2>2, ArchivesFrame DEF Archives, PackedOnDisk, jobVars
<1> QED BY <1>2, <1>3

LEMMA ArchivesUpload ==
    ASSUME IType, Single, Archives, NEW r \in Callers, Upload(r)
    PROVE  Archives'
<1>1. PICK c \in Rows : \E f \in {c} \cup ({file[a] : a \in Rows} \ {0}) :
          Insert(c, "done") /\ file' = [file EXCEPT ![c] = f] /\ disk' = disk \cup {f}
  BY DEF Upload
<1>2. PICK f \in {c} \cup ({file[a] : a \in Rows} \ {0}) :
          Insert(c, "done") /\ file' = [file EXCEPT ![c] = f] /\ disk' = disk \cup {f}
  BY <1>1
<1>3. UNCHANGED <<jobVars, callVars, lost>>
  BY DEF Upload
<1>4. /\ file[c] = 0 /\ file'[c] = f /\ f # 0
      /\ \A a \in Rows \ {c} : file'[a] = file[a]
      /\ \A a \in Rows \ {c} : bs'[a] = bs[a]
  BY <1>2, Numbers DEF Single, Fresh, Insert, IType, EngTypeOK
<1>5. Names'
  <2> SUFFICES ASSUME NEW a \in Rows, file'[a] # 0 PROVE file'[file'[a]] = file'[a]
    BY DEF Names
  <2>1. file[c] = 0 => \A e \in Rows : file[e] # 0 => file[e] # c
    BY <1>4, Numbers DEF Archives, Names
  <2>2. CASE a # c
    <3>1. file[a] \in Rows /\ file[a] # c
      BY <1>4, <2>1, <2>2, BackupAssumption DEF IType, EngTypeOK, Rows
    <3> QED BY <1>4, <2>2, <3>1 DEF Archives, Names
  <2>3. CASE a = c /\ f = c
    BY <1>4, <2>3
  <2>4. CASE a = c /\ f # c
    <3>1. PICK e \in Rows : f = file[e]
      BY <2>4
    <3>2. f \in Rows
      <4>1. file[e] \in 0..NumRows
        BY <3>1 DEF IType, EngTypeOK
      <4> QED BY <1>4, <3>1, <4>1, BackupAssumption DEF Rows
    <3>3. file[f] = f
      BY <1>4, <3>1 DEF Archives, Names
    <3> QED BY <1>4, <2>4, <3>2, <3>3
  <2> QED BY <2>2, <2>3, <2>4
<1>6. PackedOnDisk'
  BY <1>2, <1>3 DEF Archives, PackedOnDisk, jobVars
<1>7. DoneHasArchive'
  <2> SUFFICES ASSUME NEW b \in Rows, bs'[b] = "done"
               PROVE  file'[b] # 0 /\ Excused(b)'
    BY DEF DoneHasArchive, Excused
  <2>1. CASE b = c
    BY <1>2, <1>4, <2>1 DEF Excused
  <2>2. CASE b # c
    <3>1. file[b] # 0 /\ Excused(b)
      BY <1>4, <2>2 DEF Archives, DoneHasArchive, Excused
    <3>2. \A a \in Rows \ {b} : file[a] = file[b] => a # c
      BY <1>4, <3>1
    <3> QED BY <1>2, <1>3, <1>4, <2>2, <3>1, <3>2 DEF Excused, callVars
  <2> QED BY <2>1, <2>2
<1> QED BY <1>5, <1>6, <1>7 DEF Archives

LEMMA ArchivesWorker ==
    ASSUME IType, Single, Archives, NEW w \in Workers, Worker(w)
    PROVE  Archives'
<1>1. UNCHANGED <<callVars, lost>> /\ disk \subseteq disk'
  BY DEF Worker, Take, Open, Flock, Refuse, Mark, Pack, Done, Extract, Applied, Raise, Close, Unlink,
         engRows
<1>2. CASE Done(w)
  <2>0. PICK c \in Rows : c = row[w]
    BY <1>2 DEF Done, JobStep, IType, JobShape
  <2>1. file[c] = 0 /\ c \in disk /\ c # 0
    <3>1. Active(w, c)
      BY <1>2, <2>0 DEF Done, JobStep, Active, IType, JobShape
    <3> QED BY <1>2, <2>0, <3>1, Numbers DEF Single, Fresh, HasJob, Archives, PackedOnDisk, Done, JobStep
  <2>2. /\ \A b \in Rows \ {c} : file'[b] = file[b] /\ bs'[b] = bs[b]
        /\ file'[c] \in {0, c} /\ (bs'[c] = "done" => file'[c] = c \/ bs[c] = "done")
    BY <1>2, <2>0, <2>1 DEF Done, SetBackup, HasRow, BackupStatus, IType, EngTypeOK
  <2>3. bs[c] # "done"
    BY <2>1 DEF Archives, DoneHasArchive
  <2>4. Names'
    <3> SUFFICES ASSUME NEW a \in Rows, file'[a] # 0 PROVE file'[file'[a]] = file'[a]
      BY DEF Names
    <3>1. CASE a = c
      BY <2>2, <3>1
    <3>2. CASE a # c
      <4>1. file[a] \in Rows /\ file[file[a]] = file[a] /\ file[a] # 0
        BY <2>2, <3>2, BackupAssumption DEF IType, EngTypeOK, Rows, Archives, Names
      <4> QED BY <2>1, <2>2, <3>2, <4>1
    <3> QED BY <3>1, <3>2
  <2>5. PackedOnDisk'
    BY <1>2 DEF Archives, PackedOnDisk, Done, JobStep, IType, EngTypeOK
  <2>6. DoneHasArchive'
    <3> SUFFICES ASSUME NEW b \in Rows, bs'[b] = "done" PROVE file'[b] # 0 /\ Excused(b)'
      BY DEF DoneHasArchive, Excused
    <3>1. CASE b = c
      BY <1>1, <2>1, <2>2, <2>3, <3>1 DEF Excused
    <3>2. CASE b # c
      <4>1. file[b] # 0 /\ Excused(b)
        BY <2>2, <3>2 DEF Archives, DoneHasArchive, Excused
      <4>2. \A a \in Rows \ {b} : file[a] = file[b] => a # c
        BY <2>1, <4>1
      <4> QED BY <1>1, <2>2, <3>2, <4>1, <4>2 DEF Excused, callVars
    <3> QED BY <3>1, <3>2
  <2> QED BY <2>4, <2>5, <2>6 DEF Archives
<1>3. CASE ~Done(w)
  <2>1. UNCHANGED file
    BY <1>3 DEF Worker, Take, Open, Flock, Refuse, Mark, Pack, Extract, Applied, Raise, Close, Unlink,
           engRows
  <2>2. \A b \in Rows : bs'[b] = "done" => bs[b] = "done"
    BY <1>3 DEF Worker, Take, Open, Flock, Refuse, Mark, Pack, Extract, Applied, Raise, Close, Unlink,
           ReportStatus, SetBackup, engRows, IType, EngTypeOK
  <2>3. \A b \in Rows : Excused(b) => Excused(b)'
    BY <1>1, <2>1 DEF Excused, callVars
  <2>4. \A v \in Workers : pc'[v] = "packed" => row'[v] \in disk'
    <3>1. CASE Pack(w)
      BY <3>1 DEF Pack, JobStep, Archives, PackedOnDisk, IType, EngTypeOK
    <3>2. CASE ~Pack(w)
      <4>1. \A v \in Workers : pc'[v] = "packed" => pc[v] = "packed" /\ row'[v] = row[v]
        BY <1>3, <3>2 DEF Worker, Take, Open, Flock, Refuse, Mark, Extract, Applied, Raise, Close,
               Unlink, JobStep, Leave, IType, EngTypeOK
      <4> QED BY <1>1, <4>1 DEF Archives, PackedOnDisk
    <3> QED BY <3>1, <3>2
  <2> QED BY <2>1, <2>2, <2>3, <2>4, ArchivesFrame
<1> QED BY <1>2, <1>3

LEMMA ArchivesStep == IType /\ Single /\ Archives /\ [EngNext]_engVars => Archives'
<1> SUFFICES ASSUME IType, Single, Archives, [EngNext]_engVars PROVE Archives'
  OBVIOUS
<1>1. ASSUME NEW r \in Callers, NewCall(r) \/ Continue(r) PROVE Archives'
  BY <1>1, ArchivesRequest, ArchivesDeletion, ArchivesUpload DEF NewCall, Continue
<1>2. ASSUME NEW w \in Workers, Worker(w) PROVE Archives'
  BY <1>2, ArchivesWorker
<1>3. CASE EngCrash
  <2>1. UNCHANGED engRows /\ \A w \in Workers : pc'[w] # "packed"
    BY <1>3 DEF EngCrash
  <2>2. \A b \in Rows : Excused(b) => Excused(b)'
    BY <1>3 DEF EngCrash, Excused, engRows
  <2> QED BY <2>1, <2>2, ArchivesFrame DEF engRows
<1>4. CASE UNCHANGED engVars
  BY <1>4, ArchivesFrame DEF engVars, engRows, jobVars, callVars, Excused, Archives, PackedOnDisk
<1> QED BY <1>1, <1>2, <1>3, <1>4 DEF EngNext

\* A backup that is shown as complete has its archive, whatever requests, jobs
\* and crashes come in between, except in the middle of its own deletion and
\* for two rows uploaded under one name.
THEOREM DoneBackupsHaveArchives == EngSpec => []DoneHasArchive
<1>1. EngInit => Single /\ Archives
  BY Numbers DEF EngInit, Single, OneJobEach, OneHolder, OneEntry, OneThread, OnePlace, Fresh, HasJob, Holds,
         Queued, Active, Starting, Archives, Names, PackedOnDisk, DoneHasArchive
<1>2. Archives => DoneHasArchive
  BY DEF Archives
<1> QED BY <1>1, <1>2, TypeInit, TypeStep, SingleStep, ArchivesStep, PTL DEF EngSpec

-----------------------------------------------------------------------------
(* WafConfig: types, and that nginx follows the rows.                      *)

Places == {"idle", "global read", "module read", "site read", "sites read", "reload"}
              \cup GlobalHeld \cup SiteHeld

GlobalPending == {"global read"} \cup GlobalHeld

Removing == {"unhooked", "removed"}

\* A request that is about to save or to delete has no thread at work; one that
\* has still to set the hook, and one that deletes, are of that kind.  A thread
\* that is about to write has a status, one that is to delete a file found none.
ConfShape ==
    /\ \A r \in Edits :
          /\ asks[r] \in {"loaded", "unhooked"} => /\ at[<<r, "own">>] = "idle"
                                                 /\ at[<<r, "signal">>] = "idle"
          /\ asks[r] = "saved" => editKind[r] = "site"
          /\ asks[r] \in Removing => editKind[r] = "delete"
    /\ \A t \in Syncs :
          /\ at[t] \in GlobalHeld \cup {"site open", "site write"} => snap[t] # "none"
          /\ at[t] = "site remove" => snap[t] = "none"

\* As long as the row has not been overtaken, every copy of it is the row, one
\* that is still to be written will set the file right, and the thread of a
\* signal that is still to come by the include will set that right.
GlobalInv ==
    "global" \notin raced =>
        /\ \A t \in Syncs : at[t] \in GlobalHeld => snap[t] = globalRow
        /\ \/ globalFile = globalRow
           \/ \E t \in Syncs : at[t] \in {"global read", "global open", "global write"}
        /\ (\E t \in Syncs : at[t] = "global write") => globalFile \in {"empty", globalRow}
        /\ \/ "module" \in conf <=> globalRow = "on"
           \/ \E r \in Edits : at[<<r, "signal">>] \in GlobalPending

\* The same of the site; while its deletion is not committed its file is gone
\* and nobody holds a copy.
SiteInv ==
    "site" \notin raced =>
        /\ \A t \in Syncs : at[t] \in SiteHeld => snap[t] = siteRow
        /\ siteFile = siteRow \/ Deleting \/ \E t \in Syncs : at[t] \in {"site read"} \cup SiteHeld
        /\ (\E t \in Syncs : at[t] = "site write") => siteFile \in {"empty", siteRow}
        /\ Deleting => siteFile = "none" /\ \A t \in Syncs : at[t] \notin SiteHeld

\* Every thread of a signal ends with a reload.
ServedInv ==
    "global" \notin raced /\ "reload" \notin raced =>
        \/ "module" \in running <=> globalRow = "on"
        \/ \E r \in Edits : at[<<r, "signal">>] # "idle"

\* As long as no requests for the site have overlapped, at most one is under
\* way, and the status it has loaded is what the hook follows until it is set;
\* a deletion has taken the hook away.
HookInv ==
    "hook" \notin raced =>
        /\ \A r, q \in Edits :
              /\ asks[r] # "none" /\ editKind[r] # "global"
              /\ asks[q] # "none" /\ editKind[q] # "global"
              => r = q
        /\ \A r \in Edits : asks[r] = "loaded" /\ editKind[r] # "global" => old[r] = siteRow
        /\ \A r \in Edits : asks[r] = "saved" => /\ siteRow = new[r]
                                                 /\ "hook" \in conf <=> old[r] = "on"
        /\ \A r \in Edits : asks[r] \in Removing => "hook" \notin conf
        /\ (\A r \in Edits : asks[r] \notin {"saved"} \cup Removing)
              => ("hook" \in conf <=> siteRow = "on")

ConfInv == ConfTypeOK /\ ConfShape /\ GlobalInv /\ SiteInv /\ ServedInv /\ HookInv

LEMMA SyncsOf ==
    /\ \A r \in Edits : <<r, "own">> \in Syncs /\ <<r, "signal">> \in Syncs
    /\ \A t \in Syncs : /\ t[1] \in Edits
                        /\ t = <<t[1], "own">> \/ t = <<t[1], "signal">>
                        /\ t[2] = "signal" => t = <<t[1], "signal">>
BY DEF Syncs

LEMMA MoveOne ==
    ASSUME ConfTypeOK, NEW t \in Syncs, NEW s \in Places, Move(t, s)
    PROVE  /\ at' \in [Syncs -> Places]
           /\ at'[t] = s
           /\ \A u \in Syncs : u # t => at'[u] = at[u]
BY DEF ConfTypeOK, Move, Places

LEMMA PlacesOf ==
    /\ \A t \in Syncs : AfterWrites(t) \in {"idle", "reload"}
    /\ \A r \in Edits : AfterWrites(<<r, "signal">>) = "reload"
    /\ {"idle", "global read", "module read", "site read", "sites read", "reload", "global open",
        "global write", "include", "module", "site open", "site write", "site remove"} = Places
BY DEF AfterWrites, Places, GlobalHeld, SiteHeld, Syncs

\* A thread that has done a part of its work goes on with the next or reloads
\* nginx; that of a request ends.
LEMMA RestOf ==
    ASSUME ConfTypeOK, NEW t \in Syncs, Rest(t)
    PROVE  /\ at' \in [Syncs -> Places] /\ todo' \in [Syncs -> 0..2]
           /\ at'[t] \in {"sites read", "module read", "reload", "idle"}
           /\ \A r \in Edits : t = <<r, "signal">> => at'[t] # "idle"
           /\ \A u \in Syncs : u # t => at'[u] = at[u]
<1>1. todo' \in [Syncs -> 0..2]
  <2>1. todo \in [Syncs -> 0..2]
    BY DEF ConfTypeOK
  <2>2. (IF todo[t] = 0 THEN 0 ELSE todo[t] - 1) \in 0..2
    BY <2>1
  <2>3. todo' = [todo EXCEPT ![t] = IF todo[t] = 0 THEN 0 ELSE todo[t] - 1]
    BY DEF Rest
  <2> QED BY <2>1, <2>2, <2>3
<1>2. PICK s : /\ s \in {"sites read", "module read", AfterWrites(t)}
               /\ Move(t, s)
  BY DEF Rest
<1>3. s \in Places /\ s \in {"sites read", "module read", "reload", "idle"}
  BY <1>2, PlacesOf
<1>4. \A r \in Edits : t = <<r, "signal">> => s # "idle"
  BY <1>2, PlacesOf
<1> QED BY <1>1, <1>2, <1>3, <1>4, MoveOne

LEMMA AfterIncludeOf ==
    ASSUME ConfTypeOK, NEW t \in Syncs, AfterInclude(t)
    PROVE  /\ at' \in [Syncs -> Places] /\ todo' \in [Syncs -> 0..2]
           /\ at'[t] \in {"sites read", "module read", "reload", "idle"}
           /\ \A r \in Edits : t = <<r, "signal">> => at'[t] # "idle"
           /\ \A u \in Syncs : u # t => at'[u] = at[u]
<1>1. CASE Rest(t)
  BY <1>1, RestOf
<1>2. CASE Move(t, "sites read") /\ UNCHANGED todo
  <2>1. todo' \in [Syncs -> 0..2]
    BY <1>2 DEF ConfTypeOK
  <2> QED BY <1>2, <2>1, MoveOne, PlacesOf
<1> QED BY <1>1, <1>2 DEF AfterInclude

LEMMA AtSaveGlobal ==
    ASSUME ConfTypeOK, NEW r \in Edits, SaveGlobal(r)
    PROVE  /\ at' \in [Syncs -> Places]
           /\ at'[<<r, "own">>] = "global read" /\ at'[<<r, "signal">>] = "global read"
           /\ \A u \in Syncs : u # <<r, "own">> /\ u # <<r, "signal">> => at'[u] = at[u]
BY SyncsOf, PlacesOf DEF ConfTypeOK, SaveGlobal, Places

LEMMA AtSaveSite ==
    ASSUME ConfTypeOK, NEW r \in Edits, SaveSite(r)
    PROVE  /\ at' \in [Syncs -> Places]
           /\ at'[<<r, "signal">>] = "site read"
           /\ \A u \in Syncs : u # <<r, "signal">> => at'[u] = at[u]
BY SyncsOf, PlacesOf DEF ConfTypeOK, SaveSite, Places

LEMMA AtCreateSite ==
    ASSUME ConfTypeOK, NEW r \in Edits, NEW v \in Settings, CreateSite(r, v)
    PROVE  /\ at' \in [Syncs -> Places]
           /\ at[<<r, "signal">>] = "idle" /\ at'[<<r, "signal">>] = "site read"
           /\ \A u \in Syncs : u # <<r, "signal">> => at'[u] = at[u]
BY SyncsOf, PlacesOf DEF ConfTypeOK, CreateSite, Begin, Places

LEMMA AtDropRow ==
    ASSUME ConfTypeOK, NEW r \in Edits, DropRow(r)
    PROVE  /\ at' \in [Syncs -> Places] /\ todo' \in [Syncs -> 0..2]
           /\ at'[<<r, "signal">>] \in {at[<<r, "signal">>], "global read"}
           /\ \A u \in Syncs : u # <<r, "signal">> => at'[u] = at[u]
<1>1. CASE at' = at /\ todo' = todo
  BY <1>1 DEF ConfTypeOK, Places
<1>2. CASE /\ at' = [at EXCEPT ![<<r, "signal">>] = "global read"]
           /\ todo' = [todo EXCEPT ![<<r, "signal">>] = 2]
  <2>1. todo' \in [Syncs -> 0..2]
    <3>1. todo \in [Syncs -> 0..2]
      BY DEF ConfTypeOK
    <3>2. 2 \in 0..2
      OBVIOUS
    <3> QED BY <1>2, <3>1, <3>2
  <2> QED BY <1>2, <2>1, SyncsOf, PlacesOf DEF ConfTypeOK, Places
<1> QED BY <1>1, <1>2 DEF DropRow

\* What the places of a thread say of its step.
LEMMA AtRest ==
    ASSUME ConfTypeOK, NEW t \in Syncs, ThreadStep(t) \/ ThreadFails(t)
    PROVE  /\ at' \in [Syncs -> Places] /\ todo' \in [Syncs -> 0..2]
           /\ \A u \in Syncs : u # t => at'[u] = at[u]
           /\ snap' \in [Syncs -> Settings \cup {"none"}]
           /\ \A u \in Syncs : u # t => snap'[u] = snap[u]
<1>1. /\ at' \in [Syncs -> Places] /\ todo' \in [Syncs -> 0..2]
      /\ \A u \in Syncs : u # t => at'[u] = at[u]
  <2>1. CASE Rest(t)
    BY <2>1, RestOf
  <2>2. CASE AfterInclude(t)
    BY <2>2, AfterIncludeOf
  <2>3. CASE (\E s \in Places : Move(t, s)) /\ UNCHANGED todo
    <3>1. todo' \in [Syncs -> 0..2]
      BY <2>3 DEF ConfTypeOK
    <3> QED BY <2>3, <3>1, MoveOne
  <2> QED BY <2>1, <2>2, <2>3, PlacesOf
          DEF ThreadStep, ReadGlobal, ReadSite, OpenFile, WriteFile, DropFile, Include, Reload,
              ThreadFails, WriteFails, IncludeFails, ReloadFails
<1>2. snap' \in [Syncs -> Settings \cup {"none"}] /\ \A u \in Syncs : u # t => snap'[u] = snap[u]
  BY DEF ThreadStep, ReadGlobal, ReadSite, OpenFile, WriteFile, DropFile, Include, Reload,
         ThreadFails, WriteFails, IncludeFails, ReloadFails, ConfTypeOK
<1> QED BY <1>1, <1>2

\* What a step of a thread leaves alone.
LEMMA ThreadFrame ==
    ASSUME ConfTypeOK, NEW t \in Syncs, ThreadStep(t) \/ ThreadFails(t)
    PROVE  /\ globalRow' = globalRow /\ siteRow' = siteRow
           /\ asks' = asks /\ editKind' = editKind /\ old' = old /\ new' = new
           /\ "global" \in raced => "global" \in raced'
           /\ "site" \in raced => "site" \in raced'
           /\ "hook" \in raced => "hook" \in raced'
           /\ "hook" \in conf' <=> "hook" \in conf
<1>1. /\ globalRow' = globalRow /\ siteRow' = siteRow
      /\ asks' = asks /\ editKind' = editKind /\ old' = old /\ new' = new
  BY DEF ThreadStep, ReadGlobal, ReadSite, OpenFile, WriteFile, DropFile, Include, Reload,
         ThreadFails, WriteFails, IncludeFails, ReloadFails, confRows, edits
<1>2. /\ "global" \in raced => "global" \in raced'
      /\ "site" \in raced => "site" \in raced'
      /\ "hook" \in raced => "hook" \in raced'
  BY DEF ThreadStep, ReadGlobal, ReadSite, OpenFile, WriteFile, DropFile, Include, Reload,
         ThreadFails, WriteFails, IncludeFails, ReloadFails
<1>3. conf' \in {conf, conf \cup {"module"}, conf \ {"module"}}
  BY DEF ThreadStep, ReadGlobal, ReadSite, OpenFile, WriteFile, DropFile, Include, Reload,
         ThreadFails, WriteFails, IncludeFails, ReloadFails
<1>4. "hook" \in conf' <=> "hook" \in conf
  BY <1>3
<1> QED BY <1>1, <1>2, <1>4

\* What a step of a thread does to the files of the global configuration.
LEMMA GlobalEffect ==
    ASSUME ConfTypeOK, NEW t \in Syncs, ThreadStep(t) \/ ThreadFails(t)
    PROVE  /\ at[t] = "global read" =>
                /\ at'[t] = "global open" /\ snap'[t] = globalRow
                /\ globalFile' = globalFile /\ conf' = conf
           /\ at[t] = "module read" =>
                /\ at'[t] = "module" /\ snap'[t] = globalRow
                /\ globalFile' = globalFile /\ conf' = conf
           /\ at[t] = "global open" =>
                at'[t] = "global write" /\ snap' = snap /\ globalFile' = "empty" /\ conf' = conf
           /\ at[t] = "global write" =>
                /\ snap' = snap /\ conf' = conf
                /\ \/ at'[t] \in {"sites read", "module read", "reload", "idle"}
                   \/ at'[t] = "include"
                /\ "global" \notin raced' =>
                      at'[t] = "include" /\ globalFile' \in Overwritten(globalFile, snap[t])
           /\ at[t] \in {"include", "module"} =>
                /\ at'[t] \in {"sites read", "module read", "reload", "idle"}
                /\ snap' = snap /\ globalFile' = globalFile
                /\ "global" \notin raced' => ("module" \in conf' <=> snap[t] = "on")
           /\ at[t] \notin GlobalPending \cup {"module read"} =>
                at'[t] \notin GlobalPending /\ globalFile' = globalFile /\ conf' = conf
<1>1. CASE ReadGlobal(t)
  BY <1>1, MoveOne, PlacesOf DEF ReadGlobal, confFiles, ConfTypeOK, GlobalPending, GlobalHeld
<1>2. CASE ReadSite(t)
  <2>1. at[t] \in {"site read", "sites read"} /\ globalFile' = globalFile /\ conf' = conf
    BY <1>2 DEF ReadSite, confFiles
  <2>2. at'[t] \notin GlobalPending
    BY <1>2, MoveOne, RestOf, PlacesOf DEF ReadSite, GlobalPending, GlobalHeld
  <2> QED BY <2>1, <2>2
<1>3. CASE OpenFile(t)
  BY <1>3, MoveOne, PlacesOf DEF OpenFile, GlobalPending, GlobalHeld
<1>4. CASE WriteFile(t)
  <2>1. CASE at[t] = "global write"
    BY <1>4, <2>1, MoveOne, PlacesOf DEF WriteFile, GlobalPending, GlobalHeld
  <2>2. CASE at[t] = "site write"
    BY <1>4, <2>2, RestOf DEF WriteFile, GlobalPending, GlobalHeld
  <2> QED BY <1>4, <2>1, <2>2 DEF WriteFile
<1>5. CASE DropFile(t)
  BY <1>5, RestOf DEF DropFile, GlobalPending, GlobalHeld
<1>6. CASE Include(t) \/ IncludeFails(t)
  BY <1>6, AfterIncludeOf DEF Include, IncludeFails, confFiles, GlobalPending, GlobalHeld
<1>7. CASE Reload(t) \/ ReloadFails(t)
  BY <1>7, MoveOne, PlacesOf DEF Reload, ReloadFails, confFiles, GlobalPending, GlobalHeld
<1>8. CASE WriteFails(t)
  BY <1>8, RestOf DEF WriteFails, confFiles, GlobalPending, GlobalHeld
<1> QED BY <1>1, <1>2, <1>3, <1>4, <1>5, <1>6, <1>7, <1>8 DEF ThreadStep, ThreadFails

\* And to the file of the site.
LEMMA SiteEffect ==
    ASSUME ConfTypeOK, NEW t \in Syncs, ThreadStep(t) \/ ThreadFails(t)
    PROVE  /\ at[t] = "site read" \/ (at[t] = "sites read" /\ siteRow # "none") =>
                /\ at'[t] = IF siteRow = "none" THEN "site remove" ELSE "site open"
                /\ snap'[t] = siteRow /\ siteFile' = siteFile
                /\ "site" \notin raced' => ~Deleting
           /\ at[t] = "site open" =>
                at'[t] = "site write" /\ snap' = snap /\ siteFile' = "empty"
           /\ at[t] = "site write" =>
                /\ at'[t] \in {"sites read", "module read", "reload", "idle"} /\ snap' = snap
                /\ "site" \notin raced' => siteFile' \in Overwritten(siteFile, snap[t])
           /\ at[t] = "site remove" =>
                /\ at'[t] \in {"sites read", "module read", "reload", "idle"} /\ snap' = snap
                /\ "site" \notin raced' => siteFile' = "none"
           /\ at[t] = "sites read" /\ siteRow = "none" =>
                at'[t] \in {"sites read", "module read", "reload", "idle"}
           /\ at[t] \notin {"site read"} \cup SiteHeld
                  /\ ~(at[t] = "sites read" /\ siteRow # "none") =>
                at'[t] \notin {"site read"} \cup SiteHeld /\ siteFile' = siteFile
<1>1. CASE ReadGlobal(t)
  BY <1>1, MoveOne, PlacesOf DEF ReadGlobal, confFiles, SiteHeld
<1>2. CASE ReadSite(t)
  <2>1. siteFile' = siteFile /\ ("site" \notin raced' => ~Deleting)
    BY <1>2 DEF ReadSite, confFiles
  <2>2. CASE at[t] = "sites read" /\ siteRow = "none"
    <3>1. Rest(t)
      BY <1>2, <2>2 DEF ReadSite
    <3> QED BY <2>1, <2>2, <3>1, RestOf DEF SiteHeld
  <2>3. CASE at[t] = "site read" \/ (at[t] = "sites read" /\ siteRow # "none")
    <3>1. /\ Move(t, IF siteRow = "none" THEN "site remove" ELSE "site open")
          /\ snap' = [snap EXCEPT ![t] = siteRow]
      BY <1>2, <2>3 DEF ReadSite
    <3>2. snap'[t] = siteRow
      BY <3>1 DEF ConfTypeOK
    <3>3. at'[t] = IF siteRow = "none" THEN "site remove" ELSE "site open"
      BY <3>1, MoveOne, PlacesOf
    <3> QED BY <2>1, <2>3, <3>2, <3>3
  <2> QED BY <1>2, <2>2, <2>3 DEF ReadSite
<1>3. CASE OpenFile(t)
  BY <1>3, MoveOne, PlacesOf DEF OpenFile, SiteHeld
<1>4. CASE WriteFile(t)
  <2>1. CASE at[t] = "global write"
    BY <1>4, <2>1, MoveOne, PlacesOf DEF WriteFile, SiteHeld
  <2>2. CASE at[t] = "site write"
    BY <1>4, <2>2, RestOf DEF WriteFile, SiteHeld
  <2> QED BY <1>4, <2>1, <2>2 DEF WriteFile
<1>5. CASE DropFile(t)
  BY <1>5, RestOf DEF DropFile, SiteHeld
<1>6. CASE Include(t) \/ IncludeFails(t)
  BY <1>6, AfterIncludeOf DEF Include, IncludeFails, confFiles, SiteHeld
<1>7. CASE Reload(t) \/ ReloadFails(t)
  BY <1>7, MoveOne, PlacesOf DEF Reload, ReloadFails, confFiles, SiteHeld
<1>8. CASE WriteFails(t)
  BY <1>8, RestOf DEF WriteFails, confFiles, SiteHeld
<1> QED BY <1>1, <1>2, <1>3, <1>4, <1>5, <1>6, <1>7, <1>8 DEF ThreadStep, ThreadFails

-----------------------------------------------------------------------------
(* Types. *)

\* What the counters do, apart from everything else.
Counted == saves \in 0..MaxSaves /\ mishaps \in 0..MaxMishaps

LEMMA CountedStep ==
    ASSUME Counted, [ConfNext]_confVars
    PROVE  Counted'
<1> USE WafConfigAssumption DEF Counted
<1>1. ASSUME NEW r \in Edits, NEW k \in EditKinds, NEW v \in Settings,
             LoadRow(r, k, v) \/ CreateSite(r, v)
      PROVE  Counted'
  <2>1. saves < MaxSaves /\ saves' = saves + 1 /\ mishaps' = mishaps
    BY <1>1, Zenon DEF LoadRow, CreateSite, Begin
  <2> QED BY <2>1
<1>2. CASE \E r \in Edits : SaveGlobal(r) \/ SaveSite(r) \/ SetHook(r) \/ Unhook(r) \/ CommitDelete(r)
  BY <1>2 DEF SaveGlobal, SaveSite, SetHook, Unhook, CommitDelete
<1>3. CASE \E r \in Edits : SetHookFails(r) \/ DropRow(r) \/ DeleteFails(r)
  <2>1. saves' = saves /\ (mishaps' = mishaps \/ Mishap)
    BY ONLY <1>3, Zenon DEF SetHookFails, DropRow, DeleteFails
  <2> QED BY <2>1 DEF Mishap
<1>4. CASE \E t \in Syncs : ThreadStep(t)
  BY <1>4 DEF ThreadStep, ReadGlobal, ReadSite, OpenFile, WriteFile, DropFile, Include, Reload
<1>5. CASE \E t \in Syncs : ThreadFails(t)
  <2>1. saves' = saves /\ Mishap
    BY ONLY <1>5, Zenon DEF ThreadFails, WriteFails, IncludeFails, ReloadFails
  <2> QED BY <2>1 DEF Mishap
<1>6. CASE CheckVisit \/ Expire
  BY <1>6 DEF CheckVisit, Expire
<1>7. CASE ConfCrash
  BY <1>7 DEF ConfCrash, Mishap
<1>8. CASE \E v \in Settings : BatchUpdate(v)
  BY <1>8 DEF BatchUpdate
<1>9. CASE UNCHANGED confVars
  BY <1>9 DEF confVars
<1> QED
  <2>1. EditKinds # {}
    BY DEF EditKinds
  <2> QED BY <2>1, <1>1, <1>2, <1>3, <1>4, <1>5, <1>6, <1>7, <1>8, <1>9 DEF ConfNext, DeleteStep

LEMMA ConfTypeStep ==
    ASSUME ConfTypeOK, ConfShape, [ConfNext]_confVars
    PROVE  ConfTypeOK'
<1>0. Counted'
  BY CountedStep DEF ConfTypeOK, Counted
<1>1. ASSUME NEW r \in Edits, NEW k \in EditKinds, NEW v \in Settings, LoadRow(r, k, v)
      PROVE  ConfTypeOK'
  <2>1. old' \in [Edits -> Settings]
    <3>1. Row(k) \in Settings
      BY <1>1 DEF LoadRow, Row, ConfTypeOK
    <3> QED BY <1>1, <3>1 DEF LoadRow, ConfTypeOK
  <2> QED BY <1>1, <1>0, <2>1 DEF LoadRow, Begin, Overlapping, ConfTypeOK, Counted, confRows,
                                  confFiles, served, syncVars
<1>2. ASSUME NEW r \in Edits, SaveGlobal(r)
      PROVE  ConfTypeOK'
  BY <1>2, <1>0, AtSaveGlobal
     DEF SaveGlobal, RacedAfter, ConfTypeOK, Counted, confFiles, served, Places
<1>3. ASSUME NEW r \in Edits, SaveSite(r)
      PROVE  ConfTypeOK'
  BY <1>3, <1>0, AtSaveSite
     DEF SaveSite, RacedAfter, ConfTypeOK, Counted, confFiles, served, Places
<1>4. ASSUME NEW r \in Edits, SetHook(r) \/ SetHookFails(r) \/ Unhook(r)
      PROVE  ConfTypeOK'
  BY <1>4, <1>0 DEF SetHook, SetHookFails, Unhook, ConfTypeOK, ConfParts, Counted,
                    confRows, confFiles, served, syncVars
<1>5. ASSUME NEW t \in Syncs, ThreadStep(t) \/ ThreadFails(t)
      PROVE  ConfTypeOK'
  <2>1. /\ globalRow' = globalRow /\ siteRow' = siteRow
        /\ asks' = asks /\ editKind' = editKind /\ old' = old /\ new' = new
    BY <1>5, ThreadFrame
  <2>2. /\ at' \in [Syncs -> Places] /\ snap' \in [Syncs -> Settings \cup {"none"}]
        /\ todo' \in [Syncs -> 0..2]
    BY <1>5, AtRest
  <2>3. globalFile' \in Settings \cup {"empty", "broken"}
    <3>1. CASE at[t] \in {"global open", "global write"}
      <4>1. snap[t] \in Settings
        BY <3>1 DEF ConfShape, GlobalHeld, ConfTypeOK
      <4>2. globalFile' \in {"empty", snap[t], "broken", globalFile}
        BY <1>5, <3>1 DEF ThreadStep, ReadGlobal, ReadSite, OpenFile, WriteFile, DropFile, Include, Reload,
                          ThreadFails, WriteFails, IncludeFails, ReloadFails,
                          Overwritten, confFiles, ConfTypeOK, Settings
      <4> QED BY <4>1, <4>2 DEF ConfTypeOK
    <3>2. CASE at[t] \notin {"global open", "global write"}
      <4>1. globalFile' = globalFile
        BY <1>5, <3>2 DEF ThreadStep, ReadGlobal, ReadSite, OpenFile, WriteFile, DropFile, Include, Reload,
                          ThreadFails, WriteFails, IncludeFails, ReloadFails,
                          confFiles
      <4> QED BY <4>1 DEF ConfTypeOK
    <3> QED BY <3>1, <3>2
  <2>4. siteFile' \in Settings \cup {"empty", "broken", "none"}
    <3>1. siteFile' \in {"empty", snap[t], "broken", siteFile, "none"}
      BY <1>5 DEF ThreadStep, ReadGlobal, ReadSite, OpenFile, WriteFile, DropFile, Include, Reload,
                  ThreadFails, WriteFails, IncludeFails, ReloadFails,
                  Overwritten, confFiles
    <3> QED BY <3>1 DEF ConfTypeOK
  <2>5. conf' \subseteq ConfParts /\ running' \subseteq ConfParts
    BY <1>5 DEF ThreadStep, ReadGlobal, ReadSite, OpenFile, WriteFile, DropFile, Include, Reload,
                ThreadFails, WriteFails, IncludeFails, ReloadFails,
                served, ConfParts, ConfTypeOK
  <2>6. /\ globalCache' \in Settings \cup {"none"} /\ siteCache' \in Settings \cup {"none"}
        /\ memory' \in Settings \cup {"none"}
    <3>1. CASE Reload(t)
      BY <3>1 DEF Reload, Loaded, ConfTypeOK
    <3>2. CASE UNCHANGED served
      BY <3>2 DEF served, ConfTypeOK
    <3> QED BY <1>5, <3>1, <3>2 DEF ThreadStep, ReadGlobal, ReadSite, OpenFile, WriteFile, DropFile, Include, Reload,
                                    ThreadFails, WriteFails, IncludeFails, ReloadFails
  <2>7. raced' \subseteq {"global", "site", "hook", "reload"}
    BY <1>5 DEF ThreadStep, ReadGlobal, ReadSite, OpenFile, WriteFile, DropFile, Include, Reload,
                ThreadFails, WriteFails, IncludeFails, ReloadFails,
                ConfTypeOK
  <2> QED BY <1>0, <2>1, <2>2, <2>3, <2>4, <2>5, <2>6, <2>7 DEF ConfTypeOK, Counted, Places
<1>6. CASE CheckVisit
  BY <1>6, <1>0 DEF CheckVisit, Loaded, ConfTypeOK, Counted, confRows, confFiles, edits, syncVars
<1>7. CASE Expire
  BY <1>7, <1>0 DEF Expire, ConfTypeOK, Counted, confRows, confFiles, edits, syncVars
<1>8. CASE ConfCrash
  <2>1. todo' \in [Syncs -> 0..2]
    <3>1. 0 \in 0..2
      OBVIOUS
    <3> QED BY <1>8, <3>1 DEF ConfCrash
  <2> QED BY <1>8, <1>0, <2>1 DEF ConfCrash, ConfTypeOK, Counted, confRows, confFiles, served
<1>9. CASE UNCHANGED confVars
  BY <1>9 DEF confVars, ConfTypeOK, confRows, confFiles, served, edits, syncVars
<1>10. ASSUME NEW r \in Edits, NEW v \in Settings, CreateSite(r, v)
       PROVE  ConfTypeOK'
  <2>1. "site" \in EditKinds /\ "off" \in Settings
    BY DEF EditKinds, Settings
  <2> QED BY <1>10, <1>0, <2>1, AtCreateSite
          DEF CreateSite, Begin, Overlapping, RacedAfter, ConfTypeOK, Counted, confFiles, served,
              Places
<1>11. ASSUME NEW v \in Settings, BatchUpdate(v)
       PROVE  ConfTypeOK'
  BY <1>11, <1>0 DEF BatchUpdate, ConfTypeOK, Counted, confFiles, served, edits, syncVars
<1>12. ASSUME NEW r \in Edits, DropRow(r)
       PROVE  ConfTypeOK'
  <2>1. /\ at' \in [Syncs -> Places] /\ todo' \in [Syncs -> 0..2]
    BY <1>12, AtDropRow
  <2>2. /\ asks' \in [Edits -> {"none", "loaded", "saved", "unhooked", "removed"}]
        /\ siteFile' \in Settings \cup {"empty", "broken", "none"}
        /\ raced' \subseteq {"global", "site", "hook", "reload"}
    BY <1>12 DEF DropRow, ConfTypeOK
  <2> QED BY <1>12, <1>0, <2>1, <2>2 DEF DropRow, ConfTypeOK, Counted, Places, confRows, served
<1>13. ASSUME NEW r \in Edits, CommitDelete(r) \/ DeleteFails(r)
       PROVE  ConfTypeOK'
  BY <1>13, <1>0 DEF CommitDelete, DeleteFails, ConfTypeOK, Counted, confRows, confFiles, served,
                     syncVars
<1> QED BY <1>1, <1>2, <1>3, <1>4, <1>5, <1>6, <1>7, <1>8, <1>9, <1>10, <1>11, <1>12, <1>13
        DEF ConfNext, DeleteStep

-----------------------------------------------------------------------------
(* The invariant. *)

LEMMA ConfShapeStep ==
    ASSUME ConfTypeOK, ConfShape, [ConfNext]_confVars
    PROVE  ConfShape'
<1>1. ASSUME NEW r \in Edits, NEW k \in EditKinds, NEW v \in Settings, LoadRow(r, k, v)
      PROVE  ConfShape'
  <2>1. \A q \in Edits : /\ q # r => asks'[q] = asks[q] /\ editKind'[q] = editKind[q]
                         /\ asks'[r] = "loaded"
    BY <1>1 DEF LoadRow, Begin, ConfTypeOK
  <2>2. at' = at /\ snap' = snap /\ at[<<r, "own">>] = "idle" /\ at[<<r, "signal">>] = "idle"
    BY <1>1 DEF LoadRow, Begin, syncVars
  <2> QED BY <2>1, <2>2 DEF ConfShape, Removing
<1>2. ASSUME NEW r \in Edits, SaveGlobal(r)
      PROVE  ConfShape'
  <2>1. asks'[r] = "none" /\ editKind' = editKind /\ snap' = snap
        /\ \A q \in Edits : q # r => asks'[q] = asks[q]
    BY <1>2 DEF SaveGlobal, ConfTypeOK
  <2>2. \A q \in Edits : q # r => /\ at'[<<q, "own">>] = at[<<q, "own">>]
                                  /\ at'[<<q, "signal">>] = at[<<q, "signal">>]
    BY <1>2, AtSaveGlobal, SyncsOf
  <2>3. \A t \in Syncs : at'[t] = at[t] \/ at'[t] = "global read"
    BY <1>2, AtSaveGlobal
  <2> QED BY <2>1, <2>2, <2>3 DEF ConfShape, Removing, GlobalHeld
<1>3. ASSUME NEW r \in Edits, SaveSite(r)
      PROVE  ConfShape'
  <2>1. /\ asks'[r] = "none" \/ (asks'[r] = "saved" /\ editKind[r] = "site")
        /\ editKind' = editKind /\ snap' = snap
        /\ \A q \in Edits : q # r => asks'[q] = asks[q]
    BY <1>3 DEF SaveSite, ConfTypeOK
  <2>2. \A q \in Edits : q # r => /\ at'[<<q, "own">>] = at[<<q, "own">>]
                                  /\ at'[<<q, "signal">>] = at[<<q, "signal">>]
    BY <1>3, AtSaveSite, SyncsOf
  <2>3. \A t \in Syncs : at'[t] = at[t] \/ at'[t] = "site read"
    BY <1>3, AtSaveSite
  <2> QED BY <2>1, <2>2, <2>3 DEF ConfShape, Removing, GlobalHeld
<1>4. ASSUME NEW r \in Edits,
             \/ SetHook(r) \/ SetHookFails(r) \/ Unhook(r) \/ CommitDelete(r) \/ DeleteFails(r)
      PROVE  ConfShape'
  <2>1. /\ editKind' = editKind /\ at' = at /\ snap' = snap
        /\ \/ asks' = [asks EXCEPT ![r] = "none"]
           \/ /\ asks[r] = "loaded" /\ editKind[r] = "delete"
              /\ asks' = [asks EXCEPT ![r] = "unhooked"]
    BY <1>4 DEF SetHook, SetHookFails, Unhook, CommitDelete, DeleteFails, syncVars
  <2>2. \A q \in Edits : \/ asks'[q] \in {"none", asks[q]}
                        \/ /\ asks[q] = "loaded" /\ editKind[q] = "delete"
                           /\ asks'[q] = "unhooked"
    BY <2>1 DEF ConfTypeOK
  <2> QED BY <2>1, <2>2 DEF ConfShape, Removing
<1>5. ASSUME NEW t \in Syncs, ThreadStep(t) \/ ThreadFails(t)
      PROVE  ConfShape'
  <2>1. asks' = asks /\ editKind' = editKind
    BY <1>5, ThreadFrame
  <2>2. at[t] # "idle"
    BY <1>5 DEF ThreadStep, ReadGlobal, ReadSite, OpenFile, WriteFile, DropFile, Include, Reload,
                ThreadFails, WriteFails, IncludeFails, ReloadFails
  <2>3. \A u \in Syncs : at[u] = "idle" => at'[u] = at[u]
    BY <1>5, <2>2, AtRest
  <2>4. /\ at'[t] \in GlobalHeld \cup {"site open", "site write"} => snap'[t] # "none"
        /\ at'[t] = "site remove" => snap'[t] = "none"
    <3>1. CASE at[t] \in {"global read", "module read"}
      <4>1. snap'[t] = globalRow /\ at'[t] # "site remove"
        BY <1>5, <3>1, GlobalEffect
      <4> QED BY <4>1 DEF ConfTypeOK, Settings
    <3>2. CASE at[t] \in {"site read", "sites read"}
      BY <1>5, <3>2, SiteEffect DEF GlobalHeld
    <3>3. CASE at[t] \in GlobalHeld
      BY <1>5, <3>3, GlobalEffect DEF ConfShape, GlobalHeld
    <3>4. CASE at[t] \in SiteHeld
      <4>1. CASE at[t] = "site open"
        <5>1. at'[t] = "site write" /\ snap'[t] # "none"
          BY <1>5, <4>1, SiteEffect DEF ConfShape
        <5> QED BY <5>1
      <4>2. CASE at[t] \in {"site write", "site remove"}
        <5>1. at'[t] \in {"sites read", "module read", "reload", "idle"}
          BY <1>5, <4>2, SiteEffect
        <5> QED BY <5>1 DEF GlobalHeld
      <4> QED BY <3>4, <4>1, <4>2 DEF SiteHeld
    <3>5. CASE at[t] \notin {"global read", "module read", "site read", "sites read"}
                            \cup GlobalHeld \cup SiteHeld
      <4>1. at'[t] = "idle"
        BY <1>5, <2>2, <3>5, MoveOne, PlacesOf
           DEF ThreadStep, ReadGlobal, ReadSite, OpenFile, WriteFile, DropFile, Include, Reload,
               ThreadFails, WriteFails, IncludeFails, ReloadFails, GlobalHeld,
               SiteHeld
      <4> QED BY <4>1 DEF GlobalHeld
    <3> QED BY <3>1, <3>2, <3>3, <3>4, <3>5
  <2>5. \A u \in Syncs : u # t => at'[u] = at[u] /\ snap'[u] = snap[u]
    BY <1>5, AtRest
  <2> QED BY <2>1, <2>3, <2>4, <2>5, SyncsOf DEF ConfShape
<1>6. CASE CheckVisit \/ Expire \/ UNCHANGED confVars
  <2>1. asks' = asks /\ editKind' = editKind /\ at' = at /\ snap' = snap
    BY <1>6 DEF CheckVisit, Expire, confVars, edits, syncVars
  <2> QED BY <2>1 DEF ConfShape
<1>7. CASE ConfCrash
  BY <1>7, SyncsOf DEF ConfCrash, ConfShape, Removing, GlobalHeld
<1>8. ASSUME NEW r \in Edits, NEW v \in Settings, CreateSite(r, v)
      PROVE  ConfShape'
  <2>1. /\ asks'[r] = "saved" /\ editKind'[r] = "site" /\ snap' = snap
        /\ \A q \in Edits : q # r => asks'[q] = asks[q] /\ editKind'[q] = editKind[q]
    BY <1>8 DEF CreateSite, Begin, ConfTypeOK
  <2>2. \A q \in Edits : q # r => /\ at'[<<q, "own">>] = at[<<q, "own">>]
                                  /\ at'[<<q, "signal">>] = at[<<q, "signal">>]
    BY <1>8, AtCreateSite, SyncsOf
  <2>3. \A t \in Syncs : at'[t] = at[t] \/ at'[t] = "site read"
    BY <1>8, AtCreateSite
  <2>4. \A q \in Edits :
          /\ asks'[q] \in {"loaded", "unhooked"} => /\ at'[<<q, "own">>] = "idle"
                                                  /\ at'[<<q, "signal">>] = "idle"
          /\ asks'[q] = "saved" => editKind'[q] = "site"
          /\ asks'[q] \in Removing => editKind'[q] = "delete"
    BY <2>1, <2>2 DEF ConfShape, Removing
  <2>5. \A t \in Syncs :
          /\ at'[t] \in GlobalHeld \cup {"site open", "site write"} => snap'[t] # "none"
          /\ at'[t] = "site remove" => snap'[t] = "none"
    BY <2>1, <2>3 DEF ConfShape, GlobalHeld
  <2> QED BY <2>4, <2>5 DEF ConfShape
<1>9. CASE \E v \in Settings : BatchUpdate(v)
  <2>1. asks' = asks /\ editKind' = editKind /\ at' = at /\ snap' = snap
    BY <1>9 DEF BatchUpdate, edits, syncVars
  <2> QED BY <2>1 DEF ConfShape
<1>10. ASSUME NEW r \in Edits, DropRow(r)
       PROVE  ConfShape'
  <2>1. /\ asks[r] = "unhooked" /\ asks'[r] \in {"none", "removed"}
        /\ editKind' = editKind /\ snap' = snap
        /\ \A q \in Edits : q # r => asks'[q] = asks[q]
    BY <1>10 DEF DropRow, ConfTypeOK
  <2>2. \A q \in Edits : q # r => /\ at'[<<q, "own">>] = at[<<q, "own">>]
                                  /\ at'[<<q, "signal">>] = at[<<q, "signal">>]
    BY <1>10, AtDropRow, SyncsOf
  <2>3. \A t \in Syncs : at'[t] = at[t] \/ at'[t] = "global read"
    BY <1>10, AtDropRow, SyncsOf
  <2>4. \A q \in Edits :
          /\ asks'[q] \in {"loaded", "unhooked"} => /\ at'[<<q, "own">>] = "idle"
                                                  /\ at'[<<q, "signal">>] = "idle"
          /\ asks'[q] = "saved" => editKind'[q] = "site"
          /\ asks'[q] \in Removing => editKind'[q] = "delete"
    BY <2>1, <2>2 DEF ConfShape, Removing
  <2>5. \A t \in Syncs :
          /\ at'[t] \in GlobalHeld \cup {"site open", "site write"} => snap'[t] # "none"
          /\ at'[t] = "site remove" => snap'[t] = "none"
    BY <2>1, <2>3 DEF ConfShape, GlobalHeld
  <2> QED BY <2>4, <2>5 DEF ConfShape
<1> QED BY <1>1, <1>2, <1>3, <1>4, <1>5, <1>6, <1>7, <1>8, <1>9, <1>10 DEF ConfNext, DeleteStep

LEMMA GlobalStep ==
    ASSUME ConfTypeOK, ConfShape, GlobalInv, [ConfNext]_confVars
    PROVE  GlobalInv'
<1> SUFFICES ASSUME "global" \notin raced'
             PROVE  GlobalInv'
  BY DEF GlobalInv
<1>1. ASSUME NEW r \in Edits, NEW k \in EditKinds, NEW v \in Settings, LoadRow(r, k, v)
      PROVE  GlobalInv'
  BY <1>1 DEF LoadRow, confRows, confFiles, syncVars, GlobalInv
<1>2. ASSUME NEW r \in Edits, SaveGlobal(r)
      PROVE  GlobalInv'
  <2>1. /\ globalRow' = new[r] /\ globalFile' = globalFile /\ snap' = snap
        /\ raced' = RacedAfter("global", GlobalHeld, new[r])
    BY <1>2 DEF SaveGlobal, confFiles
  <2>2. \A t \in Syncs : at'[t] \in GlobalHeld =>
            at[t] \in GlobalHeld /\ at'[t] = at[t]
    BY <1>2, AtSaveGlobal DEF GlobalHeld
  <2>3. \A t \in Syncs : at[t] \in GlobalHeld => snap[t] = new[r] /\ "global" \notin raced
    BY <2>1 DEF RacedAfter, Copies
  <2>4. \A t \in Syncs : at'[t] = "global write" => globalFile' \in {"empty", globalRow'}
    BY <2>1, <2>2, <2>3 DEF GlobalInv, GlobalHeld
  <2>5. \A t \in Syncs : at'[t] \in GlobalHeld => snap'[t] = globalRow'
    BY <2>1, <2>2, <2>3
  <2>6. <<r, "signal">> \in Syncs /\ at'[<<r, "signal">>] = "global read"
    BY <1>2, AtSaveGlobal, SyncsOf
  <2> QED BY <2>4, <2>5, <2>6 DEF GlobalInv, GlobalPending
<1>3. ASSUME NEW r \in Edits, NEW v \in Settings, SaveSite(r) \/ CreateSite(r, v)
      PROVE  GlobalInv'
  <2>1. "global" \notin raced
    BY <1>3 DEF SaveSite, CreateSite, RacedAfter
  <2>2. globalRow' = globalRow /\ globalFile' = globalFile /\ snap' = snap /\ conf' = conf
    BY <1>3 DEF SaveSite, CreateSite, confFiles
  <2>3. \A t \in Syncs : \A s \in GlobalPending : at'[t] = s <=> at[t] = s
    <3>1. at[<<r, "signal">>] = "idle"
      BY <1>3, AtCreateSite DEF SaveSite, ConfShape
    <3> QED BY <3>1, <1>3, AtSaveSite, AtCreateSite DEF GlobalPending, GlobalHeld
  <2> QED BY <2>1, <2>2, <2>3, SyncsOf DEF GlobalInv, GlobalPending, GlobalHeld
<1>4. ASSUME NEW r \in Edits,
             \/ SetHook(r) \/ SetHookFails(r) \/ Unhook(r) \/ CommitDelete(r) \/ DeleteFails(r)
      PROVE  GlobalInv'
  <2>1. "global" \notin raced /\ ("module" \in conf' <=> "module" \in conf)
    BY <1>4 DEF SetHook, SetHookFails, Unhook, CommitDelete, DeleteFails
  <2> QED BY <2>1, <1>4 DEF SetHook, SetHookFails, Unhook, CommitDelete, DeleteFails, confRows,
                            confFiles, syncVars, GlobalInv
<1>5. ASSUME NEW t \in Syncs, ThreadStep(t) \/ ThreadFails(t)
      PROVE  GlobalInv'
  <2>0. /\ at' \in [Syncs -> Places]
        /\ \A u \in Syncs : u # t => at'[u] = at[u] /\ snap'[u] = snap[u]
        /\ "global" \notin raced /\ globalRow' = globalRow
    BY <1>5, AtRest, ThreadFrame
  <2>1. CASE at[t] = "global read"
    <3>1. at'[t] = "global open" /\ snap'[t] = globalRow /\ globalFile' = globalFile /\ conf' = conf
      BY <1>5, <2>1, GlobalEffect
    <3> QED BY <3>1, <2>0, <2>1, SyncsOf DEF GlobalInv, GlobalPending, GlobalHeld
  <2>2. CASE at[t] = "global open"
    <3>1. at'[t] = "global write" /\ snap' = snap /\ globalFile' = "empty" /\ conf' = conf
      BY <1>5, <2>2, GlobalEffect
    <3> QED BY <3>1, <2>0, <2>2, SyncsOf DEF GlobalInv, GlobalPending, GlobalHeld
  <2>3. CASE at[t] = "global write"
    <3>1. /\ at'[t] = "include" /\ snap' = snap /\ conf' = conf
          /\ globalFile' \in Overwritten(globalFile, snap[t])
      BY <1>5, <2>3, GlobalEffect
    <3>2. globalFile' = globalRow
      BY <3>1, <2>0, <2>3 DEF Overwritten, GlobalInv, GlobalHeld, ConfTypeOK, Settings
    <3> QED BY <3>1, <3>2, <2>0, <2>3, SyncsOf DEF GlobalInv, GlobalPending, GlobalHeld
  <2>4. CASE at[t] \in {"include", "module"}
    <3>1. /\ at'[t] \in {"sites read", "module read", "reload", "idle"}
          /\ snap' = snap /\ globalFile' = globalFile
          /\ "module" \in conf' <=> snap[t] = "on"
      BY <1>5, <2>4, GlobalEffect
    <3>2. snap[t] = globalRow
      BY <2>0, <2>4 DEF GlobalInv, GlobalHeld
    <3> QED BY <3>1, <3>2, <2>0, <2>4, SyncsOf DEF GlobalInv, GlobalPending, GlobalHeld
  <2>5. CASE at[t] = "module read"
    <3>1. at'[t] = "module" /\ snap'[t] = globalRow /\ globalFile' = globalFile /\ conf' = conf
      BY <1>5, <2>5, GlobalEffect
    <3> QED BY <3>1, <2>0, <2>5, SyncsOf DEF GlobalInv, GlobalPending, GlobalHeld
  <2>6. CASE at[t] \notin GlobalPending \cup {"module read"}
    <3>1. at'[t] \notin GlobalPending /\ globalFile' = globalFile /\ conf' = conf
      BY <1>5, <2>6, GlobalEffect
    <3> QED BY <3>1, <2>0, <2>6, SyncsOf DEF GlobalInv, GlobalPending, GlobalHeld
  <2> QED BY <2>1, <2>2, <2>3, <2>4, <2>5, <2>6 DEF GlobalPending, GlobalHeld
<1>6. CASE CheckVisit \/ Expire \/ UNCHANGED confVars
  BY <1>6 DEF CheckVisit, Expire, confVars, confRows, confFiles, syncVars, GlobalInv
<1>7. CASE ConfCrash
  BY <1>7 DEF ConfCrash
<1>8. CASE \E v \in Settings : BatchUpdate(v)
  BY <1>8 DEF BatchUpdate, confFiles, syncVars, GlobalInv
<1>9. ASSUME NEW r \in Edits, DropRow(r)
      PROVE  GlobalInv'
  <2>1. /\ "global" \notin raced /\ snap' = snap /\ conf' = conf
        /\ globalRow' = globalRow /\ globalFile' = globalFile
    BY <1>9 DEF DropRow, confRows
  <2>2. at[<<r, "signal">>] = "idle"
    BY <1>9 DEF DropRow, ConfShape
  <2>3. \A t \in Syncs : \A s \in GlobalPending : at[t] = s => at'[t] = s
    BY <1>9, <2>2, AtDropRow DEF GlobalPending, GlobalHeld
  <2>4. \A t \in Syncs : at'[t] \in GlobalHeld => at'[t] = at[t]
    BY <1>9, AtDropRow DEF GlobalHeld
  <2> QED BY <2>1, <2>3, <2>4, SyncsOf DEF GlobalInv, GlobalPending, GlobalHeld
<1> QED
  <2>1. "off" \in Settings
    BY DEF Settings
  <2> QED BY <2>1, <1>1, <1>2, <1>3, <1>4, <1>5, <1>6, <1>7, <1>8, <1>9 DEF ConfNext, DeleteStep

LEMMA SiteStep ==
    ASSUME ConfTypeOK, ConfShape, SiteInv, [ConfNext]_confVars
    PROVE  SiteInv'
<1> SUFFICES ASSUME "site" \notin raced'
             PROVE  SiteInv'
  BY DEF SiteInv
<1>1. ASSUME NEW r \in Edits, NEW k \in EditKinds, NEW v \in Settings, LoadRow(r, k, v)
      PROVE  SiteInv'
  <2>1. Deleting' <=> Deleting
    BY <1>1 DEF LoadRow, Begin, Deleting, ConfTypeOK
  <2> QED BY <1>1, <2>1 DEF LoadRow, confRows, confFiles, syncVars, SiteInv
<1>2. ASSUME NEW r \in Edits, SaveGlobal(r)
      PROVE  SiteInv'
  <2>1. "site" \notin raced
    BY <1>2 DEF SaveGlobal, RacedAfter
  <2>2. siteRow' = siteRow /\ siteFile' = siteFile /\ snap' = snap
    BY <1>2 DEF SaveGlobal, confFiles
  <2>3. \A t \in Syncs : \A s \in {"site read"} \cup SiteHeld : at'[t] = s <=> at[t] = s
    <3>1. at[<<r, "own">>] = "idle" /\ at[<<r, "signal">>] = "idle"
      BY <1>2 DEF SaveGlobal, ConfShape
    <3> QED BY <3>1, <1>2, AtSaveGlobal DEF SiteHeld
  <2>4. ~Deleting /\ ~Deleting'
    BY <1>2 DEF SaveGlobal, Deleting, ConfTypeOK
  <2> QED BY <2>1, <2>2, <2>3, <2>4 DEF SiteInv, SiteHeld
<1>3. ASSUME NEW r \in Edits, NEW v \in Settings,
             (SaveSite(r) /\ v = new[r]) \/ CreateSite(r, v)
      PROVE  SiteInv'
  <2>1. /\ siteRow' = v /\ siteFile' = siteFile /\ snap' = snap
        /\ "site" \notin RacedAfter("site", SiteHeld, v)
    BY <1>3 DEF SaveSite, CreateSite, confFiles
  <2>2. \A t \in Syncs : at'[t] \in SiteHeld => at[t] \in SiteHeld /\ at'[t] = at[t]
    BY <1>3, AtSaveSite, AtCreateSite DEF SiteHeld
  <2>3. \A t \in Syncs : at[t] \in SiteHeld => snap[t] = v /\ "site" \notin raced
    BY <2>1 DEF RacedAfter, Copies
  <2>4. \A t \in Syncs : at'[t] = "site write" => siteFile' \in {"empty", siteRow'}
    BY <2>1, <2>2, <2>3 DEF SiteInv, SiteHeld
  <2>5. \A t \in Syncs : at'[t] \in SiteHeld => snap'[t] = siteRow'
    BY <2>1, <2>2, <2>3
  <2>6. <<r, "signal">> \in Syncs /\ at'[<<r, "signal">>] = "site read"
    BY <1>3, AtSaveSite, AtCreateSite, SyncsOf
  <2>7. ~Deleting'
    BY <1>3 DEF SaveSite, CreateSite, Deleting, ConfTypeOK
  <2> QED BY <2>4, <2>5, <2>6, <2>7 DEF SiteInv
<1>4. ASSUME NEW r \in Edits, SetHook(r) \/ SetHookFails(r) \/ Unhook(r)
      PROVE  SiteInv'
  <2>1. Deleting' <=> Deleting
    BY <1>4 DEF SetHook, SetHookFails, Unhook, Deleting, ConfTypeOK
  <2> QED BY <1>4, <2>1 DEF SetHook, SetHookFails, Unhook, confRows, confFiles, syncVars, SiteInv
<1>5. ASSUME NEW t \in Syncs, ThreadStep(t) \/ ThreadFails(t)
      PROVE  SiteInv'
  <2>0. /\ at' \in [Syncs -> Places]
        /\ \A u \in Syncs : u # t => at'[u] = at[u] /\ snap'[u] = snap[u]
        /\ "site" \notin raced /\ siteRow' = siteRow /\ (Deleting' <=> Deleting)
    <3>1. asks' = asks
      BY <1>5, ThreadFrame
    <3>2. Deleting' <=> Deleting
      BY <3>1 DEF Deleting
    <3> QED BY <1>5, <3>2, AtRest, ThreadFrame
  <2>1. CASE at[t] = "site read" \/ (at[t] = "sites read" /\ siteRow # "none")
    <3>1. /\ at'[t] \in {"site open", "site remove"} /\ snap'[t] = siteRow
          /\ siteFile' = siteFile /\ ~Deleting
      BY <1>5, <2>1, SiteEffect
    <3> QED BY <3>1, <2>0, <2>1 DEF SiteInv, SiteHeld
  <2>2. CASE at[t] = "site open"
    <3>1. at'[t] = "site write" /\ snap' = snap /\ siteFile' = "empty"
      BY <1>5, <2>2, SiteEffect
    <3> QED BY <3>1, <2>0, <2>2 DEF SiteInv, SiteHeld
  <2>3. CASE at[t] = "site write"
    <3>1. /\ at'[t] \notin {"site read"} \cup SiteHeld /\ snap' = snap
          /\ siteFile' \in Overwritten(siteFile, snap[t])
      BY <1>5, <2>3, SiteEffect DEF SiteHeld
    <3>2. snap[t] = siteRow /\ siteFile \in {"empty", siteRow} /\ siteRow # "none"
      BY <2>0, <2>3 DEF SiteInv, SiteHeld, ConfShape
    <3>3. siteFile' = siteRow
      BY <3>1, <3>2 DEF Overwritten
    <3> QED BY <3>1, <3>2, <3>3, <2>0, <2>3 DEF SiteInv, SiteHeld
  <2>4. CASE at[t] = "site remove"
    <3>1. /\ at'[t] \notin {"site read"} \cup SiteHeld /\ snap' = snap
          /\ siteFile' = "none"
      BY <1>5, <2>4, SiteEffect DEF SiteHeld
    <3>2. snap[t] = siteRow /\ siteRow = "none"
      BY <2>0, <2>4 DEF SiteInv, SiteHeld, ConfShape
    <3> QED BY <3>1, <3>2, <2>0, <2>4 DEF SiteInv, SiteHeld
  <2>5. CASE /\ at[t] \notin {"site read"} \cup SiteHeld
             /\ ~(at[t] = "sites read" /\ siteRow # "none")
    <3>1. /\ at'[t] \notin {"site read"} \cup SiteHeld /\ siteFile' = siteFile
      BY <1>5, <2>5, SiteEffect
    <3> QED BY <3>1, <2>0, <2>5 DEF SiteInv, SiteHeld
  <2> QED BY <2>1, <2>2, <2>3, <2>4, <2>5 DEF SiteHeld
<1>6. CASE CheckVisit \/ Expire \/ UNCHANGED confVars
  BY <1>6 DEF CheckVisit, Expire, confVars, confRows, confFiles, edits, syncVars, SiteInv, Deleting
<1>7. CASE ConfCrash
  BY <1>7 DEF ConfCrash
<1>8. CASE \E v \in Settings : BatchUpdate(v)
  BY <1>8 DEF BatchUpdate
<1>9. ASSUME NEW r \in Edits, DropRow(r)
      PROVE  SiteInv'
  <2>1. siteRow' = siteRow /\ snap' = snap /\ ~Deleting
    BY <1>9 DEF DropRow, confRows
  <2>2. CASE siteRow = "none"
    <3>1. siteFile' = siteFile /\ at' = at /\ raced' = raced /\ ~Deleting'
      BY <1>9, <2>1, <2>2 DEF DropRow, Deleting, ConfTypeOK
    <3> QED BY <3>1, <2>1 DEF SiteInv
  <2>3. CASE siteRow # "none"
    <3>1. siteFile' = "none" /\ Copies(SiteHeld) = {} /\ asks'[r] = "removed"
      BY <1>9, <2>3 DEF DropRow, ConfTypeOK
    <3>2. \A t \in Syncs : at'[t] \notin SiteHeld
      BY <3>1, <1>9, AtDropRow DEF Copies, SiteHeld
    <3>3. Deleting'
      BY <3>1 DEF Deleting
    <3> QED BY <3>1, <3>2, <3>3 DEF SiteInv, SiteHeld
  <2> QED BY <2>2, <2>3
<1>10. ASSUME NEW r \in Edits, CommitDelete(r)
       PROVE  SiteInv'
  <2>1. /\ Deleting /\ siteRow' = "none" /\ siteFile' = siteFile /\ at' = at
        /\ "site" \notin raced
    BY <1>10 DEF CommitDelete, Deleting, confFiles, syncVars
  <2>2. siteFile = "none" /\ \A t \in Syncs : at[t] \notin SiteHeld
    BY <2>1 DEF SiteInv
  <2> QED BY <2>1, <2>2 DEF SiteInv, SiteHeld
<1>11. CASE \E r \in Edits : DeleteFails(r)
  BY <1>11 DEF DeleteFails
<1> QED
  <2>1. \A r \in Edits : new[r] \in Settings
    BY DEF ConfTypeOK
  <2>2. \A r \in Edits : SaveSite(r) => SiteInv'
    BY <2>1, <1>3
  <2>3. \A r \in Edits : \A v \in Settings : CreateSite(r, v) => SiteInv'
    BY <1>3
  <2> QED BY <2>2, <2>3, <1>1, <1>2, <1>4, <1>5, <1>6, <1>7, <1>8, <1>9, <1>10, <1>11
          DEF ConfNext, DeleteStep

LEMMA ServedStep ==
    ASSUME ConfTypeOK, ConfShape, GlobalInv, ServedInv, [ConfNext]_confVars
    PROVE  ServedInv'
<1> SUFFICES ASSUME "global" \notin raced', "reload" \notin raced'
             PROVE  ServedInv'
  BY DEF ServedInv
<1>1. ASSUME NEW r \in Edits, NEW k \in EditKinds, NEW v \in Settings, LoadRow(r, k, v)
      PROVE  ServedInv'
  BY <1>1 DEF LoadRow, confRows, served, syncVars, ServedInv
<1>2. ASSUME NEW r \in Edits, NEW v \in Settings, SaveGlobal(r) \/ SaveSite(r) \/ CreateSite(r, v)
      PROVE  ServedInv'
  <2>1. at'[<<r, "signal">>] # "idle"
    BY <1>2, AtSaveGlobal, AtSaveSite, AtCreateSite
  <2> QED BY <2>1 DEF ServedInv
<1>3. ASSUME NEW r \in Edits,
             \/ SetHook(r) \/ SetHookFails(r) \/ Unhook(r) \/ CommitDelete(r) \/ DeleteFails(r)
      PROVE  ServedInv'
  BY <1>3 DEF SetHook, SetHookFails, Unhook, CommitDelete, DeleteFails, confRows, served, syncVars,
              ServedInv
<1>4. ASSUME NEW t \in Syncs, Reload(t)
      PROVE  ServedInv'
  <2>1. running' = conf /\ globalRow' = globalRow /\ "global" \notin raced
    BY <1>4 DEF Reload, confRows
  <2>2. CASE "module" \in conf <=> globalRow = "on"
    BY <2>1, <2>2 DEF ServedInv
  <2>3. CASE \E r \in Edits : at[<<r, "signal">>] \in GlobalPending
    <3>1. PICK r \in Edits : at[<<r, "signal">>] \in GlobalPending
      BY <2>3
    <3>2. at[t] = "reload" /\ Move(t, "idle")
      BY <1>4 DEF Reload
    <3>3. at'[<<r, "signal">>] # "idle"
      BY <3>1, <3>2, MoveOne, PlacesOf, SyncsOf DEF GlobalPending, GlobalHeld
    <3> QED BY <3>3 DEF ServedInv
  <2> QED BY <2>1, <2>2, <2>3 DEF GlobalInv
<1>5. ASSUME NEW t \in Syncs, ThreadStep(t) \/ ThreadFails(t), ~Reload(t)
      PROVE  ServedInv'
  <2>1. /\ running' = running /\ globalRow' = globalRow
        /\ "global" \notin raced /\ "reload" \notin raced
    BY <1>5 DEF ThreadStep, ReadGlobal, ReadSite, OpenFile, WriteFile, DropFile, Include, Reload,
                ThreadFails, WriteFails, IncludeFails, ReloadFails,
                confRows, served
  <2>2. \A r \in Edits : at[<<r, "signal">>] # "idle" => at'[<<r, "signal">>] # "idle"
    <3> SUFFICES ASSUME NEW r \in Edits, at[<<r, "signal">>] # "idle"
                 PROVE  at'[<<r, "signal">>] # "idle"
      OBVIOUS
    <3>1. CASE t # <<r, "signal">>
      BY <3>1, <1>5, AtRest, SyncsOf
    <3>2. CASE t = <<r, "signal">>
      <4>1. ~ReloadFails(t)
        BY DEF ReloadFails
      <4>2. CASE Rest(t)
        BY <4>2, <3>2, RestOf
      <4>3. CASE AfterInclude(t)
        BY <4>3, <3>2, AfterIncludeOf
      <4>4. CASE \E s \in Places : Move(t, s) /\ s # "idle"
        BY <4>4, <3>2, MoveOne
      <4> QED BY <1>5, <4>1, <4>2, <4>3, <4>4, PlacesOf
              DEF ThreadStep, ReadGlobal, ReadSite, OpenFile, WriteFile, DropFile, Include,
                  ThreadFails, WriteFails, IncludeFails
    <3> QED BY <3>1, <3>2
  <2> QED BY <2>1, <2>2 DEF ServedInv
<1>6. CASE CheckVisit \/ Expire \/ UNCHANGED confVars
  BY <1>6 DEF CheckVisit, Expire, confVars, confRows, served, syncVars, ServedInv
<1>7. CASE ConfCrash
  BY <1>7 DEF ConfCrash
<1>8. CASE \E v \in Settings : BatchUpdate(v)
  BY <1>8 DEF BatchUpdate, served, syncVars, ServedInv
<1>9. ASSUME NEW r \in Edits, DropRow(r)
      PROVE  ServedInv'
  <2>1. /\ running' = running /\ globalRow' = globalRow
        /\ "global" \notin raced /\ "reload" \notin raced
    BY <1>9 DEF DropRow, confRows, served
  <2>2. \A q \in Edits : at[<<q, "signal">>] # "idle" => at'[<<q, "signal">>] # "idle"
    BY <1>9, AtDropRow, SyncsOf
  <2> QED BY <2>1, <2>2 DEF ServedInv
<1> QED
  <2>1. "off" \in Settings
    BY DEF Settings
  <2> QED BY <2>1, <1>1, <1>2, <1>3, <1>4, <1>5, <1>6, <1>7, <1>8, <1>9 DEF ConfNext, DeleteStep

LEMMA HookStep ==
    ASSUME ConfTypeOK, ConfShape, HookInv, [ConfNext]_confVars
    PROVE  HookInv'
<1> SUFFICES ASSUME "hook" \notin raced'
             PROVE  HookInv'
  BY DEF HookInv
<1>1. ASSUME NEW r \in Edits, NEW k \in EditKinds, NEW v \in Settings, LoadRow(r, k, v)
      PROVE  HookInv'
  <2>1. /\ asks[r] = "none" /\ asks'[r] = "loaded" /\ editKind'[r] = k /\ old'[r] = Row(k)
        /\ \A q \in Edits : q # r => /\ asks'[q] = asks[q] /\ editKind'[q] = editKind[q]
                                     /\ old'[q] = old[q] /\ new'[q] = new[q]
        /\ siteRow' = siteRow /\ conf' = conf
    BY <1>1 DEF LoadRow, Begin, ConfTypeOK, confRows
  <2>2. "hook" \notin raced
    BY <1>1 DEF LoadRow
  <2>3. k # "global" => \A q \in Edits : asks[q] = "none" \/ editKind[q] = "global"
    BY <1>1 DEF LoadRow, Overlapping
  <2> QED BY <2>1, <2>2, <2>3 DEF HookInv, Row, Removing
<1>2. ASSUME NEW r \in Edits, SaveGlobal(r)
      PROVE  HookInv'
  <2>1. /\ asks[r] = "loaded" /\ asks'[r] = "none"
        /\ \A q \in Edits : q # r => asks'[q] = asks[q]
        /\ siteRow' = siteRow /\ conf' = conf /\ editKind' = editKind /\ old' = old /\ new' = new
    BY <1>2 DEF SaveGlobal, ConfTypeOK
  <2>2. "hook" \notin raced
    BY <1>2 DEF SaveGlobal, RacedAfter
  <2> QED BY <2>1, <2>2 DEF HookInv, Removing
<1>3. ASSUME NEW r \in Edits, SaveSite(r)
      PROVE  HookInv'
  <2>1. /\ asks[r] = "loaded" /\ editKind[r] # "global" /\ siteRow' = new[r]
        /\ \/ asks'[r] = "saved" /\ editKind[r] = "site"
           \/ asks'[r] = "none" /\ editKind[r] = "basic"
        /\ \A q \in Edits : q # r => asks'[q] = asks[q]
        /\ conf' = conf /\ editKind' = editKind /\ old' = old /\ new' = new
    BY <1>3 DEF SaveSite, ConfTypeOK, EditKinds
  <2>2. "hook" \notin raced /\ (editKind[r] = "basic" => new[r] = siteRow)
    BY <1>3 DEF SaveSite, RacedAfter
  <2>3. \A q \in Edits : q # r => asks[q] = "none" \/ editKind[q] = "global"
    BY <2>1, <2>2 DEF HookInv
  <2>4. \A q \in Edits : asks[q] \notin {"saved"} \cup Removing
    BY <2>1, <2>3 DEF ConfShape, Removing
  <2>5. old[r] = siteRow /\ ("hook" \in conf <=> siteRow = "on")
    BY <2>1, <2>2, <2>4 DEF HookInv
  <2> QED BY <2>1, <2>2, <2>3, <2>4, <2>5 DEF HookInv, Removing
<1>4. ASSUME NEW r \in Edits, SetHook(r)
      PROVE  HookInv'
  <2>1. /\ asks[r] = "saved" /\ asks'[r] = "none"
        /\ \A q \in Edits : q # r => asks'[q] = asks[q]
        /\ siteRow' = siteRow /\ editKind' = editKind /\ old' = old /\ new' = new
        /\ "hook" \notin raced
    BY <1>4 DEF SetHook, ConfTypeOK, confRows
  <2>2. siteRow = new[r] /\ ("hook" \in conf <=> old[r] = "on")
    BY <2>1 DEF HookInv
  <2>3. old[r] \in Settings /\ new[r] \in Settings
    BY DEF ConfTypeOK
  <2>4. "hook" \in conf' <=> new[r] = "on"
    BY <1>4, <2>2, <2>3 DEF SetHook, Settings
  <2>5. \A q \in Edits : q # r => asks[q] \notin {"saved"} \cup Removing
    BY <2>1 DEF HookInv, ConfShape, Removing
  <2> QED BY <2>1, <2>2, <2>4, <2>5 DEF HookInv, Removing
<1>5. ASSUME NEW r \in Edits, SetHookFails(r) \/ DeleteFails(r)
      PROVE  HookInv'
  BY <1>5 DEF SetHookFails, DeleteFails
<1>6. ASSUME NEW t \in Syncs, ThreadStep(t) \/ ThreadFails(t)
      PROVE  HookInv'
  <2>1. /\ asks' = asks /\ editKind' = editKind /\ old' = old /\ new' = new /\ siteRow' = siteRow
        /\ "hook" \notin raced /\ ("hook" \in conf' <=> "hook" \in conf)
    BY <1>6, ThreadFrame
  <2> QED BY <2>1 DEF HookInv
<1>7. CASE CheckVisit \/ Expire \/ UNCHANGED confVars
  BY <1>7 DEF CheckVisit, Expire, confVars, confRows, edits, HookInv
<1>8. CASE ConfCrash
  BY <1>8 DEF ConfCrash
<1>9. ASSUME NEW r \in Edits, NEW v \in Settings, CreateSite(r, v)
      PROVE  HookInv'
  <2>1. /\ asks[r] = "none" /\ asks'[r] = "saved" /\ editKind'[r] = "site"
        /\ old'[r] = "off" /\ new'[r] = v /\ siteRow = "none" /\ siteRow' = v /\ conf' = conf
        /\ \A q \in Edits : q # r => /\ asks'[q] = asks[q] /\ editKind'[q] = editKind[q]
                                     /\ old'[q] = old[q] /\ new'[q] = new[q]
    BY <1>9 DEF CreateSite, Begin, ConfTypeOK
  <2>2. "hook" \notin raced
    BY <1>9 DEF CreateSite, RacedAfter
  <2>3. \A q \in Edits : asks[q] = "none" \/ editKind[q] = "global"
    BY <1>9 DEF CreateSite, Overlapping
  <2>4. \A q \in Edits : asks[q] \notin {"saved"} \cup Removing
    BY <2>3 DEF ConfShape, Removing
  <2>5. "hook" \notin conf
    BY <2>1, <2>2, <2>4 DEF HookInv
  <2> QED BY <2>1, <2>2, <2>3, <2>4, <2>5 DEF HookInv
<1>10. CASE \E v \in Settings : BatchUpdate(v)
  BY <1>10 DEF BatchUpdate
<1>11. ASSUME NEW r \in Edits, Unhook(r) \/ DropRow(r) \/ CommitDelete(r)
       PROVE  HookInv'
  <2>1. /\ editKind[r] = "delete" /\ asks[r] # "none" /\ editKind' = editKind
        /\ old' = old /\ new' = new
        /\ \A q \in Edits : q # r => asks'[q] = asks[q]
    BY <1>11 DEF Unhook, DropRow, CommitDelete, ConfShape, Removing, ConfTypeOK
  <2>2. "hook" \notin raced
    BY <1>11 DEF Unhook, DropRow, CommitDelete
  <2>3. \A q \in Edits : q # r => asks[q] = "none" \/ editKind[q] = "global"
    BY <2>1, <2>2 DEF HookInv
  <2>4. \A q \in Edits : q # r => asks[q] \notin {"saved"} \cup Removing
    BY <2>3 DEF ConfShape, Removing
  <2>5. "hook" \notin conf'
    BY <1>11, <2>2 DEF Unhook, DropRow, CommitDelete, HookInv, Removing
  <2>6. \/ asks'[r] \in Removing
        \/ asks'[r] = "none" /\ siteRow' = "none"
    BY <1>11 DEF Unhook, DropRow, CommitDelete, confRows, ConfTypeOK, Removing
  <2> QED BY <2>1, <2>2, <2>3, <2>4, <2>5, <2>6 DEF HookInv, Removing
<1> QED BY <1>1, <1>2, <1>3, <1>4, <1>5, <1>6, <1>7, <1>8, <1>9, <1>10, <1>11
        DEF ConfNext, DeleteStep

LEMMA ConfInvInit == ConfInit => ConfInv
<1> SUFFICES ASSUME ConfInit
             PROVE  ConfInv
  OBVIOUS
<1>1. 0 \in 0..MaxSaves /\ 0 \in 0..MaxMishaps
  BY WafConfigAssumption
<1>2. ConfTypeOK
  BY <1>1 DEF ConfInit, ConfTypeOK, Settings, EditKinds, ConfParts
<1>3. ConfShape /\ GlobalInv /\ SiteInv /\ ServedInv /\ HookInv
  BY SyncsOf DEF ConfInit, ConfShape, GlobalInv, SiteInv, ServedInv, HookInv, GlobalPending,
                 GlobalHeld, SiteHeld, Deleting, Removing
<1> QED BY <1>2, <1>3 DEF ConfInv

LEMMA ConfInvStep == ConfInv /\ [ConfNext]_confVars => ConfInv'
BY ConfTypeStep, ConfShapeStep, GlobalStep, SiteStep, ServedStep, HookStep DEF ConfInv

\* Every variable of WafConfig has its type, for any number of requests, saves
\* and mishaps.
THEOREM ConfTypeCorrect == ConfSpec => []ConfTypeOK
<1>1. ConfInv => ConfTypeOK
  BY DEF ConfInv
<1> QED BY <1>1, ConfInvInit, ConfInvStep, PTL DEF ConfSpec

\* When nobody is at work any more, what requests have saved, made or deleted is
\* what nginx has been told, but for a save or deletion that met an older copy of
\* its row, requests for one site that overlapped, those that save its row alone,
\* and what was left by a failed step or a crash.
THEOREM SettingsArrive == ConfSpec => []ConfFollowsRows
<1>1. ConfInv => ConfFollowsRows
  <2> SUFFICES ASSUME ConfInv, Quiet
               PROVE  FilesFollow /\ HookFollows
    BY DEF ConfFollowsRows
  <2>1. \A t \in Syncs : at[t] = "idle"
    BY DEF Quiet
  <2>2. \A r \in Edits : asks[r] = "none" /\ at[<<r, "signal">>] = "idle"
    BY <2>1, SyncsOf DEF Quiet
  <2>3. "global" \notin raced => /\ globalFile = globalRow
                                 /\ "module" \in conf <=> globalRow = "on"
    BY <2>1, <2>2 DEF ConfInv, GlobalInv, GlobalPending, GlobalHeld
  <2>4. "site" \notin raced => siteFile = siteRow
    BY <2>1, <2>2 DEF ConfInv, SiteInv, SiteHeld, Deleting
  <2>5. "global" \notin raced /\ "reload" \notin raced
            => ("module" \in running <=> globalRow = "on")
    BY <2>2 DEF ConfInv, ServedInv
  <2>6. HookFollows
    BY <2>2 DEF ConfInv, HookInv, HookFollows, Removing
  <2>7. "global" \notin raced /\ "reload" \notin raced
            => ("module" \in running <=> "module" \in conf)
    BY <2>3, <2>5
  <2>8. FilesFollow
    BY <2>3, <2>4, <2>7 DEF FilesFollow
  <2> QED BY <2>6, <2>8
<1> QED BY <1>1, ConfInvInit, ConfInvStep, PTL DEF ConfSpec
-----------------------------------------------------------------------------
(* A behaviour of the two services side by side is one of each of them.    *)
LEMMA ServicesParts == ServicesSpec => EngSpec /\ ConfSpec
<1>1. ServicesInit => EngInit /\ ConfInit
  BY DEF ServicesInit
<1>2. [ServicesNext]_servicesVars =>
        /\ [EngNext]_engVars
        /\ [ConfNext]_confVars
  BY DEF ServicesNext, servicesVars
<1>3. QED
  BY <1>1, <1>2, PTL DEF ServicesSpec, EngSpec, ConfSpec

(* Panel backups and WAF configuration side by side: every variable keeps  *)
(* its type, and all that is proved of either one holds of both.           *)
THEOREM ServicesTypeCorrect == ServicesSpec => []ServicesTypeOK
  BY ServicesParts, TypeCorrect, ConfTypeCorrect, PTL DEF ServicesTypeOK
=============================================================================
