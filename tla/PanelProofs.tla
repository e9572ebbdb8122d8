----------------------------- MODULE PanelProofs -----------------------------
(***************************************************************************)
(* Proofs about three parts of the panel, for any value of their           *)
(* constants: the scheduled tasks (CronTasks), the backups of a task       *)
(* (CronBackups) and the upgrade of the panel (PanelUpgrade).  The last    *)
(* theorem is about all the parts that MCPanel puts side by side.          *)
(*                                                                         *)
(* CronTasks: the invariant says who holds a job without a row, and who    *)
(* has paused a job: the request that is at one of a few steps, and no     *)
(* other.  CronBackups: nobody else knows of an archive whose row is still *)
(* to be created (Unlisted), whoever deletes a row has removed its archive *)
(* (Removed), and a run about to remove an archive that is still there has *)
(* the oldest of its site (OldestAtHand); for a run on its own, rows and   *)
(* archives are those of the last backups (Retained).  PanelUpgrade: the   *)
(* invariant follows one upgrade: until its end nothing outside the files  *)
(* it replaces and the web files changes, what it may change was backed up *)
(* before, and what a comparison no longer looks at is not old.            *)
(***************************************************************************)
EXTENDS MCPanel, TransportProofs, ToolGuardrailProofs, SequenceTheorems, FiniteSetTheorems, TLAPS

(* CronTasks.                                                              *)
(* Request q is at one of the steps S of a handler, at work on job j.      *)
Holds(q, j, S) == q \in CronRequests /\ target[q] = j /\ step[q] \in S

RowInv ==
    \A j \in JobIds : job[j] # "none" /\ row[j] = "none" =>
        j \in refused \cup lost \/ \E q \in CronRequests : Holds(q, j, {"create", "stop", "remove"})

PauseInv ==
    \A j \in JobIds : job[j] = "paused" =>
        j \in stopped \cup lost \/ \E q \in CronRequests : Holds(q, j, {"modify", "resume", "remove"})

CronInv == CronTypeOK /\ RowInv /\ PauseInv

LEMMA InitCronInv == CronInit => CronInv
  BY SMTT(30) DEF CronInit, CronInv, CronTypeOK, RowInv, PauseInv, Statuses, CronSteps

(* What is in InHand, said without a set of values.                        *)
LEMMA HeldIsInHand ==
  ASSUME NEW q \in CronRequests, step[q] # "idle"
  PROVE  target[q] \in InHand
  BY DEF InHand

-----------------------------------------------------------------------------
(* Every action keeps the types.                                           *)
LEMMA CronTypeStep == CronTypeOK /\ [CronNext]_cronVars => CronTypeOK'
<1> SUFFICES ASSUME CronTypeOK, [CronNext]_cronVars PROVE CronTypeOK'
  OBVIOUS
<1> USE DEF CronTypeOK, Statuses, CronSteps, CronGoto, CronFinish, Pause, Resume,
            cronStores, cronHistory
<1>1. CASE UNCHANGED cronVars
  BY <1>1 DEF cronVars
<1>2. ASSUME NEW q \in CronRequests, CronHandle(q) PROVE CronTypeOK'
  <2>1. ASSUME NEW j \in JobIds, NEW date \in BOOLEAN, CreateAdd(q, j, date) PROVE CronTypeOK'
    BY <2>1 DEF CreateAdd
  <2>2. CASE CreateSave(q) \/ CreateRefused(q)
    BY <2>2 DEF CreateSave, CreateRefused
  <2>3. ASSUME NEW j \in JobIds, NEW h \in {"update", "destroy", "status"}, Load(q, j, h)
        PROVE  CronTypeOK'
    BY <2>3 DEF Load
  <2>4. CASE UpdateFind(q) \/ UpdateGone(q) \/ UpdatePause(q)
    BY <2>4 DEF UpdateFind, UpdateGone, UpdatePause
  <2>5. ASSUME NEW date \in BOOLEAN, UpdateModify(q, date) PROVE CronTypeOK'
    BY <2>5 DEF UpdateModify
  <2>6. CASE UpdateFails(q) \/ UpdateStuck(q) \/ UpdateResume(q) \/ UpdateSave(q) \/ UpdateRefused(q)
    BY <2>6 DEF UpdateFails, UpdateStuck, UpdateResume, UpdateSave, UpdateRefused
  <2>7. CASE DestroyRow(q) \/ DestroyStop(q) \/ DestroyRemove(q) \/ DestroyFails(q)
    BY <2>7 DEF DestroyRow, DestroyStop, DestroyRemove, DestroyFails
  <2>8. ASSUME NEW s \in Statuses, StatusJob(q, s) PROVE CronTypeOK'
    BY <2>8 DEF StatusJob
  <2>9. CASE StatusSave(q) \/ HandlerFails(q)
    BY <2>9 DEF StatusSave, HandlerFails
  <2> QED BY <1>2, <2>1, <2>2, <2>3, <2>4, <2>5, <2>6, <2>7, <2>8, <2>9 DEF CronHandle
<1>3. ASSUME NEW j \in JobIds, Fire(j) PROVE CronTypeOK'
  BY <1>3 DEF Fire
<1>4. CASE CronCrash
  BY <1>4 DEF CronCrash, InHand
<1> QED BY <1>1, <1>2, <1>3, <1>4 DEF CronNext

-----------------------------------------------------------------------------
(* A job without a row is held by a request that creates or destroys it.   *)
LEMMA RowStep == CronTypeOK /\ RowInv /\ [CronNext]_cronVars => RowInv'
<1> SUFFICES ASSUME CronTypeOK, RowInv, [CronNext]_cronVars PROVE RowInv'
  OBVIOUS
<1> USE DEF CronTypeOK, RowInv, Holds, Statuses, CronSteps, CronGoto, CronFinish, Pause, Resume,
            cronStores, cronHistory
<1>1. CASE UNCHANGED cronVars
  BY <1>1 DEF cronVars
<1>2. ASSUME NEW q \in CronRequests, CronHandle(q) PROVE RowInv'
  <2>1. ASSUME NEW j \in JobIds, NEW date \in BOOLEAN, CreateAdd(q, j, date) PROVE RowInv'
    BY <2>1 DEF CreateAdd
  <2>2. CASE CreateSave(q)
    BY <2>2 DEF CreateSave
  <2>3. CASE CreateRefused(q)
    BY <2>3 DEF CreateRefused
  <2>4. ASSUME NEW j \in JobIds, NEW h \in {"update", "destroy", "status"}, Load(q, j, h)
        PROVE  RowInv'
    BY <2>4 DEF Load
  <2>5. CASE UpdateFind(q) \/ UpdateGone(q) \/ UpdatePause(q)
    BY <2>5 DEF UpdateFind, UpdateGone, UpdatePause
  <2>6. ASSUME NEW date \in BOOLEAN, UpdateModify(q, date) PROVE RowInv'
    BY <2>6 DEF UpdateModify
  <2>7. CASE UpdateFails(q) \/ UpdateStuck(q) \/ UpdateResume(q)
    BY <2>7 DEF UpdateFails, UpdateStuck, UpdateResume
  <2>8. CASE UpdateSave(q) \/ UpdateRefused(q)
    BY <2>8 DEF UpdateSave, UpdateRefused
  <2>9. CASE DestroyRow(q)
    BY <2>9 DEF DestroyRow
  <2>10. CASE DestroyStop(q)
    BY <2>10 DEF DestroyStop
  <2>11. CASE DestroyRemove(q) \/ DestroyFails(q)
    BY <2>11 DEF DestroyRemove, DestroyFails
  <2>12. ASSUME NEW s \in Statuses, StatusJob(q, s) PROVE RowInv'
    BY <2>12 DEF StatusJob
  <2>13. CASE StatusSave(q) \/ HandlerFails(q)
    BY <2>13 DEF StatusSave, HandlerFails
  <2> QED BY <1>2, <2>1, <2>2, <2>3, <2>4, <2>5, <2>6, <2>7, <2>8, <2>9, <2>10, <2>11, <2>12,
             <2>13 DEF CronHandle
<1>3. ASSUME NEW j \in JobIds, Fire(j) PROVE RowInv'
  BY <1>3 DEF Fire
<1>4. CASE CronCrash
  BY <1>4, HeldIsInHand DEF CronCrash
<1> QED BY <1>1, <1>2, <1>3, <1>4 DEF CronNext

-----------------------------------------------------------------------------
(* A paused job was stopped, or is held by a request that has paused it.   *)
LEMMA PauseStep == CronTypeOK /\ PauseInv /\ [CronNext]_cronVars => PauseInv'
<1> SUFFICES ASSUME CronTypeOK, PauseInv, [CronNext]_cronVars PROVE PauseInv'
  OBVIOUS
<1> USE DEF CronTypeOK, PauseInv, Holds, Statuses, CronSteps, CronGoto, CronFinish, Pause, Resume,
            cronStores, cronHistory
<1>1. CASE UNCHANGED cronVars
  BY <1>1 DEF cronVars
<1>2. ASSUME NEW q \in CronRequests, CronHandle(q) PROVE PauseInv'
  <2>1. ASSUME NEW j \in JobIds, NEW date \in BOOLEAN, CreateAdd(q, j, date) PROVE PauseInv'
    BY <2>1 DEF CreateAdd
  <2>2. CASE CreateSave(q) \/ CreateRefused(q)
    BY <2>2 DEF CreateSave, CreateRefused
  <2>3. ASSUME NEW j \in JobIds, NEW h \in {"update", "destroy", "status"}, Load(q, j, h)
        PROVE  PauseInv'
    BY <2>3 DEF Load
  <2>4. CASE UpdateFind(q) \/ UpdateGone(q)
    BY <2>4 DEF UpdateFind, UpdateGone
  <2>5. CASE UpdatePause(q)
    BY <2>5 DEF UpdatePause
  <2>6. ASSUME NEW date \in BOOLEAN, UpdateModify(q, date) PROVE PauseInv'
    BY <2>6 DEF UpdateModify
  <2>7. CASE UpdateFails(q) \/ UpdateStuck(q) \/ UpdateResume(q)
    BY <2>7 DEF UpdateFails, UpdateStuck, UpdateResume
  <2>8. CASE UpdateSave(q) \/ UpdateRefused(q)
    BY <2>8 DEF UpdateSave, UpdateRefused
  <2>9. CASE DestroyRow(q) \/ DestroyStop(q)
    BY <2>9 DEF DestroyRow, DestroyStop
  <2>10. CASE DestroyRemove(q) \/ DestroyFails(q)
    BY <2>10 DEF DestroyRemove, DestroyFails
  <2>11. ASSUME NEW s \in Statuses, StatusJob(q, s) PROVE PauseInv'
    BY <2>11 DEF StatusJob
  <2>12. CASE StatusSave(q) \/ HandlerFails(q)
    BY <2>12 DEF StatusSave, HandlerFails
  <2> QED BY <1>2, <2>1, <2>2, <2>3, <2>4, <2>5, <2>6, <2>7, <2>8, <2>9, <2>10, <2>11, <2>12
          DEF CronHandle
<1>3. ASSUME NEW j \in JobIds, Fire(j) PROVE PauseInv'
  BY <1>3 DEF Fire
<1>4. CASE CronCrash
  BY <1>4, HeldIsInHand DEF CronCrash
<1> QED BY <1>1, <1>2, <1>3, <1>4 DEF CronNext

LEMMA CronInvariant == CronSpec => []CronInv
<1>1. CronInv /\ [CronNext]_cronVars => CronInv'
  BY CronTypeStep, RowStep, PauseStep DEF CronInv
<1> QED BY <1>1, InitCronInv, PTL DEF CronSpec

-----------------------------------------------------------------------------
(* Every reachable state of jobs, rows and requests is well typed.         *)
THEOREM CronTypeCorrect == CronSpec => []CronTypeOK
<1>1. CronInv => CronTypeOK
  BY DEF CronInv
<1> QED BY <1>1, CronInvariant, PTL

(* However creations, updates, stops, deletions and firings interleave, a  *)
(* job without a row is in the hands of a request, or its row was refused, *)
(* or the process died or the job store failed while a request was at work *)
(* on it, which a deletion swallows (crontab_task.py).                     *)
THEOREM JobsHaveRows == CronSpec => []JobHasRow
<1>1. CronInv => JobHasRow
  BY HeldIsInHand DEF CronInv, RowInv, JobHasRow, Holds
<1> QED BY <1>1, CronInvariant, PTL

(* A job is paused only because a request stopped it, or while a request   *)
(* works on it, or after a crash or a failure of the job store in one that *)
(* the except of update could not make good: no failure that lets it       *)
(* resume the job leaves one paused.                                       *)
THEOREM PausesAreAsked == CronSpec => []PausedWasAsked
<1>1. CronInv => PausedWasAsked
  BY HeldIsInHand DEF CronInv, PauseInv, PausedWasAsked, Holds
<1> QED BY <1>1, CronInvariant, PTL

-----------------------------------------------------------------------------
(* CronBackups.  Rows are a list without duplicates; what the proofs need  *)
(* of it is who is listed, and who comes before whom.                      *)
Distinct == \A i \in 1..Len(rows), k \in 1..Len(rows) : rows[i] = rows[k] => i = k

Earlier(x, y) == \E k \in 1..Len(rows), i \in 1..Len(rows) : k < i /\ rows[k] = x /\ rows[i] = y

LEMMA RemoveAtIsSeq ==
    ASSUME NEW S, NEW s \in Seq(S), NEW i \in 1..Len(s)
    PROVE  /\ RemoveAt(s, i) \in Seq(S) /\ Len(RemoveAt(s, i)) = Len(s) - 1
           /\ \A k \in 1..(Len(s) - 1) : RemoveAt(s, i)[k] = IF k < i THEN s[k] ELSE s[k + 1]
<1> DEFINE a == SubSeq(s, 1, i - 1)
           b == SubSeq(s, i + 1, Len(s))
<1>0. Len(s) \in Nat /\ i \in Int
  BY LenProperties
<1>1. a \in Seq(S) /\ Len(a) = i - 1 /\ \A k \in 1..(i - 1) : a[k] = s[k]
  <2>1. \A k \in 1..(i - 1) : s[k] \in S
    BY <1>0, ElementOfSeq
  <2>2. QED
    BY <1>0, <2>1, SubSeqProperties
<1>2. b \in Seq(S) /\ Len(b) = Len(s) - i /\ \A k \in 1..(Len(s) - i) : b[k] = s[k + i]
  <2>1. \A k \in (i + 1)..Len(s) : s[k] \in S
    BY <1>0, ElementOfSeq
  <2>2. QED
    BY <1>0, <2>1, SubSeqProperties
<1>3. RemoveAt(s, i) = a \o b
  BY DEF RemoveAt
<1> HIDE DEF a, b
<1>4. /\ a \o b \in Seq(S) /\ Len(a \o b) = Len(s) - 1
      /\ \A k \in 1..(Len(s) - 1) : (a \o b)[k] = IF k <= Len(a) THEN a[k] ELSE b[k - Len(a)]
  <2>1. /\ a \o b \in Seq(S) /\ Len(a \o b) = Len(a) + Len(b)
        /\ \A k \in 1..(Len(a) + Len(b)) : (a \o b)[k] = IF k <= Len(a) THEN a[k] ELSE b[k - Len(a)]
    BY <1>1, <1>2, ConcatProperties
  <2>2. Len(a) + Len(b) = Len(s) - 1
    BY <1>0, <1>1, <1>2
  <2>3. QED
    BY <2>1, <2>2
<1>5. ASSUME NEW k \in 1..(Len(s) - 1)
      PROVE  (a \o b)[k] = IF k < i THEN s[k] ELSE s[k + 1]
  <2>1. CASE k < i
    <3>1. k <= Len(a) /\ k \in 1..(i - 1)
      BY <1>0, <1>1, <2>1
    <3>2. QED
      BY <1>1, <1>4, <2>1, <3>1
  <2>2. CASE ~(k < i)
    <3>1. ~(k <= Len(a)) /\ k - Len(a) \in 1..(Len(s) - i) /\ (k - Len(a)) + i = k + 1
      BY <1>0, <1>1, <2>2
    <3>2. (a \o b)[k] = b[k - Len(a)]
      BY <1>4, <3>1
    <3>3. b[k - Len(a)] = s[k + 1]
      BY <1>2, <3>1
    <3>4. QED
      BY <2>2, <3>2, <3>3
  <2>3. QED
    BY <2>1, <2>2
<1>6. QED
  BY <1>3, <1>4, <1>5

(* What the deletion of a row does.                                        *)
LEMMA DeleteRowEffect ==
    ASSUME rows \in Seq(Archives), Distinct, NEW a, DeleteRow(a)
    PROVE  /\ rows' \in Seq(Archives) /\ Distinct'
           /\ Listed' = Listed \ {a}
           /\ \A x, y : Earlier(x, y)' => Earlier(x, y)
<1>0. Len(rows) \in Nat /\ rows \in [1..Len(rows) -> Archives] /\ DOMAIN rows = 1..Len(rows)
  BY LenProperties
<1>1. CASE ~Contains(rows, a)
  <2>1. rows' = rows
    BY <1>1 DEF DeleteRow
  <2>2. a \notin Listed
    BY <1>0, <1>1 DEF Listed, ToSet, Contains
  <2>3. QED
    BY <2>1, <2>2 DEF Distinct, Earlier, Listed, ToSet
<1>2. ASSUME NEW j \in 1..Len(rows), rows[j] = a, rows' = RemoveAt(rows, j)
      PROVE  /\ rows' \in Seq(Archives) /\ Distinct'
             /\ Listed' = Listed \ {a}
             /\ \A x, y : Earlier(x, y)' => Earlier(x, y)
  <2> DEFINE n == Len(rows)
             f(k) == IF k < j THEN k ELSE k + 1
  <2>1. /\ rows' \in Seq(Archives) /\ Len(rows') = n - 1
        /\ \A k \in 1..(n - 1) : rows'[k] = IF k < j THEN rows[k] ELSE rows[k + 1]
    BY <1>2, RemoveAtIsSeq
  <2>2. \A k \in 1..(n - 1) : f(k) \in 1..n /\ f(k) # j
    BY <1>0
  <2>3. \A k \in 1..(n - 1) : rows'[k] = rows[f(k)]
    BY <2>1
  <2>4. \A k \in 1..(n - 1), l \in 1..(n - 1) : k < l => f(k) < f(l)
    BY <1>0
  <2>5. \A i \in 1..n : i # j => \E k \in 1..(n - 1) : f(k) = i
    <3> SUFFICES ASSUME NEW i \in 1..n, i # j PROVE \E k \in 1..(n - 1) : f(k) = i
      OBVIOUS
    <3>1. CASE i < j
      BY <1>0, <3>1
    <3>2. CASE i > j
      <4>1. i - 1 \in 1..(n - 1) /\ f(i - 1) = i
        BY <1>0, <3>2
      <4>2. QED
        BY <4>1
    <3>3. QED
      BY <1>0, <3>1, <3>2
  <2>6. DOMAIN rows' = 1..(n - 1)
    BY <2>1, LenProperties
  <2> HIDE DEF f
  <2>7. Distinct'
    <3> SUFFICES ASSUME NEW k \in 1..(n - 1), NEW l \in 1..(n - 1), rows'[k] = rows'[l] PROVE k = l
      BY <2>1 DEF Distinct
    <3>1. f(k) = f(l)
      BY <2>2, <2>3 DEF Distinct
    <3>2. ~(f(k) < f(l)) /\ ~(f(l) < f(k))
      BY <1>0, <2>2, <3>1
    <3>3. ~(k < l) /\ ~(l < k)
      BY <2>4, <3>2
    <3>4. QED
      BY <1>0, <3>3
  <2>8. Listed' = Listed \ {a}
    <3>1. \A x \in Listed' : x \in Listed \ {a}
      BY <1>0, <1>2, <2>2, <2>3, <2>6 DEF Listed, ToSet, Distinct
    <3>2. \A x \in Listed \ {a} : x \in Listed'
      BY <1>0, <1>2, <2>3, <2>5, <2>6 DEF Listed, ToSet
    <3>3. QED
      BY <3>1, <3>2
  <2>9. ASSUME NEW x, NEW y, Earlier(x, y)' PROVE Earlier(x, y)
    <3>1. PICK k \in 1..(n - 1), l \in 1..(n - 1) : k < l /\ rows'[k] = x /\ rows'[l] = y
      BY <2>1, <2>9 DEF Earlier
    <3>2. f(k) \in 1..n /\ f(l) \in 1..n /\ f(k) < f(l) /\ rows[f(k)] = x /\ rows[f(l)] = y
      BY <2>2, <2>3, <2>4, <3>1
    <3>3. QED
      BY <3>2 DEF Earlier
  <2>10. QED
    BY <2>1, <2>7, <2>8, <2>9
<1>3. QED
  BY <1>1, <1>2 DEF DeleteRow

(* What the insertion of a row that is not there does.                     *)
LEMMA InsertRowEffect ==
    ASSUME rows \in Seq(Archives), Distinct, NEW a \in Archives, a \notin Listed,
           rows' = Append(rows, a)
    PROVE  /\ rows' \in Seq(Archives) /\ Distinct'
           /\ Listed' = Listed \cup {a}
           /\ \A x, y : Earlier(x, y)' => Earlier(x, y) \/ y = a
<1> DEFINE n == Len(rows)
<1>0. n \in Nat /\ DOMAIN rows = 1..n
  BY LenProperties
<1>1. /\ rows' \in Seq(Archives) /\ Len(rows') = n + 1
      /\ \A i \in 1..n : rows'[i] = rows[i]
      /\ rows'[n + 1] = a
  BY AppendProperties
<1>2. DOMAIN rows' = 1..(n + 1)
  BY <1>1, LenProperties
<1>3. \A i \in 1..(n + 1) : i \in 1..n \/ i = n + 1
  BY <1>0
<1>4. \A i \in 1..n : rows[i] # a
  BY <1>0 DEF Listed, ToSet
<1>5. Distinct'
  BY <1>1, <1>3, <1>4 DEF Distinct
<1>6. Listed' = Listed \cup {a}
  <2>1. \A x \in Listed' : x \in Listed \cup {a}
    BY <1>0, <1>1, <1>2, <1>3 DEF Listed, ToSet
  <2>2. 1..n \subseteq 1..(n + 1) /\ n + 1 \in 1..(n + 1)
    BY <1>0
  <2>3. \A x \in Listed \cup {a} : x \in Listed'
    BY <1>0, <1>1, <1>2, <2>2 DEF Listed, ToSet
  <2>4. QED
    BY <2>1, <2>3
<1>7. ASSUME NEW x, NEW y, Earlier(x, y)', y # a PROVE Earlier(x, y)
  <2>1. PICK k \in 1..(n + 1), l \in 1..(n + 1) : k < l /\ rows'[k] = x /\ rows'[l] = y
    BY <1>1, <1>7 DEF Earlier
  <2>2. l \in 1..n /\ k \in 1..n
    BY <1>0, <1>1, <1>3, <1>7, <2>1
  <2>3. QED
    BY <1>1, <2>1, <2>2 DEF Earlier
<1>8. QED
  BY <1>1, <1>5, <1>6, <1>7

(* BakTypeOK in two parts, and what numbers of archives stand for.         *)
BakNames ==
    /\ kind \in {"site", "dir"} /\ items \subseteq Sites /\ task \in BOOLEAN
    /\ rpc \in [Runs -> RunSteps] /\ todo \in [Runs -> SUBSET Sites]
    /\ at \in [Runs -> Sites \cup {NoSite}]
    /\ userAt \in {"idle", "file", "row"}

BakNumbers ==
    /\ made \in 0..MaxArchives /\ site \in [Archives -> Sites \cup {NoSite}]
    /\ disk \subseteq Archives /\ rows \in Seq(Archives)
    /\ mine \in [Runs -> 0..MaxArchives] /\ left \in [Runs -> 0..MaxArchives]
    /\ old \in [Runs -> 0..MaxArchives]
    /\ userOld \in 0..MaxArchives /\ deletes \in 0..MaxUpsets
    /\ revived \subseteq Archives /\ strays \subseteq 0..MaxArchives

(* Archives and rows known so far have numbers up to made.                 *)
BakKnown ==
    /\ Distinct /\ Listed \subseteq 1..made /\ disk \subseteq 1..made
    /\ userOld <= made
    /\ \A r \in Runs : mine[r] <= made /\ old[r] <= made

(* A run at these steps has packed an archive: a run over a directory      *)
(* cleans up before it links the row.                                      *)
HasPacked(r) ==
    \/ rpc[r] \in {"row", "link", "save"}
    \/ kind = "dir" /\ rpc[r] \in {"count", "pick", "drop", "forget"}

BakSteps == \A r \in Runs :
    /\ HasPacked(r) => mine[r] > 0
    /\ rpc[r] \in {"drop", "forget"} => left[r] > 0

(* The archive of a row still to be created is on disk and nobody else     *)
(* knows of it.                                                            *)
Unlisted == \A r \in Runs : rpc[r] = "row" =>
    /\ mine[r] \in disk /\ mine[r] \notin Listed /\ userOld # mine[r]
    /\ \A q \in Runs : old[q] # mine[r] /\ (q # r => mine[q] # mine[r])

BakTypeInv == BakNames /\ BakNumbers /\ BakKnown /\ BakSteps /\ Unlisted

LEMMA BakTypeInit == BakInit => BakTypeInv
<1> SUFFICES ASSUME BakInit PROVE BakTypeInv
  OBVIOUS
<1>1. BakNames
  BY DEF BakInit, BakNames, RunSteps
<1>2. 0 \in 0..MaxArchives /\ 0 \in 0..MaxUpsets
  BY CronBackupsAssumption
<1>3. BakNumbers
  BY <1>2 DEF BakInit, BakNumbers
<1>4. Listed = {} /\ Distinct
  BY DEF BakInit, Listed, ToSet, Distinct
<1>5. BakKnown /\ BakSteps /\ Unlisted
  BY <1>2, <1>4 DEF BakInit, BakKnown, BakSteps, HasPacked, Unlisted
<1>6. QED
  BY <1>1, <1>3, <1>5 DEF BakTypeInv

LEMMA BakNamesStep == BakNames /\ [BakNext]_bakVars => BakNames'
<1> SUFFICES ASSUME BakNames, [BakNext]_bakVars PROVE BakNames'
  OBVIOUS
<1> USE DEF BakNames, RunSteps, RunGoto, Leave, backups, progress, user
<1>1. ASSUME NEW r \in Runs, RunStep(r) PROVE BakNames'
  <2>1. CASE Start(r) \/ (\E s \in Sites : TakeSite(r, s)) \/ End(r)
    BY <2>1 DEF Start, TakeSite, End
  <2>2. CASE Pack(r) \/ Skip(r) \/ PackFails(r) \/ AddRow(r)
    BY <2>2 DEF Pack, Skip, PackFails, AddRow, AfterRow
  <2>3. CASE Link(r) \/ Save(r)
    BY <2>3 DEF Link, Save, AfterLink
  <2>4. CASE Count(r) \/ Pick(r) \/ Cleaned(r)
    BY <2>4 DEF Count, Pick, Cleaned, AfterDrop
  <2>5. CASE RemoveFile(r) \/ RemoveFails(r) \/ ForgetRow(r)
    BY <2>5 DEF RemoveFile, RemoveFails, ForgetRow
  <2>6. QED
    BY <1>1, <2>1, <2>2, <2>3, <2>4, <2>5 DEF RunStep
<1>2. ASSUME NEW a \in Archives, UserPick(a) PROVE BakNames'
  BY <1>2 DEF UserPick
<1>3. CASE UserRemove \/ UserForget \/ TaskDeleted \/ BakCrash
  BY <1>3 DEF UserRemove, UserForget, TaskDeleted, BakCrash
<1>4. CASE UNCHANGED bakVars
  BY <1>4 DEF bakVars
<1>5. QED
  BY <1>1, <1>2, <1>3, <1>4 DEF BakNext

(* A row for each archive at most.                                         *)
LEMMA FewRows ==
    ASSUME BakNumbers, Distinct
    PROVE  Len(rows) \in 0..MaxArchives
<1>1. Len(rows) \in Nat /\ rows \in [1..Len(rows) -> Archives]
  BY LenProperties DEF BakNumbers
<1>2. SUFFICES ASSUME MaxArchives < Len(rows) PROVE FALSE
  BY <1>1, CronBackupsAssumption
<1>3. /\ IsFiniteSet(1..Len(rows)) /\ Cardinality(1..Len(rows)) = Len(rows)
      /\ IsFiniteSet(Archives) /\ Cardinality(Archives) = MaxArchives
  <2>1. 1 \in Int /\ MaxArchives \in Nat /\ Len(rows) \in Nat
    BY <1>1, CronBackupsAssumption
  <2>2. \A n \in Nat : IsFiniteSet(1..n) /\ Cardinality(1..n) = n
    BY FS_Interval
  <2>3. QED
    BY <2>1, <2>2 DEF Archives
<1>4. \E x, y \in 1..Len(rows) : x # y /\ rows[x] = rows[y]
  BY <1>1, <1>2, <1>3, FS_PigeonHole
<1>5. QED
  BY <1>4 DEF Distinct

LEMMA MayUpsetBound ==
    ASSUME BakNumbers, MayUpset
    PROVE  deletes + 1 \in 0..MaxUpsets
<1>1. IsFiniteSet(0..MaxArchives)
  BY FS_Interval, CronBackupsAssumption
<1>2. Cardinality(strays) \in Nat
  BY <1>1, FS_Subset, FS_CardinalityType DEF BakNumbers
<1>3. QED
  BY <1>2, CronBackupsAssumption DEF BakNumbers, MayUpset

(* Who is listed after a step.                                             *)
LEMMA AddRowEffect ==
    ASSUME BakTypeInv, NEW r \in Runs, AddRow(r)
    PROVE  /\ mine[r] \in Archives /\ mine[r] \in disk /\ mine[r] \notin Listed
           /\ rows' \in Seq(Archives) /\ Distinct' /\ Listed' = Listed \cup {mine[r]}
           /\ \A x, y : Earlier(x, y)' => Earlier(x, y) \/ y = mine[r]
<1>1. mine[r] \in disk /\ mine[r] \notin Listed
  BY DEF BakTypeInv, Unlisted, AddRow
<1>2. mine[r] \in Archives /\ rows \in Seq(Archives) /\ Distinct
  BY <1>1 DEF BakTypeInv, BakNumbers, BakKnown
<1>3. rows' = Append(rows, mine[r])
  BY DEF AddRow
<1>4. QED
  BY <1>1, <1>2, <1>3, InsertRowEffect

LEMMA SaveEffect ==
    ASSUME BakTypeInv, NEW r \in Runs, Save(r)
    PROVE  /\ mine[r] \in 1..made /\ mine[r] \in Archives
           /\ rows' \in Seq(Archives) /\ Distinct' /\ Listed' = Listed \cup {mine[r]}
           /\ \/ mine[r] \in Listed /\ rows' = rows /\ revived' = revived
              \/ mine[r] \notin Listed /\ revived' = revived \cup {mine[r]}
           /\ \A x, y : Earlier(x, y)' => Earlier(x, y) \/ (y = mine[r] /\ mine[r] \notin Listed)
<1>1. rows \in Seq(Archives) /\ Distinct /\ made \in 0..MaxArchives /\ mine[r] \in 0..MaxArchives
  BY DEF BakTypeInv, BakNumbers, BakKnown
<1>2. mine[r] > 0 /\ mine[r] <= made
  BY DEF BakTypeInv, BakSteps, BakKnown, HasPacked, Save
<1>3. mine[r] \in 1..made /\ mine[r] \in Archives
  BY <1>1, <1>2, CronBackupsAssumption DEF Archives
<1>4. Contains(rows, mine[r]) <=> mine[r] \in Listed
  BY <1>1, LenProperties DEF Contains, Listed, ToSet
<1>5. CASE mine[r] \in Listed
  <2>1. rows' = rows /\ revived' = revived
    BY <1>4, <1>5 DEF Save
  <2>2. QED
    BY <1>1, <1>3, <1>5, <2>1 DEF Listed, Distinct, Earlier
<1>6. CASE mine[r] \notin Listed
  <2>1. rows' = Append(rows, mine[r]) /\ revived' = revived \cup {mine[r]}
    BY <1>4, <1>6 DEF Save
  <2>2. QED
    BY <1>1, <1>3, <1>6, <2>1, InsertRowEffect
<1>7. QED
  BY <1>5, <1>6

LEMMA ForgetEffect ==
    ASSUME BakTypeInv, NEW a, DeleteRow(a)
    PROVE  /\ rows' \in Seq(Archives) /\ Distinct' /\ Listed' = Listed \ {a}
           /\ \A x, y : Earlier(x, y)' => Earlier(x, y)
  BY DeleteRowEffect DEF BakTypeInv, BakNumbers, BakKnown

LEMMA SameRows ==
    ASSUME rows' = rows
    PROVE  Listed' = Listed /\ (Distinct => Distinct') /\ \A x, y : Earlier(x, y)' => Earlier(x, y)
  BY DEF Listed, Distinct, Earlier

LEMMA PickEffect ==
    ASSUME BakTypeInv, NEW r \in Runs, Pick(r)
    PROVE  \/ /\ UNCHANGED <<rpc, old>> /\ left' = [left EXCEPT ![r] = @ - 1]
           \/ /\ UNCHANGED left
              /\ \E a \in Listed :
                    /\ old' = [old EXCEPT ![r] = a] /\ rpc' = [rpc EXCEPT ![r] = "drop"]
                    /\ \A x : Earlier(x, a) => site[x] # site[a]
<1>0. Len(rows) \in Nat /\ DOMAIN rows = 1..Len(rows) /\ Distinct
  BY LenProperties DEF BakTypeInv, BakNumbers, BakKnown
<1>1. CASE Candidates(r) = {}
  BY <1>1 DEF Pick
<1>2. ASSUME NEW i \in Candidates(r), Turn(r, i), old' = [old EXCEPT ![r] = rows[i]],
             RunGoto(r, "drop"), UNCHANGED left
      PROVE  /\ UNCHANGED left
             /\ \E a \in Listed :
                   /\ old' = [old EXCEPT ![r] = a] /\ rpc' = [rpc EXCEPT ![r] = "drop"]
                   /\ \A x : Earlier(x, a) => site[x] # site[a]
  <2>1. i \in 1..Len(rows) /\ rows[i] \in Listed
    BY <1>0 DEF Candidates, Listed, ToSet
  <2>2. ASSUME NEW x, Earlier(x, rows[i]) PROVE site[x] # site[rows[i]]
    <3>1. PICK k \in 1..Len(rows), l \in 1..Len(rows) : k < l /\ rows[k] = x /\ rows[l] = rows[i]
      BY <2>2 DEF Earlier
    <3>2. l = i
      BY <1>0, <2>1, <3>1 DEF Distinct
    <3>3. k \notin Candidates(r)
      BY <1>0, <1>2, <2>1, <3>1, <3>2 DEF Turn
    <3>4. QED
      BY <1>2, <3>1, <3>3 DEF Candidates
  <2>3. QED
    BY <1>2, <2>1, <2>2 DEF RunGoto
<1>3. QED
  BY <1>1, <1>2 DEF Pick

LEMMA BakNumbersStep == BakTypeInv /\ [BakNext]_bakVars => BakNumbers'
<1> SUFFICES ASSUME BakTypeInv, [BakNext]_bakVars PROVE BakNumbers'
  OBVIOUS
<1>0. BakNames /\ BakNumbers
  BY DEF BakTypeInv
<1>z. 0 \in 0..MaxArchives
  BY CronBackupsAssumption
<1> USE DEF RunGoto, Leave, backups, progress, user, BakNumbers
<1>1. ASSUME NEW r \in Runs, RunStep(r) PROVE BakNumbers'
  <2>1. CASE Start(r) \/ (\E s \in Sites : TakeSite(r, s)) \/ End(r)
    BY <1>0, <1>z, <2>1 DEF Start, TakeSite, End
  <2>2. CASE Pack(r) \/ PackFails(r)
    <3>1. made + 1 \in Archives /\ made + 1 \in 0..MaxArchives
      BY <1>0, <2>2, CronBackupsAssumption DEF Pack, PackFails, Archives
    <3>2. at[r] \in Sites \cup {NoSite}
      BY <1>0 DEF BakNames
    <3>3. CASE Pack(r)
      BY <1>0, <1>z, <3>1, <3>2, <3>3 DEF Pack
    <3>4. CASE PackFails(r)
      BY <1>0, <1>z, <3>1, <3>2, <3>4 DEF PackFails
    <3>5. QED
      BY <2>2, <3>3, <3>4
  <2>3. CASE Skip(r) \/ Link(r) \/ Cleaned(r)
    BY <1>0, <2>3 DEF Skip, Link, Cleaned
  <2>4. CASE AddRow(r)
    BY <1>0, <2>4, AddRowEffect DEF AddRow
  <2>5. CASE Save(r)
    BY <1>0, <1>z, <2>5, SaveEffect DEF Save
  <2>6. CASE Count(r)
    <3>1. Len(rows) \in 0..MaxArchives
      BY <1>0, FewRows DEF BakTypeInv, BakKnown
    <3>2. (IF Len(rows) > SaveNums THEN Len(rows) - SaveNums ELSE 0) \in 0..MaxArchives
      BY <3>1, CronBackupsAssumption
    <3>3. QED
      BY <1>0, <2>6, <3>2 DEF Count
  <2>7. CASE Pick(r)
    <3>1. left[r] - 1 \in 0..MaxArchives
      BY <1>0, <2>7, CronBackupsAssumption DEF Pick
    <3>2. \A a \in Listed : a \in 0..MaxArchives
      BY <1>0, LenProperties, CronBackupsAssumption DEF Listed, ToSet, Archives
    <3>3. UNCHANGED <<made, site, disk, rows, mine, userOld, deletes, revived, strays>>
      BY <2>7 DEF Pick
    <3>4. left' \in [Runs -> 0..MaxArchives] /\ old' \in [Runs -> 0..MaxArchives]
      BY <1>0, <2>7, <3>1, <3>2, PickEffect
    <3>5. QED
      BY <1>0, <3>3, <3>4
  <2>8. CASE RemoveFile(r)
    BY <1>0, <2>8 DEF RemoveFile
  <2>9. CASE RemoveFails(r)
    BY <1>0, <1>z, <2>9 DEF RemoveFails
  <2>10. CASE ForgetRow(r)
    <3>1. left[r] > 0
      BY <2>10 DEF ForgetRow, BakTypeInv, BakSteps
    <3>2. left[r] - 1 \in 0..MaxArchives
      BY <1>0, <3>1, CronBackupsAssumption
    <3>3. rows' \in Seq(Archives)
      BY <2>10, ForgetEffect DEF ForgetRow
    <3>4. QED
      BY <1>0, <1>z, <2>10, <3>2, <3>3 DEF ForgetRow
  <2>11. QED
    BY <1>1, <2>1, <2>2, <2>3, <2>4, <2>5, <2>6, <2>7, <2>8, <2>9, <2>10 DEF RunStep
<1>2. ASSUME NEW a \in Archives, UserPick(a) PROVE BakNumbers'
  <2>1. deletes + 1 \in 0..MaxUpsets
    BY <1>0, <1>2, MayUpsetBound DEF UserPick
  <2>2. a \in 0..MaxArchives
    BY CronBackupsAssumption DEF Archives
  <2>3. QED
    BY <1>0, <1>2, <2>1, <2>2 DEF UserPick
<1>3. CASE UserRemove \/ TaskDeleted
  BY <1>0, <1>3 DEF UserRemove, TaskDeleted
<1>4. CASE UserForget
  BY <1>0, <1>z, <1>4, ForgetEffect DEF UserForget
<1>5. CASE BakCrash
  BY <1>0, <1>z, <1>5 DEF BakCrash
<1>6. CASE UNCHANGED bakVars
  BY <1>0, <1>6 DEF bakVars
<1>7. QED
  BY <1>1, <1>2, <1>3, <1>4, <1>5, <1>6 DEF BakNext

LEMMA BakKnownStep == BakTypeInv /\ [BakNext]_bakVars => BakKnown'
<1> SUFFICES ASSUME BakTypeInv, [BakNext]_bakVars PROVE BakKnown'
  OBVIOUS
<1>0. BakKnown
  BY DEF BakTypeInv
<1>t. /\ made \in Nat /\ userOld \in Nat /\ \A q \in Runs : mine[q] \in Nat /\ old[q] \in Nat
      /\ mine \in [Runs -> Nat] /\ old \in [Runs -> Nat]
  BY CronBackupsAssumption DEF BakTypeInv, BakNumbers
<1> USE DEF RunGoto, Leave, backups, progress, user
<1>1. ASSUME NEW r \in Runs, RunStep(r) PROVE BakKnown'
  <2>1. CASE Start(r) \/ (\E s \in Sites : TakeSite(r, s)) \/ End(r)
    <3>1. rows' = rows
      BY <2>1 DEF Start, TakeSite, End
    <3>2. Distinct' /\ Listed' \subseteq 1..made' /\ disk' \subseteq 1..made' /\ userOld' <= made'
      BY <1>0, <1>t, <2>1, <3>1, SameRows DEF Start, TakeSite, End, BakKnown
    <3>3. \A q \in Runs : mine'[q] <= made' /\ old'[q] <= made'
      BY <1>0, <1>t, <2>1, <3>1, SameRows DEF Start, TakeSite, End, BakKnown
    <3>4. QED
      BY <3>2, <3>3 DEF BakKnown
  <2>2. CASE Pack(r) \/ PackFails(r)
    <3>1. rows' = rows /\ made' = made + 1
      BY <2>2 DEF Pack, PackFails
    <3>2. 1..made \subseteq 1..(made + 1) /\ made + 1 \in 1..(made + 1)
      BY <1>t
    <3>3. \A n \in Nat : n <= made => n <= made + 1
      BY <1>t
    <3>4. Distinct' /\ Listed' \subseteq 1..made' /\ disk' \subseteq 1..made' /\ userOld' <= made'
      BY <1>0, <1>t, <2>2, <3>1, <3>2, <3>3, SameRows DEF Pack, PackFails, BakKnown
    <3>5. \A q \in Runs : mine'[q] <= made' /\ old'[q] <= made'
      BY <1>0, <1>t, <2>2, <3>1 DEF Pack, PackFails, BakKnown
    <3>6. QED
      BY <3>4, <3>5 DEF BakKnown
  <2>3. CASE Skip(r) \/ Link(r) \/ Cleaned(r) \/ Count(r)
    <3>1. rows' = rows
      BY <2>3 DEF Skip, Link, Cleaned, Count
    <3>2. QED
      BY <1>0, <2>3, <3>1, SameRows DEF Skip, Link, Cleaned, Count, BakKnown
  <2>4. CASE AddRow(r)
    <3>1. /\ mine[r] \in disk /\ Distinct' /\ Listed' = Listed \cup {mine[r]}
          /\ UNCHANGED <<made, disk, mine, old, userOld>>
      BY <2>4, AddRowEffect DEF AddRow
    <3>2. QED
      BY <1>0, <3>1 DEF BakKnown
  <2>5. CASE Save(r)
    <3>1. /\ mine[r] \in 1..made /\ Distinct' /\ Listed' = Listed \cup {mine[r]}
          /\ UNCHANGED <<made, disk, old, userOld>> /\ mine' = [mine EXCEPT ![r] = 0]
      BY <2>5, SaveEffect DEF Save
    <3>2. Distinct' /\ Listed' \subseteq 1..made' /\ disk' \subseteq 1..made' /\ userOld' <= made'
      BY <1>0, <1>t, <3>1 DEF BakKnown
    <3>3. \A q \in Runs : mine'[q] <= made' /\ old'[q] <= made'
      BY <1>0, <1>t, <3>1 DEF BakKnown
    <3>4. QED
      BY <3>2, <3>3 DEF BakKnown
  <2>6. CASE Pick(r)
    <3>1. rows' = rows /\ UNCHANGED <<made, disk, userOld, mine>>
      BY <2>6 DEF Pick
    <3>2. \A a \in Listed : a <= made
      BY <1>0, <1>t DEF BakKnown
    <3>3. \A q \in Runs : old'[q] <= made
      BY <1>0, <1>t, <2>6, <3>2, PickEffect DEF BakKnown
    <3>4. QED
      BY <1>0, <3>1, <3>3, SameRows DEF BakKnown
  <2>7. CASE RemoveFile(r) \/ RemoveFails(r)
    <3>1. rows' = rows
      BY <2>7 DEF RemoveFile, RemoveFails
    <3>2. Distinct' /\ Listed' \subseteq 1..made' /\ disk' \subseteq 1..made' /\ userOld' <= made'
      BY <1>0, <1>t, <2>7, <3>1, SameRows DEF RemoveFile, RemoveFails, BakKnown
    <3>3. \A q \in Runs : mine'[q] <= made' /\ old'[q] <= made'
      BY <1>0, <1>t, <2>7, <3>1, SameRows DEF RemoveFile, RemoveFails, BakKnown
    <3>4. QED
      BY <3>2, <3>3 DEF BakKnown
  <2>8. CASE ForgetRow(r)
    <3>1. /\ Distinct' /\ Listed' = Listed \ {old[r]}
          /\ UNCHANGED <<made, disk, mine, userOld>> /\ old' = [old EXCEPT ![r] = 0]
      BY <2>8, ForgetEffect DEF ForgetRow
    <3>2. Distinct' /\ Listed' \subseteq 1..made' /\ disk' \subseteq 1..made' /\ userOld' <= made'
      BY <1>0, <1>t, <3>1 DEF BakKnown
    <3>3. \A q \in Runs : mine'[q] <= made' /\ old'[q] <= made'
      BY <1>0, <1>t, <3>1 DEF BakKnown
    <3>4. QED
      BY <3>2, <3>3 DEF BakKnown
  <2>9. QED
    BY <1>1, <2>1, <2>2, <2>3, <2>4, <2>5, <2>6, <2>7, <2>8 DEF RunStep
<1>2. ASSUME NEW a \in Archives, UserPick(a) PROVE BakKnown'
  <2>1. rows' = rows /\ UNCHANGED <<made, disk, mine, old>> /\ userOld' = a
    BY <1>2 DEF UserPick
  <2>2. a \in Listed
    BY <1>2, LenProperties DEF UserPick, Contains, Listed, ToSet, BakTypeInv, BakNumbers
  <2>3. a <= made
    BY <1>0, <1>t, <2>2 DEF BakKnown
  <2>4. QED
    BY <1>0, <2>1, <2>3, SameRows DEF BakKnown
<1>3. CASE UserRemove \/ TaskDeleted
  <2>1. rows' = rows
    BY <1>3 DEF UserRemove, TaskDeleted
  <2>2. QED
    BY <1>0, <1>3, <2>1, SameRows DEF UserRemove, TaskDeleted, BakKnown
<1>4. CASE UserForget
  <2>1. /\ Distinct' /\ Listed' = Listed \ {userOld}
        /\ UNCHANGED <<made, disk, mine, old>> /\ userOld' = 0
    BY <1>4, ForgetEffect DEF UserForget
  <2>2. Distinct' /\ Listed' \subseteq 1..made' /\ disk' \subseteq 1..made' /\ userOld' <= made'
    BY <1>0, <1>t, <2>1 DEF BakKnown
  <2>3. \A q \in Runs : mine'[q] <= made' /\ old'[q] <= made'
    BY <1>0, <1>t, <2>1 DEF BakKnown
  <2>4. QED
    BY <2>2, <2>3 DEF BakKnown
<1>5. CASE BakCrash
  <2>1. rows' = rows /\ made' = made /\ disk' = disk /\ userOld' = 0
    BY <1>5 DEF BakCrash
  <2>2. Distinct' /\ Listed' \subseteq 1..made' /\ disk' \subseteq 1..made' /\ userOld' <= made'
    <3>1. Distinct' /\ Listed' = Listed
      BY <1>0, <2>1, SameRows DEF BakKnown
    <3>2. QED
      BY <1>0, <1>t, <2>1, <3>1 DEF BakKnown
  <2>3. \A q \in Runs : mine'[q] <= made' /\ old'[q] <= made'
    BY <1>0, <1>t, <1>5, <2>1, SameRows DEF BakCrash, BakKnown
  <2>4. QED
    BY <2>2, <2>3 DEF BakKnown
<1>6. CASE UNCHANGED bakVars
  <2>1. rows' = rows
    BY <1>6 DEF bakVars
  <2>2. QED
    BY <1>0, <1>6, <2>1, SameRows DEF bakVars, BakKnown
<1>7. QED
  BY <1>1, <1>2, <1>3, <1>4, <1>5, <1>6 DEF BakNext

LEMMA BakStepsStep == BakTypeInv /\ [BakNext]_bakVars => BakSteps'
<1> SUFFICES ASSUME BakTypeInv, [BakNext]_bakVars PROVE BakSteps'
  OBVIOUS
<1>0. BakSteps /\ BakNames
  BY DEF BakTypeInv
<1>t. /\ made \in Nat
      /\ mine \in [Runs -> 0..MaxArchives] /\ left \in [Runs -> 0..MaxArchives]
  BY CronBackupsAssumption DEF BakTypeInv, BakNumbers
<1> USE DEF RunGoto, Leave, backups, progress, user, BakSteps, HasPacked, BakNames, RunSteps
<1>1. ASSUME NEW r \in Runs, RunStep(r) PROVE BakSteps'
  <2>1. CASE Start(r) \/ (\E s \in Sites : TakeSite(r, s)) \/ End(r)
    BY <1>0, <1>t, <2>1 DEF Start, TakeSite, End
  <2>2. CASE Pack(r)
    BY <1>0, <1>t, <2>2 DEF Pack
  <2>3. CASE PackFails(r) \/ RemoveFails(r)
    BY <1>0, <1>t, <2>3 DEF PackFails, RemoveFails
  <2>4. CASE Skip(r) \/ Link(r) \/ AddRow(r)
    BY <1>0, <1>t, <2>4 DEF Skip, Link, AddRow, AfterLink, AfterRow
  <2>5. CASE Save(r)
    BY <1>0, <1>t, <2>5 DEF Save, AfterLink
  <2>6. CASE Count(r)
    BY <1>0, <1>t, <2>6 DEF Count
  <2>7. CASE Pick(r)
    <3>1. UNCHANGED <<kind, mine>> /\ rpc[r] = "pick" /\ left[r] > 0
      BY <2>7 DEF Pick
    <3>2. \/ UNCHANGED rpc /\ left' = [left EXCEPT ![r] = @ - 1]
          \/ UNCHANGED left /\ rpc' = [rpc EXCEPT ![r] = "drop"]
      BY <2>7 DEF Pick
    <3>3. QED
      BY <1>0, <1>t, <3>1, <3>2
  <2>8. CASE Cleaned(r) \/ RemoveFile(r)
    BY <1>0, <1>t, <2>8 DEF Cleaned, RemoveFile, AfterDrop
  <2>9. CASE ForgetRow(r)
    <3>1. /\ UNCHANGED <<kind, mine>> /\ rpc[r] = "forget"
          /\ left' = [left EXCEPT ![r] = @ - 1] /\ rpc' = [rpc EXCEPT ![r] = "pick"]
      BY <2>9 DEF ForgetRow
    <3>2. QED
      BY <1>0, <1>t, <3>1
  <2>10. QED
    BY <1>1, <2>1, <2>2, <2>3, <2>4, <2>5, <2>6, <2>7, <2>8, <2>9 DEF RunStep
<1>2. ASSUME NEW a \in Archives, UserPick(a) PROVE BakSteps'
  BY <1>0, <1>2 DEF UserPick
<1>3. CASE UserRemove \/ TaskDeleted \/ UserForget
  <2>1. UNCHANGED <<kind, rpc, mine, left>>
    BY <1>3 DEF UserRemove, TaskDeleted, UserForget
  <2>2. QED
    BY <1>0, <2>1
<1>4. CASE BakCrash
  <2>1. rpc' = [r \in Runs |-> "idle"]
    BY <1>4 DEF BakCrash
  <2>2. QED
    BY <2>1
<1>5. CASE UNCHANGED bakVars
  BY <1>0, <1>5 DEF bakVars
<1>6. QED
  BY <1>1, <1>2, <1>3, <1>4, <1>5 DEF BakNext

LEMMA UnlistedStep == BakTypeInv /\ [BakNext]_bakVars => Unlisted'
<1> SUFFICES ASSUME BakTypeInv, [BakNext]_bakVars PROVE Unlisted'
  OBVIOUS
<1>0. Unlisted /\ BakNames /\ BakKnown
  BY DEF BakTypeInv
<1>t. /\ made \in Nat /\ disk \subseteq Nat /\ 0 \notin disk /\ userOld \in Nat
      /\ \A q \in Runs : mine[q] \in Nat /\ old[q] \in Nat
      /\ mine \in [Runs -> Nat] /\ old \in [Runs -> Nat] /\ rpc \in [Runs -> RunSteps]
  BY CronBackupsAssumption DEF BakTypeInv, BakNames, BakNumbers, Archives
<1> USE DEF RunGoto, Leave, backups, progress, user, Unlisted
<1>1. ASSUME NEW r \in Runs, RunStep(r) PROVE Unlisted'
  <2>1. CASE Start(r) \/ (\E s \in Sites : TakeSite(r, s)) \/ End(r)
    <3>1. rows' = rows
      BY <2>1 DEF Start, TakeSite, End
    <3>2. QED
      BY <1>0, <1>t, <2>1, <3>1, SameRows DEF Start, TakeSite, End
  <2>2. CASE Pack(r)
    <3>1. /\ rows' = rows /\ UNCHANGED <<old, userOld>> /\ disk' = disk \cup {made + 1}
          /\ mine' = [mine EXCEPT ![r] = made + 1] /\ rpc' = [rpc EXCEPT ![r] = "row"]
      BY <2>2 DEF Pack
    <3>2. /\ made + 1 \notin Listed /\ userOld # made + 1
          /\ \A q \in Runs : old[q] # made + 1 /\ mine[q] # made + 1
      <4>1. \A n \in 0..made : n # made + 1
        BY <1>t
      <4>2. Listed \subseteq 0..made /\ userOld \in 0..made
            /\ \A q \in Runs : old[q] \in 0..made /\ mine[q] \in 0..made
        BY <1>0, <1>t DEF BakKnown
      <4>3. QED
        BY <4>1, <4>2
    <3>3. QED
      BY <1>0, <1>t, <3>1, <3>2, SameRows
  <2>3. CASE PackFails(r) \/ RemoveFails(r)
    <3>1. rows' = rows /\ disk \subseteq disk'
      BY <2>3 DEF PackFails, RemoveFails
    <3>2. QED
      BY <1>0, <1>t, <2>3, <3>1, SameRows DEF PackFails, RemoveFails
  <2>4. CASE Skip(r) \/ Link(r) \/ Count(r) \/ Cleaned(r)
    <3>1. rows' = rows
      BY <2>4 DEF Skip, Link, Count, Cleaned
    <3>2. \A q \in Runs : rpc'[q] = "row" => rpc[q] = "row"
      BY <1>t, <2>4 DEF Skip, Link, Count, Cleaned, AfterLink, AfterDrop
    <3>3. UNCHANGED <<disk, mine, old, userOld>>
      BY <2>4 DEF Skip, Link, Count, Cleaned
    <3>4. QED
      BY <1>0, <3>1, <3>2, <3>3, SameRows
  <2>5. CASE AddRow(r)
    <3>1. Listed' = Listed \cup {mine[r]}
      BY <2>5, AddRowEffect
    <3>2. \A q \in Runs : rpc'[q] = "row" => q # r /\ rpc[q] = "row"
      BY <1>t, <2>5 DEF AddRow, AfterRow
    <3>3. UNCHANGED <<disk, mine, old, userOld>>
      BY <2>5 DEF AddRow
    <3>4. QED
      BY <1>0, <3>1, <3>2, <3>3
  <2>6. CASE Save(r)
    <3>1. Listed' = Listed \cup {mine[r]}
      BY <2>6, SaveEffect
    <3>2. \A q \in Runs : rpc'[q] = "row" => q # r /\ rpc[q] = "row"
      BY <1>t, <2>6 DEF Save, AfterLink
    <3>3. UNCHANGED <<disk, old, userOld>> /\ mine' = [mine EXCEPT ![r] = 0]
      BY <2>6 DEF Save
    <3>4. QED
      BY <1>0, <1>t, <3>1, <3>2, <3>3
  <2>7. CASE Pick(r)
    <3>1. rows' = rows /\ UNCHANGED <<disk, mine, userOld>>
      BY <2>7 DEF Pick
    <3>2. \/ UNCHANGED <<rpc, old>>
          \/ /\ rpc' = [rpc EXCEPT ![r] = "drop"]
             /\ \E a \in Listed : old' = [old EXCEPT ![r] = a]
      BY <2>7, PickEffect
    <3>3. QED
      BY <1>0, <1>t, <3>1, <3>2, SameRows
  <2>8. CASE RemoveFile(r)
    <3>1. rows' = rows
      BY <2>8 DEF RemoveFile
    <3>2. QED
      BY <1>0, <1>t, <2>8, <3>1, SameRows DEF RemoveFile
  <2>9. CASE ForgetRow(r)
    <3>1. Listed' = Listed \ {old[r]}
      BY <2>9, ForgetEffect DEF ForgetRow
    <3>2. /\ UNCHANGED <<disk, mine, userOld>> /\ old' = [old EXCEPT ![r] = 0]
          /\ rpc' = [rpc EXCEPT ![r] = "pick"]
      BY <2>9 DEF ForgetRow
    <3>3. QED
      BY <1>0, <1>t, <3>1, <3>2
  <2>10. QED
    BY <1>1, <2>1, <2>2, <2>3, <2>4, <2>5, <2>6, <2>7, <2>8, <2>9 DEF RunStep
<1>2. ASSUME NEW a \in Archives, UserPick(a) PROVE Unlisted'
  <2>1. rows' = rows /\ UNCHANGED <<rpc, disk, mine, old>> /\ userOld' = a
    BY <1>2 DEF UserPick
  <2>2. a \in Listed
    BY <1>2, LenProperties DEF UserPick, Contains, Listed, ToSet, BakTypeInv, BakNumbers
  <2>3. QED
    BY <1>0, <2>1, <2>2, SameRows
<1>3. CASE UserRemove
  <2>1. rows' = rows /\ UNCHANGED <<rpc, mine, old, userOld>> /\ disk' = disk \ {userOld}
    BY <1>3 DEF UserRemove
  <2>2. QED
    BY <1>0, <2>1, SameRows
<1>4. CASE UserForget
  <2>1. Listed' = Listed \ {userOld}
    BY <1>4, ForgetEffect DEF UserForget
  <2>2. UNCHANGED <<rpc, disk, mine, old>> /\ userOld' = 0
    BY <1>4 DEF UserForget
  <2>3. QED
    BY <1>0, <1>t, <2>1, <2>2
<1>5. CASE BakCrash
  <2>1. rpc' = [r \in Runs |-> "idle"]
    BY <1>5 DEF BakCrash
  <2>2. QED
    BY <2>1
<1>6. CASE TaskDeleted \/ UNCHANGED bakVars
  <2>1. rows' = rows /\ UNCHANGED <<rpc, disk, mine, old, userOld>>
    BY <1>6 DEF bakVars, TaskDeleted
  <2>2. QED
    BY <1>0, <2>1, SameRows
<1>7. QED
  BY <1>1, <1>2, <1>3, <1>4, <1>5, <1>6 DEF BakNext

LEMMA BakTypeHolds == BakSpec => []BakTypeInv
<1>1. BakTypeInv /\ [BakNext]_bakVars => BakTypeInv'
  BY BakNamesStep, BakNumbersStep, BakKnownStep, BakStepsStep, UnlistedStep DEF BakTypeInv
<1>2. QED
  BY BakTypeInit, <1>1, PTL DEF BakSpec

(* Every reachable state of the backups of a task is well typed, for any   *)
(* number of sites, runs and backups to keep.                              *)
THEOREM BakTypeCorrect == BakSpec => []BakTypeOK
<1>1. BakTypeInv => BakTypeOK
  BY DEF BakTypeInv, BakNames, BakNumbers, BakTypeOK
<1>2. QED
  BY BakTypeHolds, <1>1, PTL

(* Whoever is about to delete a row has removed its archive; a run that is *)
(* about to remove an archive, which nobody has removed meanwhile, has the *)
(* oldest of its site.                                                     *)
Removed ==
    /\ \A r \in Runs : rpc[r] = "forget" => old[r] \notin disk
    /\ userAt = "row" => userOld \notin disk

OldestAtHand == \A r \in Runs : rpc[r] = "drop" /\ old[r] \in disk =>
    old[r] \in Listed /\ \A x : Earlier(x, old[r]) => site[x] # site[old[r]]

BakInv == Removed /\ OldestAtHand /\ RowsMatchArchives

\* What the steps leave of the archives known before them.
LEMMA DiskStep ==
    ASSUME BakTypeInv, BakNext
    PROVE  /\ disk' \subseteq disk \cup {made + 1}
           /\ \A a \in 1..made : site'[a] = site[a]
           /\ strays \subseteq strays' /\ revived \subseteq revived'
<1>t. /\ site \in [Archives -> Sites \cup {NoSite}]
      /\ \A a \in 1..made : a \in Archives /\ a # made + 1
  <2>1. made \in 0..MaxArchives /\ site \in [Archives -> Sites \cup {NoSite}]
    BY DEF BakTypeInv, BakNumbers
  <2>2. QED
    BY <2>1, CronBackupsAssumption DEF Archives
<1> USE DEF Leave, backups, progress, user
<1>1. ASSUME NEW r \in Runs, RunStep(r)
      PROVE  /\ disk' \subseteq disk \cup {made + 1}
             /\ \A a \in 1..made : site'[a] = site[a]
             /\ strays \subseteq strays' /\ revived \subseteq revived'
  <2>1. CASE Pack(r) \/ PackFails(r)
    <3>1. /\ disk' = disk \cup {made + 1} /\ site' = [site EXCEPT ![made + 1] = at[r]]
          /\ strays \subseteq strays' /\ revived' = revived
      BY <2>1 DEF Pack, PackFails
    <3>2. QED
      BY <1>t, <3>1
  <2>2. CASE Start(r) \/ (\E s \in Sites : TakeSite(r, s)) \/ End(r) \/ Skip(r) \/ AddRow(r) \/ Link(r)
    BY <2>2 DEF Start, TakeSite, End, Skip, AddRow, Link
  <2>3. CASE Save(r) \/ Count(r) \/ Pick(r) \/ Cleaned(r)
    BY <2>3 DEF Save, Count, Pick, Cleaned
  <2>4. CASE RemoveFile(r) \/ RemoveFails(r) \/ ForgetRow(r)
    BY <2>4 DEF RemoveFile, RemoveFails, ForgetRow
  <2>5. QED
    BY <1>1, <2>1, <2>2, <2>3, <2>4 DEF RunStep
<1>2. ASSUME NEW a \in Archives, UserPick(a)
      PROVE  UNCHANGED <<disk, site, strays, revived>>
  BY <1>2 DEF UserPick
<1>3. CASE UserRemove \/ UserForget \/ TaskDeleted \/ BakCrash
  BY <1>3 DEF UserRemove, UserForget, TaskDeleted, BakCrash
<1>4. QED
  BY <1>1, <1>2, <1>3 DEF BakNext

LEMMA RemovedStep == BakTypeInv /\ Removed /\ [BakNext]_bakVars => Removed'
<1> SUFFICES ASSUME BakTypeInv, Removed, [BakNext]_bakVars PROVE Removed'
  OBVIOUS
<1>t. /\ made \in Nat /\ userOld # made + 1 /\ \A q \in Runs : old[q] # made + 1
      /\ old \in [Runs -> 0..MaxArchives] /\ rpc \in [Runs -> RunSteps]
  <2>1. made \in 0..MaxArchives /\ userOld \in 0..MaxArchives /\ old \in [Runs -> 0..MaxArchives]
    BY DEF BakTypeInv, BakNumbers
  <2>2. userOld <= made /\ \A q \in Runs : old[q] <= made
    BY DEF BakTypeInv, BakKnown
  <2>3. \A n \in 0..MaxArchives : n <= made => n # made + 1
    BY <2>1, CronBackupsAssumption
  <2>4. QED
    BY <2>1, <2>2, <2>3, CronBackupsAssumption DEF BakTypeInv, BakNames
<1> USE DEF RunGoto, Leave, backups, progress, user, Removed
<1>1. ASSUME NEW r \in Runs, RunStep(r) PROVE Removed'
  <2>0. disk' \subseteq disk \cup {made + 1}
    BY <1>1, DiskStep DEF BakNext
  <2>1. CASE Start(r) \/ (\E s \in Sites : TakeSite(r, s)) \/ End(r)
    BY <1>t, <2>1 DEF Start, TakeSite, End
  <2>2. CASE Pack(r)
    BY <1>t, <2>0, <2>2 DEF Pack
  <2>3. CASE PackFails(r) \/ RemoveFails(r)
    BY <1>t, <2>0, <2>3 DEF PackFails, RemoveFails
  <2>4. CASE Skip(r) \/ AddRow(r) \/ Link(r) \/ Save(r) \/ Count(r) \/ Cleaned(r)
    <3>1. UNCHANGED <<disk, old, userAt, userOld>>
      BY <2>4 DEF Skip, AddRow, Link, Save, Count, Cleaned
    <3>2. \A q \in Runs : rpc'[q] = "forget" => rpc[q] = "forget"
      BY <1>t, <2>4 DEF Skip, AddRow, Link, Save, Count, Cleaned, AfterRow, AfterLink, AfterDrop
    <3>3. QED
      BY <3>1, <3>2
  <2>5. CASE Pick(r)
    <3>1. UNCHANGED <<disk, userAt, userOld>>
      BY <2>5 DEF Pick
    <3>2. \/ UNCHANGED <<rpc, old>>
          \/ rpc' = [rpc EXCEPT ![r] = "drop"] /\ \A q \in Runs \ {r} : old'[q] = old[q]
      BY <1>t, <2>5, PickEffect
    <3>3. QED
      BY <1>t, <3>1, <3>2
  <2>6. CASE RemoveFile(r)
    BY <1>t, <2>6 DEF RemoveFile
  <2>7. CASE ForgetRow(r)
    BY <1>t, <2>7 DEF ForgetRow
  <2>8. QED
    BY <1>1, <2>1, <2>2, <2>3, <2>4, <2>5, <2>6, <2>7 DEF RunStep
<1>2. ASSUME NEW a \in Archives, UserPick(a) PROVE Removed'
  BY <1>2 DEF UserPick
<1>3. CASE UserRemove
  BY <1>3 DEF UserRemove
<1>4. CASE UserForget \/ TaskDeleted
  BY <1>4 DEF UserForget, TaskDeleted
<1>5. CASE BakCrash
  <2>1. rpc' = [r \in Runs |-> "idle"] /\ userAt' = "idle"
    BY <1>5 DEF BakCrash
  <2>2. QED
    BY <2>1
<1>6. CASE UNCHANGED bakVars
  BY <1>6 DEF bakVars
<1>7. QED
  BY <1>1, <1>2, <1>3, <1>4, <1>5, <1>6 DEF BakNext

LEMMA RowsMatchStep ==
    BakTypeInv /\ Removed /\ RowsMatchArchives /\ [BakNext]_bakVars => RowsMatchArchives'
<1> SUFFICES ASSUME BakTypeInv, Removed, RowsMatchArchives, [BakNext]_bakVars
             PROVE  RowsMatchArchives'
  OBVIOUS
<1>t. /\ mine \in [Runs -> 0..MaxArchives] /\ old \in [Runs -> 0..MaxArchives]
      /\ rpc \in [Runs -> RunSteps]
  BY DEF BakTypeInv, BakNames, BakNumbers
<1>u. Unlisted
  BY DEF BakTypeInv
<1> USE DEF RunGoto, Leave, backups, progress, user, RowsMatchArchives
<1>1. ASSUME NEW r \in Runs, RunStep(r) PROVE RowsMatchArchives'
  <2>1. CASE Start(r) \/ (\E s \in Sites : TakeSite(r, s)) \/ End(r)
    <3>1. rows' = rows
      BY <2>1 DEF Start, TakeSite, End
    <3>2. QED
      BY <1>t, <2>1, <3>1, SameRows DEF Start, TakeSite, End
  <2>2. CASE Pack(r)
    <3>1. /\ rows' = rows /\ disk' = disk \cup {made + 1} /\ rpc[r] = "pack"
          /\ mine' = [mine EXCEPT ![r] = made + 1] /\ rpc' = [rpc EXCEPT ![r] = "row"]
          /\ UNCHANGED <<old, userAt, userOld, strays, revived>>
      BY <2>2 DEF Pack
    <3>2. QED
      BY <1>t, <3>1, SameRows
  <2>3. CASE PackFails(r) \/ RemoveFails(r)
    <3>1. /\ rows' = rows /\ rpc[r] \in {"pack", "drop"} /\ disk \subseteq disk'
          /\ strays \subseteq strays' /\ \A a \in disk' : a \in disk \/ a \in strays'
          /\ UNCHANGED <<userAt, userOld, revived>>
          /\ \A q \in Runs \ {r} : rpc'[q] = rpc[q] /\ mine'[q] = mine[q] /\ old'[q] = old[q]
      BY <1>t, <2>3 DEF PackFails, RemoveFails
    <3>2. QED
      BY <3>1, SameRows
  <2>4. CASE Skip(r) \/ Link(r) \/ Count(r) \/ Cleaned(r)
    <3>1. /\ rows' = rows /\ rpc[r] \notin {"row", "forget"}
          /\ UNCHANGED <<disk, mine, old, userAt, userOld, strays, revived>>
      BY <2>4 DEF Skip, Link, Count, Cleaned
    <3>2. \A q \in Runs \ {r} : rpc'[q] = rpc[q]
      BY <1>t, <2>4 DEF Skip, Link, Count, Cleaned
    <3>3. QED
      BY <3>1, <3>2, SameRows
  <2>5. CASE AddRow(r)
    <3>1. Listed' = Listed \cup {mine[r]} /\ mine[r] \in disk
      BY <2>5, AddRowEffect
    <3>2. /\ rpc[r] = "row" /\ UNCHANGED <<disk, mine, old, userAt, userOld, strays, revived>>
          /\ \A q \in Runs \ {r} : rpc'[q] = rpc[q]
      BY <1>t, <2>5 DEF AddRow
    <3>3. QED
      BY <3>1, <3>2
  <2>6. CASE Save(r)
    <3>1. /\ Listed' = Listed \cup {mine[r]}
          /\ (mine[r] \in Listed /\ revived' = revived) \/ revived' = revived \cup {mine[r]}
      BY <2>6, SaveEffect
    <3>2. /\ rpc[r] = "save" /\ UNCHANGED <<disk, old, userAt, userOld, strays>>
          /\ \A q \in Runs \ {r} : rpc'[q] = rpc[q] /\ mine'[q] = mine[q]
      BY <1>t, <2>6 DEF Save
    <3>3. QED
      BY <3>1, <3>2
  <2>7. CASE Pick(r)
    <3>1. rows' = rows /\ rpc[r] = "pick" /\ UNCHANGED <<disk, mine, userAt, userOld, strays, revived>>
      BY <2>7 DEF Pick
    <3>2. \A q \in Runs \ {r} : rpc'[q] = rpc[q] /\ old'[q] = old[q]
      BY <1>t, <2>7, PickEffect
    <3>3. QED
      BY <3>1, <3>2, SameRows
  <2>8. CASE RemoveFile(r)
    <3>1. /\ rows' = rows /\ rpc[r] = "drop" /\ disk' = disk \ {old[r]}
          /\ UNCHANGED <<mine, old, userAt, userOld, strays, revived>>
          /\ rpc' = [rpc EXCEPT ![r] = "forget"]
      BY <2>8 DEF RemoveFile
    <3>2. QED
      BY <1>t, <3>1, SameRows
  <2>9. CASE ForgetRow(r)
    <3>1. Listed' = Listed \ {old[r]}
      BY <2>9, ForgetEffect DEF ForgetRow
    <3>2. /\ rpc[r] = "forget" /\ UNCHANGED <<disk, mine, userAt, userOld, strays, revived>>
          /\ \A q \in Runs \ {r} : rpc'[q] = rpc[q] /\ old'[q] = old[q]
      BY <1>t, <2>9 DEF ForgetRow
    <3>3. old[r] \notin disk
      BY <3>2 DEF Removed
    <3>4. QED
      BY <3>1, <3>2, <3>3
  <2>10. QED
    BY <1>1, <2>1, <2>2, <2>3, <2>4, <2>5, <2>6, <2>7, <2>8, <2>9 DEF RunStep
<1>2. ASSUME NEW a \in Archives, UserPick(a) PROVE RowsMatchArchives'
  <2>1. rows' = rows /\ userAt = "idle" /\ UNCHANGED <<disk, rpc, mine, old, strays, revived>>
    BY <1>2 DEF UserPick
  <2>2. QED
    BY <2>1, SameRows
<1>3. CASE UserRemove
  <2>1. /\ rows' = rows /\ UNCHANGED <<rpc, mine, old, userOld, strays, revived>>
        /\ userAt = "file" /\ userAt' = "row" /\ disk' = disk \ {userOld}
    BY <1>3 DEF UserRemove
  <2>2. QED
    BY <2>1, SameRows
<1>4. CASE UserForget
  <2>1. Listed' = Listed \ {userOld} /\ userOld \notin disk
    BY <1>4, ForgetEffect DEF UserForget, Removed
  <2>2. UNCHANGED <<rpc, disk, mine, old, strays, revived>>
    BY <1>4 DEF UserForget
  <2>3. QED
    BY <2>1, <2>2
<1>5. CASE BakCrash
  <2>1. /\ rows' = rows /\ UNCHANGED <<disk, revived>> /\ strays \subseteq strays'
    BY <1>5 DEF BakCrash
  <2>2. \A r \in Runs : rpc[r] = "row" => mine[r] \in strays'
    BY <1>5 DEF BakCrash
  <2>3. \A r \in Runs : rpc[r] = "forget" => old[r] \in strays'
    BY <1>5 DEF BakCrash
  <2>4. userAt = "row" => userOld \in strays'
    BY <1>5 DEF BakCrash
  <2>5. QED
    BY <2>1, <2>2, <2>3, <2>4, SameRows
<1>6. CASE TaskDeleted \/ UNCHANGED bakVars
  <2>1. rows' = rows /\ UNCHANGED <<rpc, disk, mine, old, userAt, userOld, strays, revived>>
    BY <1>6 DEF bakVars, TaskDeleted
  <2>2. QED
    BY <2>1, SameRows
<1>7. QED
  BY <1>1, <1>2, <1>3, <1>4, <1>5, <1>6 DEF BakNext

LEMMA OldestAtHandStep ==
    BakTypeInv /\ Removed /\ OldestAtHand /\ [BakNext]_bakVars => OldestAtHand'
<1> SUFFICES ASSUME BakTypeInv, Removed, OldestAtHand, [BakNext]_bakVars
             PROVE  OldestAtHand'
  OBVIOUS
<1>t. /\ old \in [Runs -> 0..MaxArchives] /\ rpc \in [Runs -> RunSteps]
      /\ \A q \in Runs : old[q] # made + 1
      /\ Listed \subseteq 1..made
      /\ \A x, y : Earlier(x, y) => x \in Listed
  <2>1. made \in 0..MaxArchives /\ old \in [Runs -> 0..MaxArchives] /\ rows \in Seq(Archives)
    BY DEF BakTypeInv, BakNumbers
  <2>2. Listed \subseteq 1..made /\ \A q \in Runs : old[q] <= made
    BY DEF BakTypeInv, BakKnown
  <2>3. \A n \in 0..MaxArchives : n <= made => n # made + 1
    BY <2>1, CronBackupsAssumption
  <2>4. \A x, y : Earlier(x, y) => x \in Listed
    BY <2>1, LenProperties DEF Earlier, Listed, ToSet
  <2>5. QED
    BY <2>1, <2>2, <2>3, <2>4 DEF BakTypeInv, BakNames
\* A step that starts no clean-up and lists nobody before the backup at hand.
<1>k. ASSUME BakNext,
             \A q \in Runs : rpc'[q] = "drop" => rpc[q] = "drop" /\ old'[q] = old[q],
             \A q \in Runs : rpc'[q] = "drop" /\ old[q] \in disk /\ old[q] \in Listed =>
                old[q] \in Listed' /\ \A x : Earlier(x, old[q])' => Earlier(x, old[q])
      PROVE  OldestAtHand'
  <2> SUFFICES ASSUME NEW q \in Runs, rpc'[q] = "drop", old'[q] \in disk'
               PROVE  old'[q] \in Listed' /\ \A x : Earlier(x, old[q])' => site'[x] # site'[old'[q]]
    BY DEF OldestAtHand
  <2>1. rpc[q] = "drop" /\ old'[q] = old[q]
    BY <1>k
  <2>2. old[q] \in disk
    BY <1>k, <1>t, <2>1, DiskStep
  <2>3. old[q] \in Listed /\ \A x : Earlier(x, old[q]) => site[x] # site[old[q]]
    BY <2>1, <2>2 DEF OldestAtHand
  <2>4. old[q] \in Listed' /\ \A x : Earlier(x, old[q])' => Earlier(x, old[q])
    BY <1>k, <2>1, <2>2, <2>3
  <2>5. \A a \in Listed : site'[a] = site[a]
    BY <1>k, <1>t, DiskStep
  <2>6. ASSUME NEW x, Earlier(x, old[q])' PROVE site'[x] # site'[old'[q]]
    <3>1. Earlier(x, old[q]) /\ x \in Listed
      BY <1>t, <2>4, <2>6
    <3>2. site'[x] = site[x] /\ site'[old[q]] = site[old[q]] /\ site[x] # site[old[q]]
      BY <2>3, <2>5, <3>1
    <3>3. QED
      BY <2>1, <3>2
  <2>7. QED
    BY <2>1, <2>4, <2>6
<1> USE DEF RunGoto, Leave, backups, progress, user
<1>1. ASSUME NEW r \in Runs, RunStep(r) PROVE OldestAtHand'
  <2>0. BakNext
    BY <1>1 DEF BakNext
  <2>1. CASE Start(r) \/ (\E s \in Sites : TakeSite(r, s)) \/ End(r) \/ Skip(r) \/ Link(r)
    <3>1. /\ rows' = rows
          /\ \A q \in Runs : rpc'[q] = "drop" => rpc[q] = "drop" /\ old'[q] = old[q]
      BY <1>t, <2>1 DEF Start, TakeSite, End, Skip, Link, AfterLink
    <3>2. QED
      BY <1>k, <2>0, <3>1, SameRows
  <2>2. CASE Pack(r) \/ PackFails(r) \/ Count(r) \/ Cleaned(r)
    <3>1. /\ rows' = rows
          /\ \A q \in Runs : rpc'[q] = "drop" => rpc[q] = "drop" /\ old'[q] = old[q]
      BY <1>t, <2>2 DEF Pack, PackFails, Count, Cleaned, AfterDrop
    <3>2. QED
      BY <1>k, <2>0, <3>1, SameRows
  <2>3. CASE RemoveFile(r) \/ RemoveFails(r)
    <3>1. /\ rows' = rows
          /\ \A q \in Runs : rpc'[q] = "drop" => rpc[q] = "drop" /\ old'[q] = old[q]
      BY <1>t, <2>3 DEF RemoveFile, RemoveFails
    <3>2. QED
      BY <1>k, <2>0, <3>1, SameRows
  <2>4. CASE AddRow(r)
    <3>1. \A q \in Runs : rpc'[q] = "drop" => rpc[q] = "drop" /\ old'[q] = old[q]
      BY <1>t, <2>4 DEF AddRow, AfterRow
    <3>2. /\ mine[r] \notin Listed /\ Listed' = Listed \cup {mine[r]}
          /\ \A x, y : Earlier(x, y)' => Earlier(x, y) \/ y = mine[r]
      BY <2>4, AddRowEffect
    <3>3. QED
      BY <1>k, <2>0, <3>1, <3>2
  <2>5. CASE Save(r)
    <3>1. \A q \in Runs : rpc'[q] = "drop" => rpc[q] = "drop" /\ old'[q] = old[q]
      BY <1>t, <2>5 DEF Save, AfterLink
    <3>2. /\ Listed' = Listed \cup {mine[r]}
          /\ \A x, y : Earlier(x, y)' => Earlier(x, y) \/ (y = mine[r] /\ mine[r] \notin Listed)
      BY <2>5, SaveEffect
    <3>3. QED
      BY <1>k, <2>0, <3>1, <3>2
  <2>6. CASE Pick(r)
    <3>1. rows' = rows /\ UNCHANGED <<disk, site>>
      BY <2>6 DEF Pick
    <3>2. Listed' = Listed /\ \A x, y : Earlier(x, y)' => Earlier(x, y)
      BY <3>1, SameRows
    <3>3. CASE UNCHANGED <<rpc, old>>
      BY <3>1, <3>2, <3>3 DEF OldestAtHand
    <3>4. ASSUME NEW a \in Listed, old' = [old EXCEPT ![r] = a], rpc' = [rpc EXCEPT ![r] = "drop"],
                 \A x : Earlier(x, a) => site[x] # site[a]
          PROVE  OldestAtHand'
      <4>1. old'[r] = a /\ \A q \in Runs \ {r} : rpc'[q] = rpc[q] /\ old'[q] = old[q]
        BY <1>t, <3>4
      <4>2. QED
        BY <3>1, <3>2, <3>4, <4>1 DEF OldestAtHand
    <3>5. QED
      BY <2>6, <3>3, <3>4, PickEffect
  <2>7. CASE ForgetRow(r)
    <3>1. \A q \in Runs : rpc'[q] = "drop" => rpc[q] = "drop" /\ old'[q] = old[q]
      BY <1>t, <2>7 DEF ForgetRow
    <3>2. /\ Listed' = Listed \ {old[r]} /\ \A x, y : Earlier(x, y)' => Earlier(x, y)
      BY <2>7, ForgetEffect DEF ForgetRow
    <3>3. old[r] \notin disk
      BY <2>7 DEF ForgetRow, Removed
    <3>4. QED
      BY <1>k, <2>0, <3>1, <3>2, <3>3
  <2>8. QED
    BY <1>1, <2>1, <2>2, <2>3, <2>4, <2>5, <2>6, <2>7 DEF RunStep
<1>2. ASSUME NEW a \in Archives, UserPick(a) PROVE OldestAtHand'
  <2>1. BakNext /\ rows' = rows /\ UNCHANGED <<rpc, old>>
    BY <1>2 DEF BakNext, UserPick
  <2>2. QED
    BY <1>k, <2>1, SameRows
<1>3. CASE UserRemove \/ TaskDeleted
  <2>1. BakNext /\ rows' = rows /\ UNCHANGED <<rpc, old>>
    BY <1>3 DEF BakNext, UserRemove, TaskDeleted
  <2>2. QED
    BY <1>k, <2>1, SameRows
<1>4. CASE UserForget
  <2>1. BakNext /\ UNCHANGED <<rpc, old>>
    BY <1>4 DEF BakNext, UserForget
  <2>2. /\ Listed' = Listed \ {userOld} /\ \A x, y : Earlier(x, y)' => Earlier(x, y)
    BY <1>4, ForgetEffect DEF UserForget
  <2>3. userOld \notin disk
    BY <1>4 DEF UserForget, Removed
  <2>4. QED
    BY <1>k, <2>1, <2>2, <2>3
<1>5. CASE BakCrash
  <2>1. rpc' = [r \in Runs |-> "idle"]
    BY <1>5 DEF BakCrash
  <2>2. QED
    BY <2>1 DEF OldestAtHand
<1>6. CASE UNCHANGED bakVars
  <2>1. rows' = rows /\ UNCHANGED <<rpc, old, disk, site>>
    BY <1>6 DEF bakVars
  <2>2. QED
    BY <2>1, SameRows DEF OldestAtHand
<1>7. QED
  BY <1>1, <1>2, <1>3, <1>4, <1>5, <1>6 DEF BakNext

LEMMA BakInvHolds == BakSpec => [](BakTypeInv /\ BakInv)
<1>1. BakInit => BakInv
  <2>1. SUFFICES ASSUME BakInit PROVE BakInv
    OBVIOUS
  <2>2. Listed = {}
    BY <2>1 DEF BakInit, Listed, ToSet
  <2>3. QED
    BY <2>1, <2>2 DEF BakInit, BakInv, Removed, OldestAtHand, RowsMatchArchives
<1>2. BakTypeInv /\ BakInv /\ [BakNext]_bakVars => BakInv'
  BY RemovedStep, OldestAtHandStep, RowsMatchStep DEF BakInv
<1>3. QED
  BY <1>1, <1>2, BakTypeHolds, PTL DEF BakSpec

(* No archive on disk is lost from the list and no listed backup lacks its *)
(* archive, whatever runs, deletions and crashes interleave, but for what  *)
(* a failed step left and what the late save of cronTask inserted again.   *)
THEOREM RowsAndArchivesMatch == BakSpec => []RowsMatchArchives
<1>1. BakInv => RowsMatchArchives
  BY DEF BakInv
<1>2. QED
  BY BakInvHolds, <1>1, PTL

(* However many runs clean up at once and whatever the user deletes        *)
(* meanwhile, the archive a run removes is the oldest its site still has:  *)
(* the clean-up of cronTask never drops a newer backup before an older one.*)
THEOREM OldestIsDropped == BakSpec => DropsOldest
<1>1. ASSUME BakInv, NEW r \in Runs, RemoveFile(r), old[r] \in disk,
             NEW i \in 1..Len(rows), NEW k \in 1..Len(rows),
             rows[i] = old[r], k < i, site[rows[k]] = site[old[r]]
      PROVE  rows[k] \notin disk
  <2>1. Earlier(rows[k], old[r])
    BY <1>1 DEF Earlier
  <2>2. rpc[r] = "drop"
    BY <1>1 DEF RemoveFile
  <2>3. QED
    BY <1>1, <2>1, <2>2 DEF BakInv, OldestAtHand
<1>2. BakInv /\ [BakNext]_bakVars =>
        [\A r \in Runs : RemoveFile(r) /\ old[r] \in disk =>
           \A i \in 1..Len(rows), k \in 1..Len(rows) :
              rows[i] = old[r] /\ k < i /\ site[rows[k]] = site[old[r]]
                  => rows[k] \notin disk]_bakVars
  BY <1>1
<1>3. QED
  BY BakInvHolds, <1>2, PTL DEF BakSpec, DropsOldest

-----------------------------------------------------------------------------
(* What the retention does keep: one site or directory, one run at a time. *)

(* The task is for one site or directory, the user deletes nothing and no  *)
(* step fails.                                                             *)
Tidy == (\A x, y \in items : x = y) /\ strays = {} /\ deletes = 0

KeepsNewest == Tidy =>
    /\ \A a \in 1..made : made < a + SaveNums => a \in disk
    /\ (\A r \in Runs : rpc[r] = "idle") => \A a \in disk : made < a + SaveNums

(* A run is busy with an item of the task, and so are the archives.        *)
OfItems ==
    /\ \A r \in Runs : /\ todo[r] \subseteq items
                       /\ rpc[r] \notin {"idle", "next"} => at[r] \in items
    /\ \A a \in 1..made : site[a] \in items

(* How many archives have had a row.                                       *)
Rowed(r) == IF rpc[r] = "row" THEN made - 1 ELSE made

(* The rows are those of the last archives, oldest first; on disk are      *)
(* their archives and the one whose row is still to come.                  *)
RowsInOrder(r) ==
    /\ Len(rows) <= Rowed(r)
    /\ \A i \in 1..Len(rows) : rows[i] + Len(rows) = Rowed(r) + i
    /\ \A a \in 1..made :
          a \in disk <=> Rowed(r) < a + Len(rows) /\ (rpc[r] = "forget" => a # old[r])

(* What the run drops is the first row, what it has packed is the last.    *)
FirstAndLast(r) ==
    /\ rpc[r] \in {"drop", "forget"} => old[r] = rows[1]
    /\ HasPacked(r) => mine[r] = made /\ made > 0

(* Only rows beyond SaveNums are dropped, and all of them.                 *)
Surplus(r) ==
    /\ Len(rows) >= SaveNums \/ Len(rows) = Rowed(r)
    /\ rpc[r] \in {"drop", "forget"} => Len(rows) > SaveNums
    /\ rpc[r] \in {"pick", "drop", "forget"} =>
          left[r] = (IF Len(rows) > SaveNums THEN Len(rows) - SaveNums ELSE 0)
    /\ rpc[r] \in {"idle", "next", "pack", "row"} \/ (kind = "dir" /\ rpc[r] \in {"link", "save"})
          => Len(rows) <= SaveNums

Retained(r) == userAt = "idle" /\ RowsInOrder(r) /\ FirstAndLast(r) /\ Surplus(r)

KeepInv(r) == OfItems /\ (Tidy => Retained(r))

LEMMA OfItemsStep == BakTypeInv /\ OfItems /\ [BakNext]_bakVars => OfItems'
<1> SUFFICES ASSUME BakTypeInv, OfItems, [BakNext]_bakVars PROVE OfItems'
  OBVIOUS
<1>0. /\ rpc \in [Runs -> RunSteps] /\ todo \in [Runs -> SUBSET Sites] /\ at \in [Runs -> Sites \cup {NoSite}]
      /\ made \in 0..MaxArchives /\ site \in [Archives -> Sites \cup {NoSite}]
  BY DEF BakTypeInv, BakNames, BakNumbers
<1>c. MaxArchives \in Nat
  BY CronBackupsAssumption
<1>1. items' = items
  BY DEF BakNext, RunStep, Start, TakeSite, End, Skip, Pack, PackFails, AddRow, Link, Save, Count,
         Pick, Cleaned, RemoveFile, RemoveFails, ForgetRow, UserPick, UserRemove, UserForget,
         TaskDeleted, BakCrash, bakVars
<1>2. ASSUME UNCHANGED <<rpc, todo, at, made, site>> PROVE OfItems'
  BY <1>1, <1>2 DEF OfItems
<1>3. ASSUME NEW r \in Runs, RunStep(r) PROVE OfItems'
  <2> USE DEF RunGoto, Leave, backups, progress
  <2>1. CASE Start(r) \/ End(r)
    BY <1>0, <1>1, <2>1 DEF Start, End, OfItems
  <2>2. ASSUME NEW s \in Sites, TakeSite(r, s) PROVE OfItems'
    BY <1>0, <1>1, <2>2 DEF TakeSite, OfItems
  <2>3. CASE Pack(r) \/ PackFails(r)
    <3>1. /\ made' = made + 1 /\ site' = [site EXCEPT ![made + 1] = at[r]] /\ rpc[r] = "pack"
          /\ made + 1 \in Archives
      BY <1>0, <1>c, <2>3 DEF Pack, PackFails, Archives
    <3>2. \A a \in 1..(made + 1) : a # made + 1 => a \in 1..made
      BY <1>0
    <3>3. \A a \in 1..made' : site'[a] \in items
      BY <1>0, <3>1, <3>2 DEF OfItems
    <3>4. \A q \in Runs : /\ todo'[q] \subseteq items
                          /\ rpc'[q] \notin {"idle", "next"} => at'[q] \in items
      BY <1>0, <2>3 DEF Pack, PackFails, OfItems
    <3>5. QED
      BY <1>1, <3>3, <3>4 DEF OfItems
  <2>4. CASE Skip(r) \/ AddRow(r) \/ Link(r) \/ Save(r) \/ Count(r)
    <3>1. /\ rpc[r] \notin {"idle", "next"} /\ UNCHANGED <<todo, at, made, site>>
          /\ \E s : rpc' = [rpc EXCEPT ![r] = s]
      BY <2>4 DEF Skip, AddRow, Link, Save, Count
    <3>2. QED
      BY <1>0, <1>1, <3>1 DEF OfItems
  <2>5. CASE Pick(r) \/ Cleaned(r) \/ RemoveFile(r) \/ ForgetRow(r)
    <3>1. /\ rpc[r] \notin {"idle", "next"} /\ UNCHANGED <<todo, at, made, site>>
          /\ rpc' = rpc \/ \E s : rpc' = [rpc EXCEPT ![r] = s]
      BY <2>5 DEF Pick, Cleaned, RemoveFile, ForgetRow
    <3>2. QED
      BY <1>0, <1>1, <3>1 DEF OfItems
  <2>6. CASE RemoveFails(r)
    BY <1>0, <1>1, <2>6 DEF RemoveFails, OfItems
  <2>7. QED
    BY <1>3, <2>1, <2>2, <2>3, <2>4, <2>5, <2>6 DEF RunStep
<1>4. CASE (\E a \in Archives : UserPick(a)) \/ UserRemove \/ UserForget \/ TaskDeleted
  BY <1>2, <1>4 DEF UserPick, UserRemove, UserForget, TaskDeleted, backups, progress
<1>5. CASE BakCrash
  BY <1>1, <1>5 DEF BakCrash, backups, OfItems
<1>6. CASE UNCHANGED bakVars
  BY <1>2, <1>6 DEF bakVars, backups, progress
<1>7. QED
  BY <1>3, <1>4, <1>5, <1>6 DEF BakNext

(* A step that touches no row and no archive keeps them in order.          *)
LEMMA QuietStep ==
    ASSUME NEW u, RowsInOrder(u), UNCHANGED <<made, disk, rows>>,
           rpc[u] \notin {"row", "forget"}, rpc'[u] \notin {"row", "forget"}
    PROVE  RowsInOrder(u)'
  BY DEF RowsInOrder, Rowed

(* What a run of its own does to the order of the rows and archives.       *)
LEMMA OwnStep ==
    ASSUME NEW u, Runs = {u}, SaveNums > 0, BakTypeInv, OfItems, Tidy, Retained(u), RunStep(u), Tidy'
    PROVE  Retained(u)'
<1> DEFINE n == Len(rows)
<1> USE DEF RunGoto, Leave, backups, progress, user
<1>0. /\ rpc \in [Runs -> RunSteps] /\ u \in Runs /\ kind \in {"site", "dir"}
      /\ mine \in [Runs -> 0..MaxArchives] /\ left \in [Runs -> 0..MaxArchives]
      /\ old \in [Runs -> 0..MaxArchives]
  BY DEF BakTypeInv, BakNames, BakNumbers
<1>1. made \in Nat /\ MaxArchives \in Nat /\ SaveNums \in Nat /\ left[u] \in Nat
  BY <1>0, CronBackupsAssumption DEF BakTypeInv, BakNumbers
<1>2. /\ rows \in Seq(Archives) /\ n \in Nat /\ DOMAIN rows = 1..n /\ Distinct
      /\ \A i \in 1..n : rows[i] \in Nat
  <2>1. rows \in Seq(Archives) /\ Distinct
    BY DEF BakTypeInv, BakNumbers, BakKnown
  <2>2. n \in Nat /\ rows \in [1..n -> Archives]
    BY <2>1, LenProperties
  <2>3. \A a \in Archives : a \in Nat
    BY <1>1 DEF Archives
  <2>4. QED
    BY <2>1, <2>2, <2>3
<1>3. strays = {} /\ strays' = {} /\ userAt = "idle"
  BY DEF Tidy, Retained
<1>4. RowsInOrder(u) /\ FirstAndLast(u) /\ Surplus(u)
  BY DEF Retained
<1>5. CASE Start(u) \/ End(u)
  <2>1. /\ UNCHANGED <<made, disk, rows, userAt, kind>> /\ rpc[u] \in {"idle", "next"}
        /\ rpc'[u] \in {"idle", "next"}
    BY <1>0, <1>5 DEF Start, End
  <2>2. RowsInOrder(u)'
    BY <1>4, <2>1, QuietStep
  <2>3. FirstAndLast(u)' /\ Surplus(u)'
    BY <1>4, <2>1 DEF FirstAndLast, Surplus, HasPacked, Rowed
  <2>4. QED
    BY <1>3, <2>1, <2>2, <2>3 DEF Retained
<1>6. CASE \E s \in Sites : TakeSite(u, s)
  <2>1. /\ UNCHANGED <<made, disk, rows, userAt, kind>> /\ rpc[u] = "next" /\ rpc'[u] = "pack"
    BY <1>0, <1>6 DEF TakeSite
  <2>2. RowsInOrder(u)'
    BY <1>4, <2>1, QuietStep
  <2>3. FirstAndLast(u)' /\ Surplus(u)'
    BY <1>4, <2>1 DEF FirstAndLast, Surplus, HasPacked, Rowed
  <2>4. QED
    BY <1>3, <2>1, <2>2, <2>3 DEF Retained
<1>7. CASE Skip(u)
  <2>1. /\ UNCHANGED <<made, disk, rows, userAt, kind>> /\ rpc[u] = "pack"
        /\ rpc'[u] = IF kind = "site" THEN "count" ELSE "next"
    BY <1>0, <1>7 DEF Skip
  <2>2. RowsInOrder(u)'
    BY <1>4, <2>1, QuietStep
  <2>3. FirstAndLast(u)' /\ Surplus(u)'
    BY <1>0, <1>4, <2>1 DEF FirstAndLast, Surplus, HasPacked, Rowed
  <2>4. QED
    BY <1>3, <2>1, <2>2, <2>3 DEF Retained
<1>8. CASE Pack(u)
  <2>1. /\ UNCHANGED <<rows, userAt, kind>> /\ rpc[u] = "pack" /\ rpc'[u] = "row"
        /\ made' = made + 1 /\ disk' = disk \cup {made + 1} /\ mine'[u] = made + 1
    BY <1>0, <1>8 DEF Pack
  <2>2. Rowed(u) = made /\ Rowed(u)' = made
    BY <1>1, <2>1 DEF Rowed
  <2>3. ASSUME NEW a \in 1..made'
        PROVE  a \in disk' <=> made < a + n
    <3>1. CASE a = made + 1
      BY <1>1, <1>2, <2>1, <3>1
    <3>2. CASE a # made + 1
      <4>1. a \in 1..made
        BY <1>1, <2>1, <3>2
      <4>2. QED
        BY <1>4, <2>1, <2>2, <3>2, <4>1 DEF RowsInOrder
    <3>3. QED
      BY <3>1, <3>2
  <2>4. RowsInOrder(u)'
    BY <1>4, <2>1, <2>2, <2>3 DEF RowsInOrder
  <2>5. FirstAndLast(u)'
    BY <1>1, <2>1 DEF FirstAndLast
  <2>6. Surplus(u)'
    BY <1>4, <2>1, <2>2 DEF Surplus
  <2>7. QED
    BY <1>3, <2>1, <2>4, <2>5, <2>6 DEF Retained
<1>9. CASE PackFails(u) \/ RemoveFails(u)
  BY <1>3, <1>9 DEF PackFails, RemoveFails
<1>10. CASE AddRow(u)
  <2>1. /\ UNCHANGED <<made, disk, mine, userAt, kind>> /\ rpc[u] = "row"
        /\ rpc'[u] \in {"link", "count"} /\ (kind = "dir" => rpc'[u] = "count")
        /\ rows' = Append(rows, mine[u])
    BY <1>0, <1>10 DEF AddRow, AfterRow
  <2>2. Rowed(u) = made - 1 /\ Rowed(u)' = made
    BY <2>1 DEF Rowed
  <2>3. mine[u] = made /\ made > 0 /\ made \in Archives
    BY <1>1, <1>4, <2>1, AddRowEffect, <1>10, <1>0 DEF FirstAndLast, HasPacked
  <2>4. /\ Len(rows') = n + 1 /\ rows'[n + 1] = made
        /\ \A i \in 1..n : rows'[i] = rows[i]
    BY <1>2, <2>1, <2>3, AppendProperties
  <2>5. n <= made - 1 /\ \A i \in 1..n : rows[i] + n = made - 1 + i
    BY <1>4, <2>2 DEF RowsInOrder
  <2>6. ASSUME NEW i \in 1..(n + 1) PROVE rows'[i] + (n + 1) = made + i
    <3>1. CASE i = n + 1
      BY <1>1, <1>2, <2>4, <3>1
    <3>2. CASE i # n + 1
      <4>1. i \in 1..n
        BY <1>2, <3>2
      <4>2. rows'[i] = rows[i] /\ rows[i] + n = made - 1 + i /\ rows[i] \in Nat
        BY <1>2, <2>4, <2>5, <4>1
      <4>3. \A x, k, m, l \in Int : x + k = m - 1 + l => x + (k + 1) = m + l
        OBVIOUS
      <4>4. rows[i] \in Int /\ n \in Int /\ made \in Int /\ i \in Int
        BY <1>1, <1>2, <4>1
      <4>5. QED
        BY <4>2, <4>3, <4>4
    <3>3. QED
      BY <3>1, <3>2
  <2>7. ASSUME NEW a \in 1..made PROVE a \in disk <=> made < a + (n + 1)
    <3>1. a \in disk <=> made - 1 < a + n
      BY <1>4, <2>1, <2>2 DEF RowsInOrder
    <3>2. \A x, k, m \in Int : m - 1 < x + k <=> m < x + (k + 1)
      OBVIOUS
    <3>3. QED
      BY <1>1, <1>2, <3>1, <3>2
  <2>8. RowsInOrder(u)'
    <3>1. Len(rows') <= made
      BY <1>1, <1>2, <2>4, <2>5
    <3>2. QED
      BY <2>1, <2>2, <2>4, <2>6, <2>7, <3>1 DEF RowsInOrder
  <2>9. FirstAndLast(u)'
    BY <2>1, <2>3 DEF FirstAndLast
  <2>10. Surplus(u)'
    <3>1. n >= SaveNums \/ n = made - 1
      BY <1>4, <2>2 DEF Surplus
    <3>2. n + 1 >= SaveNums \/ n + 1 = made
      BY <1>1, <1>2, <3>1
    <3>3. QED
      BY <2>1, <2>2, <2>4, <3>2 DEF Surplus
  <2>11. QED
    BY <1>3, <2>1, <2>8, <2>9, <2>10 DEF Retained
<1>11. CASE Link(u)
  <2>1. /\ UNCHANGED <<made, disk, rows, userAt, kind, mine>> /\ rpc[u] = "link"
        /\ rpc'[u] = (IF task THEN "save" ELSE IF kind = "site" THEN "count" ELSE "next")
    BY <1>0, <1>11 DEF Link, AfterLink
  <2>2. RowsInOrder(u)'
    BY <1>4, <2>1, QuietStep
  <2>3. FirstAndLast(u)'
    BY <1>0, <1>4, <2>1 DEF FirstAndLast, HasPacked
  <2>4. Surplus(u)'
    BY <1>0, <1>4, <2>1 DEF Surplus, Rowed
  <2>5. QED
    BY <1>3, <2>1, <2>2, <2>3, <2>4 DEF Retained
<1>12. CASE Save(u)
  <2>1. /\ UNCHANGED <<made, disk, userAt, kind>> /\ rpc[u] = "save"
        /\ rpc'[u] = (IF kind = "site" THEN "count" ELSE "next")
    BY <1>0, <1>12 DEF Save, AfterLink
  <2>2. mine[u] = made /\ made > 0 /\ Rowed(u) = made
    BY <1>4, <2>1 DEF FirstAndLast, HasPacked, Rowed
  <2>3. n > 0
    <3>1. n >= SaveNums \/ n = made
      BY <1>4, <2>2 DEF Surplus
    <3>2. \A k, x, m \in Nat : m > 0 /\ x > 0 /\ (k >= x \/ k = m) => k > 0
      OBVIOUS
    <3>3. n \in Nat /\ SaveNums \in Nat /\ made \in Nat /\ made > 0 /\ SaveNums > 0
      BY <1>1, <1>2, <2>2
    <3>4. QED
      BY <3>1, <3>2, <3>3
  <2>4. rows[n] + n = made + n /\ rows[n] \in Nat
    BY <1>2, <1>4, <2>2, <2>3 DEF RowsInOrder
  <2>5. rows[n] = mine[u]
    BY <1>1, <1>2, <2>2, <2>4
  <2>6. Contains(rows, mine[u])
    BY <1>2, <2>3, <2>5 DEF Contains
  <2>7. rows' = rows
    BY <1>12, <2>6 DEF Save
  <2>8. RowsInOrder(u)'
    BY <1>0, <1>4, <2>1, <2>7, QuietStep
  <2>9. FirstAndLast(u)' /\ Surplus(u)'
    BY <1>0, <1>4, <2>1, <2>7 DEF FirstAndLast, Surplus, HasPacked, Rowed
  <2>10. QED
    BY <1>3, <2>1, <2>8, <2>9 DEF Retained
<1>13. CASE Count(u)
  <2>1. /\ UNCHANGED <<made, disk, rows, userAt, kind, mine>> /\ rpc[u] = "count" /\ rpc'[u] = "pick"
        /\ left'[u] = (IF n > SaveNums THEN n - SaveNums ELSE 0)
    BY <1>0, <1>13 DEF Count
  <2>2. RowsInOrder(u)'
    BY <1>4, <2>1, QuietStep
  <2>3. FirstAndLast(u)'
    BY <1>4, <2>1 DEF FirstAndLast, HasPacked
  <2>4. Surplus(u)'
    BY <1>4, <2>1 DEF Surplus, Rowed
  <2>5. QED
    BY <1>3, <2>1, <2>2, <2>3, <2>4 DEF Retained
<1>14. CASE Pick(u)
  <2>1. /\ UNCHANGED <<made, disk, rows, userAt, kind, mine>> /\ rpc[u] = "pick" /\ left[u] > 0
    BY <1>14 DEF Pick
  <2>2. n > SaveNums /\ n > 0
    <3>1. left[u] = (IF n > SaveNums THEN n - SaveNums ELSE 0)
      BY <1>4, <2>1 DEF Surplus
    <3>2. QED
      BY <1>1, <1>2, <2>1, <3>1
  <2>3. 1 \in Candidates(u)
    <3>1. rows[1] \in 1..made /\ 1 \in 1..n
      BY <1>2, <2>2 DEF BakTypeInv, BakKnown, Listed, ToSet
    <3>2. site[rows[1]] = at[u]
      BY <2>1, <3>1 DEF OfItems, Tidy
    <3>3. QED
      BY <3>1, <3>2 DEF Candidates
  <2>4. /\ old' = [old EXCEPT ![u] = rows[1]] /\ rpc' = [rpc EXCEPT ![u] = "drop"]
        /\ UNCHANGED left
    <3>1. PICK i \in Candidates(u) :
            /\ Turn(u, i) /\ old' = [old EXCEPT ![u] = rows[i]] /\ rpc' = [rpc EXCEPT ![u] = "drop"]
            /\ UNCHANGED left
      BY <1>14, <2>3 DEF Pick
    <3>2. i = 1
      BY <1>2, <2>3, <3>1 DEF Turn, Candidates
    <3>3. QED
      BY <3>1, <3>2
  <2>5. old'[u] = rows[1] /\ rpc'[u] = "drop" /\ left'[u] = left[u]
    BY <1>0, <2>4
  <2>6. RowsInOrder(u)'
    BY <1>4, <2>1, <2>5, QuietStep
  <2>7. FirstAndLast(u)'
    BY <1>4, <2>1, <2>5 DEF FirstAndLast, HasPacked
  <2>8. Surplus(u)'
    BY <1>4, <2>1, <2>2, <2>5 DEF Surplus, Rowed
  <2>9. QED
    BY <1>3, <2>1, <2>6, <2>7, <2>8 DEF Retained
<1>15. CASE Cleaned(u)
  <2>1. /\ UNCHANGED <<made, disk, rows, userAt, kind, mine>> /\ rpc[u] = "pick" /\ left[u] = 0
        /\ rpc'[u] = (IF kind = "site" THEN "next" ELSE "link")
    BY <1>0, <1>15 DEF Cleaned, AfterDrop
  <2>2. n <= SaveNums
    <3>1. left[u] = (IF n > SaveNums THEN n - SaveNums ELSE 0)
      BY <1>4, <2>1 DEF Surplus
    <3>2. QED
      BY <1>1, <1>2, <2>1, <3>1
  <2>3. RowsInOrder(u)'
    BY <1>4, <2>1, QuietStep
  <2>4. FirstAndLast(u)'
    BY <1>0, <1>4, <2>1 DEF FirstAndLast, HasPacked
  <2>5. Surplus(u)'
    BY <1>0, <1>4, <2>1, <2>2 DEF Surplus, Rowed
  <2>6. QED
    BY <1>3, <2>1, <2>3, <2>4, <2>5 DEF Retained
<1>16. CASE RemoveFile(u)
  <2>1. /\ UNCHANGED <<made, rows, userAt, kind, mine, old, left>> /\ rpc[u] = "drop"
        /\ rpc'[u] = "forget" /\ disk' = disk \ {old[u]}
    BY <1>0, <1>16 DEF RemoveFile
  <2>2. Rowed(u)' = made /\ Rowed(u) = made
    BY <2>1 DEF Rowed
  <2>3. RowsInOrder(u)'
    BY <1>4, <2>1, <2>2 DEF RowsInOrder
  <2>4. FirstAndLast(u)'
    BY <1>4, <2>1 DEF FirstAndLast, HasPacked
  <2>5. Surplus(u)'
    BY <1>4, <2>1, <2>2 DEF Surplus
  <2>6. QED
    BY <1>3, <2>1, <2>3, <2>4, <2>5 DEF Retained
<1>17. CASE ForgetRow(u)
  <2>1. /\ UNCHANGED <<made, disk, userAt, kind, mine>> /\ rpc[u] = "forget" /\ rpc'[u] = "pick"
        /\ left'[u] = left[u] - 1 /\ DeleteRow(old[u])
    BY <1>0, <1>17 DEF ForgetRow
  <2>2. /\ n > SaveNums /\ n >= 1 /\ n <= made /\ left[u] = n - SaveNums
        /\ old[u] = rows[1] /\ Rowed(u) = made /\ Rowed(u)' = made
    <3>1. n > SaveNums /\ left[u] = n - SaveNums /\ old[u] = rows[1]
      BY <1>4, <2>1 DEF FirstAndLast, Surplus
    <3>2. Rowed(u) = made /\ Rowed(u)' = made
      BY <2>1 DEF Rowed
    <3>3. n <= made
      BY <1>4, <3>2 DEF RowsInOrder
    <3>4. QED
      BY <1>1, <1>2, <3>1, <3>2, <3>3
  <2>3. rows' = RemoveAt(rows, 1)
    <3>1. 1 \in 1..n
      BY <1>2, <2>2
    <3>2. Contains(rows, old[u])
      BY <1>2, <2>2, <3>1 DEF Contains
    <3>3. PICK i \in 1..n : rows[i] = old[u] /\ rows' = RemoveAt(rows, i)
      BY <2>1, <3>2 DEF DeleteRow
    <3>4. i = 1
      BY <1>2, <2>2, <3>1, <3>3 DEF Distinct
    <3>5. QED
      BY <3>3, <3>4
  <2>4. Len(rows') = n - 1 /\ \A i \in 1..(n - 1) : rows'[i] = rows[i + 1]
    <3>1. 1 \in 1..n /\ \A i \in 1..(n - 1) : ~(i < 1)
      BY <1>2, <2>2
    <3>2. QED
      BY <1>2, <2>3, <3>1, RemoveAtIsSeq
  <2>5. ASSUME NEW i \in 1..(n - 1) PROVE rows'[i] + (n - 1) = made + i
    <3>1. i + 1 \in 1..n /\ rows[i + 1] \in Int /\ rows'[i] = rows[i + 1] /\ i \in Int
      BY <1>2, <2>2, <2>4
    <3>2. rows[i + 1] + n = made + (i + 1)
      BY <1>4, <2>2, <3>1 DEF RowsInOrder
    <3>3. \A x, k, m, l \in Int : x + k = m + (l + 1) => x + (k - 1) = m + l
      OBVIOUS
    <3>4. QED
      BY <1>1, <1>2, <3>1, <3>2, <3>3
  <2>6. old[u] + n = made + 1 /\ old[u] \in Nat
    BY <1>2, <1>4, <2>2 DEF RowsInOrder
  <2>7. ASSUME NEW a \in 1..made PROVE a \in disk <=> made < a + (n - 1)
    <3>1. a \in disk <=> made < a + n /\ a # old[u]
      BY <1>4, <2>1, <2>2 DEF RowsInOrder
    <3>2. QED
      BY <1>1, <1>2, <2>6, <3>1
  <2>8. RowsInOrder(u)'
    <3>1. Len(rows') <= made
      BY <1>1, <1>2, <2>2, <2>4
    <3>2. QED
      BY <2>1, <2>2, <2>4, <2>5, <2>7, <3>1 DEF RowsInOrder
  <2>9. FirstAndLast(u)'
    BY <1>4, <2>1 DEF FirstAndLast, HasPacked
  <2>10. Surplus(u)'
    <3>1. /\ n - 1 >= SaveNums
          /\ left[u] - 1 = (IF n - 1 > SaveNums THEN n - 1 - SaveNums ELSE 0)
      BY <1>1, <1>2, <2>2
    <3>2. QED
      BY <2>1, <2>4, <3>1 DEF Surplus
  <2>11. QED
    BY <1>3, <2>1, <2>8, <2>9, <2>10 DEF Retained
<1>20. QED
  BY <1>5, <1>6, <1>7, <1>8, <1>9, <1>10, <1>11, <1>12, <1>13, <1>14, <1>15, <1>16, <1>17 DEF RunStep

(* While nothing goes wrong, rows and archives stay those of the last      *)
(* backups, whatever the run is at.                                        *)
LEMMA RetainedStep ==
    ASSUME NEW u, Runs = {u}, SaveNums > 0, BakTypeInv, KeepInv(u), [BakNext]_bakVars
    PROVE  KeepInv(u)'
<1>1. OfItems /\ OfItems'
  BY OfItemsStep DEF KeepInv
<1>2. SUFFICES ASSUME Tidy' PROVE Retained(u)'
  BY <1>1 DEF KeepInv
<1>3. Tidy
  <2>1. items' = items
    BY DEF BakNext, RunStep, Start, TakeSite, End, Skip, Pack, PackFails, AddRow, Link, Save, Count,
           Pick, Cleaned, RemoveFile, RemoveFails, ForgetRow, UserPick, UserRemove, UserForget,
           TaskDeleted, BakCrash, bakVars
  <2>2. strays \subseteq strays'
    BY DEF BakNext, RunStep, Start, TakeSite, End, Skip, Pack, PackFails, AddRow, Link, Save, Count,
           Pick, Cleaned, RemoveFile, RemoveFails, ForgetRow, UserPick, UserRemove, UserForget,
           TaskDeleted, BakCrash, bakVars
  <2>3. deletes' = deletes \/ deletes' = deletes + 1
    BY DEF BakNext, RunStep, Start, TakeSite, End, Skip, Pack, PackFails, AddRow, Link, Save, Count,
           Pick, Cleaned, RemoveFile, RemoveFails, ForgetRow, UserPick, UserRemove, UserForget,
           TaskDeleted, BakCrash, bakVars, user
  <2>4. deletes \in Nat
    BY CronBackupsAssumption DEF BakTypeInv, BakNumbers
  <2>5. deletes = 0
    BY <1>2, <2>3, <2>4 DEF Tidy
  <2>6. QED
    BY <1>2, <2>1, <2>2, <2>5 DEF Tidy
<1>4. Retained(u)
  BY <1>3 DEF KeepInv
<1>5. CASE \E r \in Runs : RunStep(r)
  BY <1>1, <1>2, <1>3, <1>4, <1>5, OwnStep
<1>6. CASE \E a \in Archives : UserPick(a)
  <2>1. deletes \in Nat /\ deletes' = deletes + 1
    BY <1>6, CronBackupsAssumption DEF UserPick, BakTypeInv, BakNumbers
  <2>2. QED
    BY <1>2, <2>1 DEF Tidy
<1>7. CASE UserRemove \/ UserForget
  BY <1>4, <1>7 DEF UserRemove, UserForget, Retained
<1>8. CASE TaskDeleted \/ UNCHANGED bakVars
  <2>1. UNCHANGED <<made, disk, rows, userAt, kind, mine, rpc, left, old>>
    BY <1>8 DEF TaskDeleted, bakVars, backups, progress, user
  <2>2. QED
    BY <1>4, <2>1 DEF Retained, RowsInOrder, FirstAndLast, Surplus, HasPacked, Rowed
<1>9. CASE BakCrash
  <2>1. rpc[u] \in {"idle", "next", "pack"}
    BY <1>2, <1>9 DEF Tidy, BakCrash
  <2>2. /\ UNCHANGED <<made, disk, rows, kind>> /\ userAt' = "idle" /\ rpc'[u] = "idle"
    BY <1>9 DEF BakCrash, backups
  <2>3. RowsInOrder(u) /\ Surplus(u)
    BY <1>4 DEF Retained
  <2>4. RowsInOrder(u)'
    BY <2>1, <2>2, <2>3, QuietStep
  <2>5. FirstAndLast(u)' /\ Surplus(u)'
    BY <2>1, <2>2, <2>3 DEF FirstAndLast, Surplus, HasPacked, Rowed
  <2>6. QED
    BY <2>2, <2>4, <2>5 DEF Retained
<1>10. QED
  BY <1>5, <1>6, <1>7, <1>8, <1>9 DEF BakNext

LEMMA RetainedInit == ASSUME NEW u, Runs = {u}, BakInit PROVE KeepInv(u)
<1>1. /\ made = 0 /\ rows = <<>> /\ rpc[u] = "idle" /\ userAt = "idle"
      /\ \A r \in Runs : todo[r] = {} /\ rpc[r] = "idle"
  BY DEF BakInit
<1>2. OfItems
  BY <1>1 DEF OfItems
<1>3. Len(rows) = 0 /\ Rowed(u) = 0
  BY <1>1 DEF Rowed
<1>4. RowsInOrder(u) /\ FirstAndLast(u) /\ Surplus(u)
  BY <1>1, <1>3, CronBackupsAssumption DEF RowsInOrder, FirstAndLast, Surplus, HasPacked
<1>5. QED
  BY <1>1, <1>2, <1>4 DEF KeepInv, Retained

(* With a single site or directory and one run at a time the retention is  *)
(* right: of all the archives ever packed the last SaveNums are kept, also *)
(* while a run is under way, and none but those once it is done.           *)
THEOREM NewestAreKept ==
    ASSUME NEW u, Runs = {u}, SaveNums > 0
    PROVE  BakSpec => []KeepsNewest
<1>1. BakInit => KeepInv(u)
  BY RetainedInit
<1>2. BakTypeInv /\ KeepInv(u) /\ [BakNext]_bakVars => KeepInv(u)'
  BY RetainedStep
<1>3. BakTypeInv /\ KeepInv(u) => KeepsNewest
  <2> SUFFICES ASSUME BakTypeInv, KeepInv(u), Tidy
               PROVE  /\ \A a \in 1..made : made < a + SaveNums => a \in disk
                      /\ rpc[u] = "idle" => \A a \in disk : made < a + SaveNums
    BY DEF KeepsNewest
  <2> DEFINE n == Len(rows)
  <2>1. RowsInOrder(u) /\ Surplus(u) /\ FirstAndLast(u)
    BY DEF KeepInv, Retained
  <2>2. /\ made \in Nat /\ SaveNums \in Nat /\ n \in Nat /\ disk \subseteq 1..made
        /\ (n > 0 => rows[1] \in Nat)
    <3>1. made \in Nat /\ rows \in Seq(Archives) /\ MaxArchives \in Nat
      BY CronBackupsAssumption DEF BakTypeInv, BakNumbers
    <3>2. n \in Nat /\ \A i \in 1..n : rows[i] \in Archives
      BY <3>1, LenProperties
    <3>3. n > 0 => rows[1] \in Nat
      BY <3>1, <3>2 DEF Archives
    <3>4. QED
      BY <3>1, <3>2, <3>3, CronBackupsAssumption DEF BakTypeInv, BakKnown
  <2>3. ASSUME NEW a \in 1..made, made < a + SaveNums PROVE a \in disk
    <3>1. CASE rpc[u] = "forget"
      <4>1. n > SaveNums /\ Rowed(u) = made /\ old[u] = rows[1]
        BY <2>1, <3>1 DEF Surplus, FirstAndLast, Rowed
      <4>2. rows[1] + n = made + 1
        BY <2>1, <2>2, <4>1 DEF RowsInOrder
      <4>3. made < a + n /\ a # old[u]
        BY <2>2, <2>3, <4>1, <4>2
      <4>4. QED
        BY <2>1, <4>1, <4>3 DEF RowsInOrder
    <3>2. CASE rpc[u] # "forget"
      <4>1. n >= SaveNums \/ n = Rowed(u)
        BY <2>1 DEF Surplus
      <4>2. Rowed(u) <= made /\ Rowed(u) \in Int
        BY <2>2 DEF Rowed
      <4>3. Rowed(u) < a + n
        BY <2>2, <2>3, <4>1, <4>2
      <4>4. QED
        BY <2>1, <3>2, <4>3 DEF RowsInOrder
    <3>3. QED
      BY <3>1, <3>2
  <2>4. ASSUME rpc[u] = "idle", NEW a \in disk PROVE made < a + SaveNums
    <3>1. n <= SaveNums /\ Rowed(u) = made
      BY <2>1, <2>4 DEF Surplus, Rowed
    <3>2. a \in 1..made /\ made < a + n
      BY <2>1, <2>2, <3>1 DEF RowsInOrder
    <3>3. QED
      BY <2>2, <3>1, <3>2
  <2>5. QED
    BY <2>3, <2>4
<1>4. QED
  BY BakTypeHolds, <1>1, <1>2, <1>3, PTL DEF BakSpec

-----------------------------------------------------------------------------
(* PanelUpgrade.                                                           *)
(* The files an upgrade may change.                                        *)
Touched == Replaced \cup Web

(* An upgrade under way has no outcome yet and works on touched files; the *)
(* first attempt alone copies, and nothing is changed before the backup.   *)
UnderWay ==
    /\ upc # "idle" => outcome = "none" /\ attempt \in 1..Attempts /\ visit \subseteq Touched
    /\ upc \in {"backup", "update"} /\ visit # {} => attempt = 1
    /\ upc = "backup" => panel = before /\ attempt = 1

Outside == \A f \in Files \ Touched : panel[f] = before[f]

(* What the upgrade may change and was there before is in the backup.      *)
Backed ==
    \A f \in Touched \ spoiled :
        /\ upc \in {"update", "restore", "rollback"} \/ (upc = "backup" /\ f \notin visit)
        /\ before[f] # "none"
        => bak[f] = before[f]

(* What the comparison of a later attempt passes over.                     *)
PassedOver ==
    upc = "update" /\ attempt > 1 =>
        visit = {} /\ \A f \in package \ differ : panel[f] \in {"new", "none"}

Restored ==
    upc = "rollback" => \A f \in Touched \ (spoiled \cup visit) :
        before[f] # "none" => panel[f] = before[f]

UpgInv ==
    /\ UpgTypeOK /\ UnderWay /\ Outside /\ Backed /\ PassedOver /\ Restored
    /\ SuccessLeavesNoOld /\ RollbackRestores /\ ChangedIsBackedUp

LEMMA InitUpgInv == UpgInit => UpgInv
  BY SMTT(30), UpgradeAssumption DEF UpgInit, UpgInv, UpgTypeOK, UnderWay, Outside, Backed, PassedOver, Restored,
       SuccessLeavesNoOld, RollbackRestores, ChangedIsBackedUp, Contents, Attempts

-----------------------------------------------------------------------------
(* Every action keeps the types.                                           *)
LEMMA UpgTypeStep == UpgTypeOK /\ [UpgNext]_upgVars => UpgTypeOK'
<1> SUFFICES ASSUME UpgTypeOK, [UpgNext]_upgVars PROVE UpgTypeOK'
  OBVIOUS
<1> USE DEF UpgTypeOK, Areas, Contents, Attempts, release, trace, Replaced, Web, Touched
<1>1. CASE UNCHANGED upgVars
  BY <1>1 DEF upgVars
<1>2. CASE Begin
  BY <1>2, UpgradeAssumption DEF Begin, NoBackup, Keep
<1>3. CASE BeginRefused
  BY <1>3, UpgradeAssumption DEF BeginRefused, Keep
<1>4. CASE BackupFails
  BY <1>4 DEF BackupFails, Keep
<1>5. CASE CheckFails
  BY <1>5 DEF CheckFails
<1>6. ASSUME NEW f \in Files, BackupCopy(f) PROVE UpgTypeOK'
  BY <1>6 DEF BackupCopy, Copied
<1>7. ASSUME NEW f \in Files, UpdateCopy(f) PROVE UpgTypeOK'
  BY <1>7 DEF UpdateCopy, Copied
<1>8. ASSUME NEW f \in Files, RestoreCopy(f) PROVE UpgTypeOK'
  BY <1>8 DEF RestoreCopy, Copied
<1>9. CASE DeleteWeb("backup", "update", {f \in package : area[f] # "data"})
  BY <1>9 DEF DeleteWeb
<1>10. CASE DeleteWeb("restore", "rollback", ToRestore)
  BY <1>10 DEF DeleteWeb, ToRestore
<1>11. CASE DeleteWebFails("backup") \/ DeleteWebFails("restore")
  BY <1>11 DEF DeleteWebFails
<1>12. CASE Again
  BY <1>12 DEF Again, Differ, Compared
<1>13. CASE GiveUp \/ UpdateStops
  BY <1>13 DEF GiveUp, UpdateStops
<1>14. CASE Succeed
  BY <1>14 DEF Succeed, Differ, Missing, Compared, NoBackup, Keep
<1>15. CASE RolledBack \/ RollbackStops
  BY <1>15 DEF RolledBack, RollbackStops, Keep
<1>16. CASE Killed
  BY <1>16 DEF Killed
<1> QED BY <1>1, <1>2, <1>3, <1>4, <1>5, <1>6, <1>7, <1>8, <1>9, <1>10, <1>11, <1>12, <1>13, <1>14, <1>15, <1>16 DEF UpgNext

(* Only copies of the first attempt and of the backup visit files.         *)
LEMMA UnderWayStep == UpgTypeOK /\ UnderWay /\ [UpgNext]_upgVars => UnderWay'
<1> SUFFICES ASSUME UpgTypeOK, UnderWay, [UpgNext]_upgVars PROVE UnderWay'
  OBVIOUS
<1> USE DEF UpgTypeOK, Areas, Contents, Attempts, release, trace, UnderWay, Replaced, Web, Touched
<1>1. CASE UNCHANGED upgVars
  BY <1>1 DEF upgVars
<1>2. CASE Begin
  BY <1>2 DEF Begin, NoBackup, Keep
<1>3. CASE BeginRefused
  BY <1>3 DEF BeginRefused, Keep
<1>4. CASE BackupFails
  BY <1>4 DEF BackupFails, Keep
<1>5. CASE CheckFails
  BY <1>5 DEF CheckFails
<1>6. ASSUME NEW f \in Files, BackupCopy(f) PROVE UnderWay'
  BY <1>6 DEF BackupCopy, Copied
<1>7. ASSUME NEW f \in Files, UpdateCopy(f) PROVE UnderWay'
  BY <1>7 DEF UpdateCopy, Copied
<1>8. ASSUME NEW f \in Files, RestoreCopy(f) PROVE UnderWay'
  BY <1>8 DEF RestoreCopy, Copied
<1>9. CASE DeleteWeb("backup", "update", {f \in package : area[f] # "data"})
  BY <1>9 DEF DeleteWeb
<1>10. CASE DeleteWeb("restore", "rollback", ToRestore)
  BY <1>10 DEF DeleteWeb, ToRestore
<1>11. CASE DeleteWebFails("backup") \/ DeleteWebFails("restore")
  BY <1>11 DEF DeleteWebFails
<1>12. CASE Again
  BY <1>12 DEF Again, Differ, Compared
<1>13. CASE GiveUp \/ UpdateStops
  BY <1>13 DEF GiveUp, UpdateStops
<1>14. CASE Succeed
  BY <1>14 DEF Succeed, Differ, Missing, Compared, NoBackup, Keep
<1>15. CASE RolledBack \/ RollbackStops
  BY <1>15 DEF RolledBack, RollbackStops, Keep
<1>16. CASE Killed
  BY <1>16 DEF Killed
<1> QED BY <1>1, <1>2, <1>3, <1>4, <1>5, <1>6, <1>7, <1>8, <1>9, <1>10, <1>11, <1>12, <1>13, <1>14, <1>15, <1>16 DEF UpgNext

(* No step writes a file outside what the upgrade may touch.               *)
LEMMA OutsideStep == UpgTypeOK /\ UnderWay /\ Outside /\ [UpgNext]_upgVars => Outside'
<1> SUFFICES ASSUME UpgTypeOK, UnderWay, Outside, [UpgNext]_upgVars PROVE Outside'
  OBVIOUS
<1> USE DEF UpgTypeOK, Areas, Contents, Attempts, release, trace, UnderWay, Outside, Replaced, Web, Touched
<1>1. CASE UNCHANGED upgVars
  BY <1>1 DEF upgVars
<1>2. CASE Begin
  BY <1>2 DEF Begin, NoBackup, Keep
<1>3. CASE BeginRefused
  BY <1>3 DEF BeginRefused, Keep
<1>4. CASE BackupFails
  BY <1>4 DEF BackupFails, Keep
<1>5. CASE CheckFails
  BY <1>5 DEF CheckFails
<1>6. ASSUME NEW f \in Files, BackupCopy(f) PROVE Outside'
  BY <1>6 DEF BackupCopy, Copied
<1>7. ASSUME NEW f \in Files, UpdateCopy(f) PROVE Outside'
  BY <1>7 DEF UpdateCopy, Copied
<1>8. ASSUME NEW f \in Files, RestoreCopy(f) PROVE Outside'
  BY <1>8 DEF RestoreCopy, Copied
<1>9. CASE DeleteWeb("backup", "update", {f \in package : area[f] # "data"})
  BY <1>9 DEF DeleteWeb
<1>10. CASE DeleteWeb("restore", "rollback", ToRestore)
  BY <1>10 DEF DeleteWeb, ToRestore
<1>11. CASE DeleteWebFails("backup") \/ DeleteWebFails("restore")
  BY <1>11 DEF DeleteWebFails
<1>12. CASE Again
  BY <1>12 DEF Again, Differ, Compared
<1>13. CASE GiveUp \/ UpdateStops
  BY <1>13 DEF GiveUp, UpdateStops
<1>14. CASE Succeed
  BY <1>14 DEF Succeed, Differ, Missing, Compared, NoBackup, Keep
<1>15. CASE RolledBack \/ RollbackStops
  BY <1>15 DEF RolledBack, RollbackStops, Keep
<1>16. CASE Killed
  BY <1>16 DEF Killed
<1> QED BY <1>1, <1>2, <1>3, <1>4, <1>5, <1>6, <1>7, <1>8, <1>9, <1>10, <1>11, <1>12, <1>13, <1>14, <1>15, <1>16 DEF UpgNext

(* The backup is complete before the first file is changed, and stays.     *)
LEMMA BackedStep == UpgTypeOK /\ UnderWay /\ Backed /\ [UpgNext]_upgVars => Backed'
<1> SUFFICES ASSUME UpgTypeOK, UnderWay, Backed, [UpgNext]_upgVars PROVE Backed'
  OBVIOUS
<1> USE DEF UpgTypeOK, Areas, Contents, Attempts, release, trace, UnderWay, Backed, Present, Replaced, Web, Touched
<1>1. CASE UNCHANGED upgVars
  BY <1>1 DEF upgVars
<1>2. CASE Begin
  BY <1>2 DEF Begin, NoBackup, Keep
<1>3. CASE BeginRefused
  BY <1>3 DEF BeginRefused, Keep
<1>4. CASE BackupFails
  BY <1>4 DEF BackupFails, Keep
<1>5. CASE CheckFails
  BY <1>5 DEF CheckFails
<1>6. ASSUME NEW f \in Files, BackupCopy(f) PROVE Backed'
  BY <1>6 DEF BackupCopy, Copied
<1>7. ASSUME NEW f \in Files, UpdateCopy(f) PROVE Backed'
  BY <1>7 DEF UpdateCopy, Copied
<1>8. ASSUME NEW f \in Files, RestoreCopy(f) PROVE Backed'
  BY <1>8 DEF RestoreCopy, Copied
<1>9. CASE DeleteWeb("backup", "update", {f \in package : area[f] # "data"})
  BY <1>9 DEF DeleteWeb
<1>10. CASE DeleteWeb("restore", "rollback", ToRestore)
  BY <1>10 DEF DeleteWeb, ToRestore
<1>11. CASE DeleteWebFails("backup") \/ DeleteWebFails("restore")
  BY <1>11 DEF DeleteWebFails
<1>12. CASE Again
  BY <1>12 DEF Again, Differ, Compared
<1>13. CASE GiveUp \/ UpdateStops
  BY <1>13 DEF GiveUp, UpdateStops
<1>14. CASE Succeed
  BY <1>14 DEF Succeed, Differ, Missing, Compared, NoBackup, Keep
<1>15. CASE RolledBack \/ RollbackStops
  BY <1>15 DEF RolledBack, RollbackStops, Keep
<1>16. CASE Killed
  BY <1>16 DEF Killed
<1> QED BY <1>1, <1>2, <1>3, <1>4, <1>5, <1>6, <1>7, <1>8, <1>9, <1>10, <1>11, <1>12, <1>13, <1>14, <1>15, <1>16 DEF UpgNext

(* Later attempts compare what was different, and change nothing.          *)
LEMMA PassedOverStep == UpgTypeOK /\ UnderWay /\ PassedOver /\ [UpgNext]_upgVars => PassedOver'
<1> SUFFICES ASSUME UpgTypeOK, UnderWay, PassedOver, [UpgNext]_upgVars PROVE PassedOver'
  OBVIOUS
<1> USE DEF UpgTypeOK, Areas, Contents, Attempts, release, trace, UnderWay, PassedOver, Replaced, Web, Touched
<1>1. CASE UNCHANGED upgVars
  BY <1>1 DEF upgVars
<1>2. CASE Begin
  BY <1>2 DEF Begin, NoBackup, Keep
<1>3. CASE BeginRefused
  BY <1>3 DEF BeginRefused, Keep
<1>4. CASE BackupFails
  BY <1>4 DEF BackupFails, Keep
<1>5. CASE CheckFails
  BY <1>5 DEF CheckFails
<1>6. ASSUME NEW f \in Files, BackupCopy(f) PROVE PassedOver'
  BY <1>6 DEF BackupCopy, Copied
<1>7. ASSUME NEW f \in Files, UpdateCopy(f) PROVE PassedOver'
  BY <1>7 DEF UpdateCopy, Copied
<1>8. ASSUME NEW f \in Files, RestoreCopy(f) PROVE PassedOver'
  BY <1>8 DEF RestoreCopy, Copied
<1>9. CASE DeleteWeb("backup", "update", {f \in package : area[f] # "data"})
  BY <1>9 DEF DeleteWeb
<1>10. CASE DeleteWeb("restore", "rollback", ToRestore)
  BY <1>10 DEF DeleteWeb, ToRestore
<1>11. CASE DeleteWebFails("backup") \/ DeleteWebFails("restore")
  BY <1>11 DEF DeleteWebFails
<1>12. CASE Again
  BY <1>12 DEF Again, Differ, Compared
<1>13. CASE GiveUp \/ UpdateStops
  BY <1>13 DEF GiveUp, UpdateStops
<1>14. CASE Succeed
  BY <1>14 DEF Succeed, Differ, Missing, Compared, NoBackup, Keep
<1>15. CASE RolledBack \/ RollbackStops
  BY <1>15 DEF RolledBack, RollbackStops, Keep
<1>16. CASE Killed
  BY <1>16 DEF Killed
<1> QED BY <1>1, <1>2, <1>3, <1>4, <1>5, <1>6, <1>7, <1>8, <1>9, <1>10, <1>11, <1>12, <1>13, <1>14, <1>15, <1>16 DEF UpgNext

(* Each file that the rollback has visited is as it was before.            *)
LEMMA RestoredStep == UpgTypeOK /\ UnderWay /\ Backed /\ Restored /\ [UpgNext]_upgVars => Restored'
<1> SUFFICES ASSUME UpgTypeOK, UnderWay, Backed, Restored, [UpgNext]_upgVars PROVE Restored'
  OBVIOUS
<1> USE DEF UpgTypeOK, Areas, Contents, Attempts, release, trace, UnderWay, Backed, Restored, Replaced, Web, Touched
<1>1. CASE UNCHANGED upgVars
  BY <1>1 DEF upgVars
<1>2. CASE Begin
  BY <1>2 DEF Begin, NoBackup, Keep
<1>3. CASE BeginRefused
  BY <1>3 DEF BeginRefused, Keep
<1>4. CASE BackupFails
  BY <1>4 DEF BackupFails, Keep
<1>5. CASE CheckFails
  BY <1>5 DEF CheckFails
<1>6. ASSUME NEW f \in Files, BackupCopy(f) PROVE Restored'
  BY <1>6 DEF BackupCopy, Copied
<1>7. ASSUME NEW f \in Files, UpdateCopy(f) PROVE Restored'
  BY <1>7 DEF UpdateCopy, Copied
<1>8. ASSUME NEW f \in Files, RestoreCopy(f) PROVE Restored'
  BY <1>8 DEF RestoreCopy, Copied
<1>9. CASE DeleteWeb("backup", "update", {f \in package : area[f] # "data"})
  BY <1>9 DEF DeleteWeb
<1>10. CASE DeleteWeb("restore", "rollback", ToRestore)
  BY <1>10 DEF DeleteWeb, ToRestore
<1>11. CASE DeleteWebFails("backup") \/ DeleteWebFails("restore")
  BY <1>11 DEF DeleteWebFails
<1>12. CASE Again
  BY <1>12 DEF Again, Differ, Compared
<1>13. CASE GiveUp \/ UpdateStops
  BY <1>13 DEF GiveUp, UpdateStops
<1>14. CASE Succeed
  BY <1>14 DEF Succeed, Differ, Missing, Compared, NoBackup, Keep
<1>15. CASE RolledBack \/ RollbackStops
  BY <1>15 DEF RolledBack, RollbackStops, Keep
<1>16. CASE Killed
  BY <1>16 DEF Killed
<1> QED BY <1>1, <1>2, <1>3, <1>4, <1>5, <1>6, <1>7, <1>8, <1>9, <1>10, <1>11, <1>12, <1>13, <1>14, <1>15, <1>16 DEF UpgNext

(* The last comparison and those before it leave nothing old.              *)
LEMMA SuccessStep == UpgTypeOK /\ UnderWay /\ PassedOver /\ SuccessLeavesNoOld /\ [UpgNext]_upgVars => SuccessLeavesNoOld'
<1> SUFFICES ASSUME UpgTypeOK, UnderWay, PassedOver, SuccessLeavesNoOld, [UpgNext]_upgVars PROVE SuccessLeavesNoOld'
  OBVIOUS
<1> USE DEF UpgTypeOK, Areas, Contents, Attempts, release, trace, UnderWay, PassedOver, SuccessLeavesNoOld, Replaced, Web, Touched
<1>1. CASE UNCHANGED upgVars
  BY <1>1 DEF upgVars
<1>2. CASE Begin
  BY <1>2 DEF Begin, NoBackup, Keep
<1>3. CASE BeginRefused
  BY <1>3 DEF BeginRefused, Keep
<1>4. CASE BackupFails
  BY <1>4 DEF BackupFails, Keep
<1>5. CASE CheckFails
  BY <1>5 DEF CheckFails
<1>6. ASSUME NEW f \in Files, BackupCopy(f) PROVE SuccessLeavesNoOld'
  BY <1>6 DEF BackupCopy, Copied
<1>7. ASSUME NEW f \in Files, UpdateCopy(f) PROVE SuccessLeavesNoOld'
  BY <1>7 DEF UpdateCopy, Copied
<1>8. ASSUME NEW f \in Files, RestoreCopy(f) PROVE SuccessLeavesNoOld'
  BY <1>8 DEF RestoreCopy, Copied
<1>9. CASE DeleteWeb("backup", "update", {f \in package : area[f] # "data"})
  BY <1>9 DEF DeleteWeb
<1>10. CASE DeleteWeb("restore", "rollback", ToRestore)
  BY <1>10 DEF DeleteWeb, ToRestore
<1>11. CASE DeleteWebFails("backup") \/ DeleteWebFails("restore")
  BY <1>11 DEF DeleteWebFails
<1>12. CASE Again
  BY <1>12 DEF Again, Differ, Compared
<1>13. CASE GiveUp \/ UpdateStops
  BY <1>13 DEF GiveUp, UpdateStops
<1>14. CASE Succeed
  BY <1>14 DEF Succeed, Differ, Missing, Compared, NoBackup, Keep
<1>15. CASE RolledBack \/ RollbackStops
  BY <1>15 DEF RolledBack, RollbackStops, Keep
<1>16. CASE Killed
  BY <1>16 DEF Killed
<1> QED BY <1>1, <1>2, <1>3, <1>4, <1>5, <1>6, <1>7, <1>8, <1>9, <1>10, <1>11, <1>12, <1>13, <1>14, <1>15, <1>16 DEF UpgNext

(* When the rollback has visited all, everything is as before.             *)
LEMMA RollbackStep == UpgTypeOK /\ UnderWay /\ Outside /\ Restored /\ RollbackRestores /\ [UpgNext]_upgVars => RollbackRestores'
<1> SUFFICES ASSUME UpgTypeOK, UnderWay, Outside, Restored, RollbackRestores, [UpgNext]_upgVars PROVE RollbackRestores'
  OBVIOUS
<1> USE DEF UpgTypeOK, Areas, Contents, Attempts, release, trace, UnderWay, Outside, Restored, RollbackRestores, Replaced, Web, Touched
<1>1. CASE UNCHANGED upgVars
  BY <1>1 DEF upgVars
<1>2. CASE Begin
  BY <1>2 DEF Begin, NoBackup, Keep
<1>3. CASE BeginRefused
  BY <1>3 DEF BeginRefused, Keep
<1>4. CASE BackupFails
  BY <1>4 DEF BackupFails, Keep
<1>5. CASE CheckFails
  BY <1>5 DEF CheckFails
<1>6. ASSUME NEW f \in Files, BackupCopy(f) PROVE RollbackRestores'
  BY <1>6 DEF BackupCopy, Copied
<1>7. ASSUME NEW f \in Files, UpdateCopy(f) PROVE RollbackRestores'
  BY <1>7 DEF UpdateCopy, Copied
<1>8. ASSUME NEW f \in Files, RestoreCopy(f) PROVE RollbackRestores'
  BY <1>8 DEF RestoreCopy, Copied
<1>9. CASE DeleteWeb("backup", "update", {f \in package : area[f] # "data"})
  BY <1>9 DEF DeleteWeb
<1>10. CASE DeleteWeb("restore", "rollback", ToRestore)
  BY <1>10 DEF DeleteWeb, ToRestore
<1>11. CASE DeleteWebFails("backup") \/ DeleteWebFails("restore")
  BY <1>11 DEF DeleteWebFails
<1>12. CASE Again
  BY <1>12 DEF Again, Differ, Compared
<1>13. CASE GiveUp \/ UpdateStops
  BY <1>13 DEF GiveUp, UpdateStops
<1>14. CASE Succeed
  BY <1>14 DEF Succeed, Differ, Missing, Compared, NoBackup, Keep
<1>15. CASE RolledBack \/ RollbackStops
  BY <1>15 DEF RolledBack, RollbackStops, Keep
<1>16. CASE Killed
  BY <1>16 DEF Killed
<1> QED BY <1>1, <1>2, <1>3, <1>4, <1>5, <1>6, <1>7, <1>8, <1>9, <1>10, <1>11, <1>12, <1>13, <1>14, <1>15, <1>16 DEF UpgNext

(* Neither a copy nor an early end loses what was there before.            *)
LEMMA ChangedStep == UpgTypeOK /\ UnderWay /\ Outside /\ Backed /\ Restored /\ ChangedIsBackedUp /\ [UpgNext]_upgVars => ChangedIsBackedUp'
<1> SUFFICES ASSUME UpgTypeOK, UnderWay, Outside, Backed, Restored, ChangedIsBackedUp, [UpgNext]_upgVars PROVE ChangedIsBackedUp'
  OBVIOUS
<1> USE DEF UpgTypeOK, Areas, Contents, Attempts, release, trace, UnderWay, Outside, Backed, Restored, ChangedIsBackedUp, Replaced, Web, Touched
<1>1. CASE UNCHANGED upgVars
  BY <1>1 DEF upgVars
<1>2. CASE Begin
  BY <1>2 DEF Begin, NoBackup, Keep
<1>3. CASE BeginRefused
  BY <1>3 DEF BeginRefused, Keep
<1>4. CASE BackupFails
  BY <1>4 DEF BackupFails, Keep
<1>5. CASE CheckFails
  BY <1>5 DEF CheckFails
<1>6. ASSUME NEW f \in Files, BackupCopy(f) PROVE ChangedIsBackedUp'
  BY <1>6 DEF BackupCopy, Copied
<1>7. ASSUME NEW f \in Files, UpdateCopy(f) PROVE ChangedIsBackedUp'
  BY <1>7 DEF UpdateCopy, Copied
<1>8. ASSUME NEW f \in Files, RestoreCopy(f) PROVE ChangedIsBackedUp'
  BY <1>8 DEF RestoreCopy, Copied
<1>9. CASE DeleteWeb("backup", "update", {f \in package : area[f] # "data"})
  BY <1>9 DEF DeleteWeb
<1>10. CASE DeleteWeb("restore", "rollback", ToRestore)
  BY <1>10 DEF DeleteWeb, ToRestore
<1>11. CASE DeleteWebFails("backup") \/ DeleteWebFails("restore")
  BY <1>11 DEF DeleteWebFails
<1>12. CASE Again
  BY <1>12 DEF Again, Differ, Compared
<1>13. CASE GiveUp \/ UpdateStops
  BY <1>13 DEF GiveUp, UpdateStops
<1>14. CASE Succeed
  BY <1>14 DEF Succeed, Differ, Missing, Compared, NoBackup, Keep
<1>15. CASE RolledBack \/ RollbackStops
  BY <1>15 DEF RolledBack, RollbackStops, Keep
<1>16. CASE Killed
  BY <1>16 DEF Killed
<1> QED BY <1>1, <1>2, <1>3, <1>4, <1>5, <1>6, <1>7, <1>8, <1>9, <1>10, <1>11, <1>12, <1>13, <1>14, <1>15, <1>16 DEF UpgNext

LEMMA UpgInvariant == UpgSpec => []UpgInv
<1>1. UpgInv /\ [UpgNext]_upgVars => UpgInv'
  BY UpgTypeStep, UnderWayStep, OutsideStep, BackedStep, PassedOverStep, RestoredStep, SuccessStep,
     RollbackStep, ChangedStep DEF UpgInv
<1> QED BY <1>1, InitUpgInv, PTL DEF UpgSpec

-----------------------------------------------------------------------------
(* Every reachable state of an upgrade is well typed.                      *)
THEOREM UpgTypeCorrect == UpgSpec => []UpgTypeOK
<1>1. UpgInv => UpgTypeOK
  BY DEF UpgInv
<1> QED BY <1>1, UpgInvariant, PTL

(* An upgrade that reports success left no file of the package old or half *)
(* written, whatever copies failed (_do_update_panel, check_hash).         *)
THEOREM SuccessLeavesNothingOld == UpgSpec => []SuccessLeavesNoOld
<1>1. UpgInv => SuccessLeavesNoOld
  BY DEF UpgInv
<1> QED BY <1>1, UpgInvariant, PTL

(* A roll-back leaves every file that was there before as it was, unless a *)
(* copy to or from the backup failed or was not made any more              *)
(* (rollback_copy_dir_files), wherever the update stopped.                 *)
THEOREM RollbackIsComplete == UpgSpec => []RollbackRestores
<1>1. UpgInv => RollbackRestores
  BY DEF UpgInv
<1> QED BY <1>1, UpgInvariant, PTL

(* Whatever an upgrade has changed by the time it fails, raises or is      *)
(* killed is still in its backup, files whose copy failed and those that a *)
(* rollback cut short has not come to excepted.                            *)
THEOREM ChangesAreBackedUp == UpgSpec => []ChangedIsBackedUp
<1>1. UpgInv => ChangedIsBackedUp
  BY DEF UpgInv
<1> QED BY <1>1, UpgInvariant, PTL
-----------------------------------------------------------------------------
(* A behaviour of the five parts side by side is one of each of them.      *)
LEMMA PanelParts == PanelSpec => CronSpec /\ BakSpec /\ UpgSpec /\ StdioSpec /\ Spec
<1>1. PanelInit => CronInit /\ BakInit /\ UpgInit /\ StdioInit /\ Init
  BY DEF PanelInit, CronRests, BackupsBegin, BackupsRest, UpgradeRests
<1>2. [PanelNext]_panelVars =>
        /\ [CronNext]_cronVars
        /\ [BakNext]_bakVars
        /\ [UpgNext]_upgVars
        /\ [StdioNext]_stdioVars
        /\ [Next]_vars
  BY DEF PanelNext, panelVars
<1>3. QED
  BY <1>1, <1>2, PTL DEF PanelSpec, CronSpec, BakSpec, UpgSpec, StdioSpec, Spec

(* Scheduled tasks, their backups, the upgrade, the pipe transport and the *)
(* tool guardrail side by side: every variable keeps its type, and all     *)
(* that is proved of one part holds of the five.                           *)
THEOREM PanelTypeCorrect == PanelSpec => []PanelTypeOK
  BY PanelParts, CronTypeCorrect, BakTypeCorrect, UpgTypeCorrect, StdioTypeCorrect,
     TypeCorrect, PTL DEF PanelTypeOK
=============================================================================
