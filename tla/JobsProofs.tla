------------------------------ MODULE JobsProofs ------------------------------
(***************************************************************************)
(* Proofs about two background jobs of the panel: the log collection of    *)
(* WafLogs, for any number of workers, files, lines and faults and any     *)
(* size of a batch, and the checks of Alerts, for any number of tasks,     *)
(* channels and requests and any limits.  The last theorem is about all    *)
(* the jobs that MCJobs puts side by side.                                 *)
(*                                                                         *)
(* WafLogs: no checkpoint is ahead of the rows (StoredInv), and, up to the *)
(* first line that is no JSON, none that a run starts from is behind them  *)
(* (OnceInv).  Alerts: what a check has loaded of its row is as new as its *)
(* last push (PushNoted).                                                  *)
(***************************************************************************)
EXTENDS MCJobs, FileTransferProofs, FiniteSetTheorems, TLAPS

-----------------------------------------------------------------------------
(* Log collection.                                                         *)

(* A line is begun only in a file that has room for it.                    *)
TornHasRoom == \A f \in torn : size[f] < MaxLines

(* What is still to store comes after what is counted.                     *)
FoundAbove == \A k \in found : upto < k

WafTypeInv == WafDataOK /\ TornHasRoom /\ FoundAbove

LEMMA Bounds ==
  /\ 0 \in 0..MaxLines /\ 0 \in 0..MaxFiles
  /\ \A f \in LogFiles : f \in 0..MaxFiles
  /\ Nothing \in [LogFiles -> 0..MaxLines]
  BY WafLogsAssumption DEF LogFiles, Nothing

(* What the type invariant says of one file.                               *)
LEMMA FileFacts ==
  ASSUME WafTypeInv, NEW f \in LogFiles
  PROVE  /\ size[f] \in 0..MaxLines
         /\ saved[f] \in 0..MaxLines
         /\ check[f] \in 0..MaxLines
         /\ read[f] \in 0..MaxLines
         /\ place[f] \in {"nowhere", "logs", "processed"}
         /\ bad[f] \subseteq Lines
         /\ f \in torn => size[f] < MaxLines
  BY DEF WafTypeInv, WafDataOK, TornHasRoom

LEMMA FaultType ==
  ASSUME WafTypeInv, Fault \/ UNCHANGED faults
  PROVE  faults' \in 0..MaxFaults
<1>1. faults \in 0..MaxFaults
  BY DEF WafTypeInv, WafDataOK
<1>2. QED
  BY <1>1, WafLogsAssumption DEF Fault

LEMMA WafTypeInit == WafInit => WafTypeInv
  BY WafLogsAssumption
  DEF WafInit, WafTypeInv, WafDataOK, TornHasRoom, FoundAbove, Nothing, LogFiles, Lines

(* Numbers above a: a set of them that stays within b is no larger than    *)
(* the way from a to b, one that has them all is no smaller.               *)
LEMMA SpanAtMost ==
  ASSUME NEW a \in Nat, NEW b \in Nat, a <= b, NEW B, B \subseteq (a + 1)..b
  PROVE  IsFiniteSet(B) /\ Cardinality(B) \in Nat /\ Cardinality(B) <= b - a
<1>1. IsFiniteSet((a + 1)..b) /\ Cardinality((a + 1)..b) = b - a
  <2>1. a + 1 \in Int /\ b \in Int
    OBVIOUS
  <2>2. /\ IsFiniteSet((a + 1)..b)
        /\ Cardinality((a + 1)..b) = IF a + 1 > b THEN 0 ELSE b - (a + 1) + 1
    BY <2>1, FS_Interval
  <2>3. QED
    BY <2>2
<1>2. IsFiniteSet(B) /\ Cardinality(B) <= Cardinality((a + 1)..b)
  BY <1>1, FS_Subset
<1>3. Cardinality(B) \in Nat
  BY <1>2, FS_CardinalityType
<1>4. QED
  BY <1>1, <1>2, <1>3

LEMMA SpanAtLeast ==
  ASSUME NEW a \in Nat, NEW b \in Nat, a <= b, NEW B, IsFiniteSet(B), (a + 1)..b \subseteq B
  PROVE  Cardinality(B) \in Nat /\ b - a <= Cardinality(B)
<1>1. Cardinality((a + 1)..b) = b - a
  <2>1. a + 1 \in Int /\ b \in Int
    OBVIOUS
  <2>2. Cardinality((a + 1)..b) = IF a + 1 > b THEN 0 ELSE b - (a + 1) + 1
    BY <2>1, FS_Interval
  <2>3. QED
    BY <2>2
<1>2. Cardinality((a + 1)..b) <= Cardinality(B)
  BY FS_Subset
<1>3. Cardinality(B) \in Nat
  BY FS_CardinalityType
<1>4. QED
  BY <1>1, <1>2, <1>3

(* A batch is the first part of what is found.  Counting it, the           *)
(* checkpoint does not pass what is left, nor any line that is not within  *)
(* the batch; without a gap it reaches every line of the batch.            *)
LEMMA BatchEffect ==
  ASSUME WafTypeInv
  PROVE  /\ Batch \subseteq found /\ Cardinality(Batch) \in Nat
         /\ upto + Cardinality(Batch) \in 0..MaxLines
         /\ \A k \in found \ Batch, n \in Batch : n < k
         /\ \A k \in found \ Batch : upto + Cardinality(Batch) < k
         /\ \A k \in Lines : upto < k /\ k <= upto + Cardinality(Batch) => \E n \in Batch : k <= n
         /\ \A n \in Batch : (\A k \in Lines : upto < k /\ k <= n => k \in found)
                                => n <= upto + Cardinality(Batch)
         /\ Cardinality(found) < BatchSize => found \ Batch = {}
<1> DEFINE c == Cardinality(Batch)
           First(n) == {k \in found : k < n}
<1>1. /\ MaxLines \in Nat /\ upto \in Nat /\ upto <= MaxLines /\ found \subseteq (upto + 1)..MaxLines
      /\ BatchSize \in Nat
  <2>1. MaxLines \in Nat /\ BatchSize \in Nat
    BY WafLogsAssumption
  <2>2. upto \in 0..MaxLines /\ found \subseteq Lines /\ \A k \in found : upto < k
    BY DEF WafTypeInv, WafDataOK, FoundAbove
  <2>3. QED
    BY <2>1, <2>2 DEF Lines
<1>2. IsFiniteSet(found) /\ Batch \subseteq found
  BY <1>1, SpanAtMost DEF Batch
<1>3. c \in Nat /\ c <= MaxLines - upto
  <2>1. Batch \subseteq (upto + 1)..MaxLines
    BY <1>1, <1>2
  <2>2. QED
    BY <1>1, <2>1, SpanAtMost
<1>4. \A n : IsFiniteSet(First(n)) /\ Cardinality(First(n)) \in Nat
  <2> SUFFICES ASSUME NEW n PROVE IsFiniteSet(First(n)) /\ Cardinality(First(n)) \in Nat
    OBVIOUS
  <2>1. First(n) \subseteq found
    OBVIOUS
  <2>2. QED
    BY <1>2, <2>1, FS_Subset, FS_CardinalityType
<1>5. ASSUME NEW k \in found, NEW n \in found, k <= n
      PROVE  Cardinality(First(k)) <= Cardinality(First(n))
  <2>1. ASSUME NEW m \in found, m < k PROVE m < n
    <3>1. m \in Int /\ k \in Int /\ n \in Int
      BY <1>1
    <3>2. QED
      BY <1>5, <2>1, <3>1
  <2>a. First(k) \subseteq First(n)
    BY <2>1
  <2>2. QED
    BY <1>4, <2>a, FS_Subset
<1>6. ASSUME NEW k \in found, NEW n \in Batch, k <= n PROVE k \in Batch
  BY <1>1, <1>2, <1>4, <1>5, <1>6 DEF Batch
<1>7. ASSUME NEW k \in found \ Batch, NEW n \in Batch PROVE n < k
  BY <1>1, <1>2, <1>6
<1>8. ASSUME NEW k \in found \ Batch PROVE upto + c < k
  <2>1. Batch \subseteq (upto + 1)..(k - 1) /\ k - 1 \in Nat /\ upto <= k - 1
    BY <1>1, <1>2, <1>7
  <2>2. c <= (k - 1) - upto
    BY <1>1, <2>1, SpanAtMost
  <2>3. k \in Int
    BY <1>1
  <2>4. QED
    BY <1>1, <1>3, <2>2, <2>3
<1>9. ASSUME NEW k \in Lines, upto < k, k <= upto + c PROVE \E n \in Batch : k <= n
  <2>1. SUFFICES ASSUME \A n \in Batch : ~(k <= n) PROVE FALSE
    OBVIOUS
  <2>2. k \in Int /\ k - 1 \in Nat /\ upto <= k - 1
    BY <1>1, <1>9 DEF Lines
  <2>3. Batch \subseteq (upto + 1)..(k - 1)
    BY <1>1, <1>2, <2>1, <2>2
  <2>4. c <= (k - 1) - upto
    BY <1>1, <2>2, <2>3, SpanAtMost
  <2>5. QED
    BY <1>1, <1>3, <1>9, <2>2, <2>4
<1>10. ASSUME NEW n \in Batch, \A k \in Lines : upto < k /\ k <= n => k \in found
       PROVE  n <= upto + c
  <2>1. n \in Nat /\ upto <= n /\ n <= MaxLines
    BY <1>1, <1>2
  <2>2. (upto + 1)..n \subseteq Batch
    BY <1>1, <1>6, <1>10, <2>1 DEF Lines
  <2>3. IsFiniteSet(Batch)
    BY <1>2, FS_Subset
  <2>4. n - upto <= c
    BY <1>1, <2>1, <2>2, <2>3, SpanAtLeast
  <2>5. QED
    BY <1>1, <1>3, <2>1, <2>4
<1>11. ASSUME Cardinality(found) < BatchSize, NEW n \in found PROVE n \in Batch
  <2>1. Cardinality(First(n)) <= Cardinality(found)
    BY <1>2, FS_Subset
  <2>2. Cardinality(found) \in Nat
    BY <1>2, FS_CardinalityType
  <2>3. QED
    BY <1>1, <1>4, <1>11, <2>1, <2>2 DEF Batch
<1>12. upto + c \in 0..MaxLines
  BY <1>1, <1>3
<1> HIDE DEF c, First
<1>13. Cardinality(Batch) = c
  BY DEF c
<1>14. QED
  BY <1>2, <1>3, <1>7, <1>8, <1>9, <1>10, <1>11, <1>12, <1>13

(* A file is found with n lines, no more than may be written to it.        *)
LEMMA FoundType ==
  ASSUME WafTypeInv, NEW f \in LogFiles, NEW n \in 0..MaxLines, Found(f, n), faults' \in 0..MaxFaults
  PROVE  WafTypeInv'
<1>1. file' \in LogFiles /\ file' \in 0..MaxFiles
  BY WafLogsAssumption DEF Found, LogFiles
<1>2. check \in [LogFiles -> 0..MaxLines] /\ 0 \in 0..MaxLines
  BY Bounds DEF WafTypeInv, WafDataOK
<1>3. read' \in [LogFiles -> 0..MaxLines] /\ upto' \in 0..MaxLines
  BY <1>2 DEF Found, WafTypeInv, WafDataOK
<1>4. check' \in [LogFiles -> 0..MaxLines] /\ wpc' \in {"insert", "save"}
  BY <1>2 DEF Found
<1>5. found' \subseteq Lines /\ FoundAbove'
  BY DEF Found, Entries, FoundAbove
<1>6. QED
  BY <1>1, <1>3, <1>4, <1>5 DEF Found, WafTypeInv, WafDataOK, TornHasRoom, FoundAbove, written

LEMMA InsertUpto ==
  ASSUME WafTypeInv, Insert
  PROVE  /\ file \in LogFiles /\ read[file] \in 0..MaxLines
         /\ upto \in 0..MaxLines /\ upto' \in 0..MaxLines
         /\ upto <= upto' /\ upto' = upto + Cardinality(Batch) /\ found' = found \ Batch
<1>1. file \in LogFiles /\ upto \in 0..MaxLines
  BY DEF Insert, InsertBatch, WafTypeInv, WafDataOK
<1>2. read[file] \in 0..MaxLines
  BY <1>1, FileFacts
<1>3. upto' = upto + Cardinality(Batch) /\ found' = found \ Batch
  BY DEF Insert, InsertBatch
<1>4. upto' \in 0..MaxLines /\ upto <= upto'
  BY <1>1, <1>3, BatchEffect, WafLogsAssumption
<1>5. QED
  BY <1>1, <1>2, <1>3, <1>4

LEMMA InsertType ==
  ASSUME WafTypeInv, Insert
  PROVE  WafTypeInv'
<1>1. file \in LogFiles /\ upto' \in 0..MaxLines
  BY InsertUpto
<1>2. check' \in [LogFiles -> 0..MaxLines]
  BY <1>1 DEF Insert, WafTypeInv, WafDataOK
<1>3. stored' \in [LogFiles -> [Lines -> Nat]]
  <2>1. stored \in [LogFiles -> [Lines -> Nat]]
    BY DEF WafTypeInv, WafDataOK
  <2>2. [n \in Lines |-> IF n \in Batch THEN stored[file][n] + 1 ELSE stored[file][n]]
            \in [Lines -> Nat]
    BY <1>1, <2>1
  <2>3. stored' = [stored EXCEPT ![file] =
                    [n \in Lines |-> IF n \in Batch THEN stored[file][n] + 1 ELSE stored[file][n]]]
    BY DEF Insert, InsertBatch
  <2>4. QED
    BY <2>1, <2>2, <2>3
<1>4. wpc' \in {"save batch", "save"}
  BY DEF Insert, InsertBatch
<1>5. found' \subseteq Lines
  BY InsertUpto DEF WafTypeInv, WafDataOK
<1>6. FoundAbove'
  BY InsertUpto, BatchEffect DEF FoundAbove
<1>7. UNCHANGED <<written, place, saved, unsynced, file, read, enabled, upset, faults>>
  BY DEF Insert, InsertBatch
<1>8. QED
  BY <1>1, <1>2, <1>3, <1>4, <1>5, <1>6, <1>7 DEF WafTypeInv, WafDataOK, TornHasRoom, FoundAbove, written

LEMMA AfterSaveType ==
  ASSUME WafTypeInv, Saving, AfterSave, saved' \in [LogFiles -> 0..MaxLines],
         faults' \in 0..MaxFaults
  PROVE  WafTypeInv'
<1>1. wpc' \in {"insert", "save", "move", "next"}
  BY DEF AfterSave
<1>2. unsynced' \subseteq LogFiles
  BY DEF AfterSave, WafTypeInv, WafDataOK
<1>3. file \in LogFiles
  BY DEF Saving, WafTypeInv, WafDataOK
<1>4. QED
  BY <1>1, <1>2, <1>3 DEF AfterSave, WafTypeInv, WafDataOK, TornHasRoom, FoundAbove, written

LEMMA WafTypeStep == WafTypeInv /\ [WafNext]_wafVars => WafTypeInv'
<1> SUFFICES ASSUME WafTypeInv, [WafNext]_wafVars PROVE WafTypeInv'
  OBVIOUS
<1>0. CASE UNCHANGED wafVars
  BY <1>0 DEF WafTypeInv, WafDataOK, TornHasRoom, FoundAbove, wafVars, written, atHand
<1>1. ASSUME NEW w \in Workers, NEW f \in LogFiles, OpenFile(w, f) PROVE WafTypeInv'
  <2>1. handle' \in [Workers -> 0..MaxFiles]
    <3>1. handle \in [Workers -> 0..MaxFiles] /\ f \in 0..MaxFiles
      BY Bounds DEF WafTypeInv, WafDataOK, LogFiles
    <3>2. QED
      BY <1>1, <3>1 DEF OpenFile
  <2>2. place' \in [LogFiles -> {"nowhere", "logs", "processed"}]
    BY <1>1 DEF OpenFile, WafTypeInv, WafDataOK
  <2>3. QED
    BY <1>1, <2>1, <2>2 DEF OpenFile, WafTypeInv, WafDataOK, TornHasRoom, FoundAbove, atHand
<1>2. ASSUME NEW w \in Workers, WriteBegins(w) PROVE WafTypeInv'
  <2>1. handle[w] \in 0..MaxFiles
    BY DEF WafTypeInv, WafDataOK
  <2>2. handle[w] \in LogFiles
    BY <1>2, <2>1, WafLogsAssumption DEF WriteBegins, LogFiles
  <2>3. QED
    BY <1>2, <2>2 DEF WriteBegins, WafTypeInv, WafDataOK, TornHasRoom, FoundAbove, syncVars, atHand
<1>3. ASSUME NEW w \in Workers, WriteEnds(w) \/ WriteFails(w) PROVE WafTypeInv'
  <2>0. LineEnds(w)
    BY <1>3 DEF WriteEnds, WriteFails
  <2>1. handle[w] \in LogFiles
    BY <2>0 DEF LineEnds, WafTypeInv, WafDataOK
  <2>2. size[handle[w]] \in 0..MaxLines /\ size[handle[w]] < MaxLines
    BY <2>0, <2>1, FileFacts DEF LineEnds
  <2>3. size[handle[w]] + 1 \in 0..MaxLines /\ size[handle[w]] + 1 \in Lines
    BY <2>2, WafLogsAssumption DEF Lines
  <2>4. size' \in [LogFiles -> 0..MaxLines]
    BY <2>0, <2>1, <2>3 DEF LineEnds, WafTypeInv, WafDataOK
  <2>5. TornHasRoom'
    <3>1. ASSUME NEW g \in torn' PROVE size'[g] < MaxLines
      <4>1. g \in torn /\ g # handle[w] /\ g \in LogFiles
        BY <2>0 DEF LineEnds, WafTypeInv, WafDataOK
      <4>2. size'[g] = size[g]
        BY <2>0, <4>1 DEF LineEnds, WafTypeInv, WafDataOK
      <4>3. QED
        BY <4>1, <4>2, FileFacts
    <3>2. QED
      BY <3>1 DEF TornHasRoom
  <2>6. garbled' \subseteq LogFiles /\ torn' \subseteq LogFiles
    BY <2>0, <2>1 DEF LineEnds, WafTypeInv, WafDataOK
  <2>7. bad' \in [LogFiles -> SUBSET Lines]
    <3>1. bad \in [LogFiles -> SUBSET Lines]
      BY DEF WafTypeInv, WafDataOK
    <3>2. QED
      BY <1>3, <2>1, <2>3, <3>1 DEF WriteEnds, WriteFails
  <2>8. UNCHANGED <<handle, syncVars>>
    BY <2>0 DEF LineEnds
  <2>9. QED
    BY <2>4, <2>5, <2>6, <2>7, <2>8 DEF WafTypeInv, WafDataOK, FoundAbove, syncVars, atHand
<1>4. ASSUME NEW w \in Workers, CloseFile(w) PROVE WafTypeInv'
  <2>1. handle \in [Workers -> 0..MaxFiles] /\ 0 \in 0..MaxFiles
    BY Bounds DEF WafTypeInv, WafDataOK
  <2>2. handle' \in [Workers -> 0..MaxFiles]
    BY <1>4, <2>1 DEF CloseFile
  <2>3. garbled' \subseteq LogFiles
    <3>1. torn \subseteq LogFiles /\ garbled \subseteq LogFiles
      BY DEF WafTypeInv, WafDataOK
    <3>2. QED
      BY <1>4, <3>1 DEF CloseFile
  <2>4. QED
    BY <1>4, <2>2, <2>3 DEF CloseFile, WafTypeInv, WafDataOK, TornHasRoom, FoundAbove, syncVars, atHand
<1>5. CASE SyncBegins
  BY <1>5 DEF SyncBegins, WafTypeInv, WafDataOK, TornHasRoom, FoundAbove, written
<1>6. CASE SyncEnds
  BY <1>6 DEF SyncEnds, WafTypeInv, WafDataOK, TornHasRoom, FoundAbove, written, atHand
<1>7. CASE Insert
  BY <1>7, InsertType
<1>8. CASE SaveCheckpoint
  <2>1. saved' \in [LogFiles -> 0..MaxLines] /\ faults' \in 0..MaxFaults
    BY <1>8 DEF SaveCheckpoint, WafTypeInv, WafDataOK
  <2>2. QED
    BY <1>8, <2>1, AfterSaveType DEF SaveCheckpoint
<1>9. CASE MoveFile
  <2>1. check \in [LogFiles -> 0..MaxLines] /\ 0 \in 0..MaxLines
    BY Bounds DEF WafTypeInv, WafDataOK
  <2>2. check' \in [LogFiles -> 0..MaxLines]
    BY <1>9, <2>1 DEF MoveFile
  <2>3. file \in LogFiles /\ wpc' = "forget"
    BY <1>9 DEF MoveFile, WafTypeInv, WafDataOK
  <2>4. place' \in [LogFiles -> {"nowhere", "logs", "processed"}]
    BY <1>9, <2>3 DEF MoveFile, WafTypeInv, WafDataOK
  <2>5. QED
    BY <1>9, <2>2, <2>3, <2>4 DEF MoveFile, WafTypeInv, WafDataOK, TornHasRoom, FoundAbove, written, atHand
<1>10. ASSUME NEW f \in LogFiles, ReadFile(f) PROVE WafTypeInv'
  <2>1. size[f] \in 0..MaxLines /\ (f \in torn => size[f] < MaxLines)
    BY FileFacts
  <2>2. f \in torn => size[f] + 1 \in 0..MaxLines
    BY <2>1, WafLogsAssumption
  <2>3. faults' \in 0..MaxFaults
    BY <1>10, FaultType DEF ReadFile
  <2>4. QED
    BY <1>10, <2>1, <2>2, <2>3, FoundType DEF ReadFile
<1>11. ASSUME NEW f \in LogFiles, ReadGarbled(f) PROVE WafTypeInv'
  <2>1. faults' \in 0..MaxFaults
    BY <1>11, FaultType DEF ReadGarbled
  <2>2. QED
    BY <1>11, <2>1 DEF ReadGarbled, WafTypeInv, WafDataOK, TornHasRoom, FoundAbove, written, atHand
<1>12. ASSUME NEW f \in LogFiles, ReadBreaks(f) PROVE WafTypeInv'
  <2>1. faults' \in 0..MaxFaults
    BY <1>12, FaultType DEF ReadBreaks
  <2>2. PICK n \in check[f]..size[f] : Found(f, n)
    BY <1>12 DEF ReadBreaks
  <2>3. check[f] \in 0..MaxLines /\ size[f] \in 0..MaxLines
    BY FileFacts
  <2>4. n \in 0..MaxLines
    BY <2>3, WafLogsAssumption
  <2>5. QED
    BY <2>1, <2>2, <2>4, FoundType
<1>13. CASE InsertFails \/ MoveFails
  <2>1. faults' \in 0..MaxFaults
    BY <1>13, FaultType DEF InsertFails, MoveFails
  <2>2. wpc' = "idle" /\ UNCHANGED <<written, place, stored, saved, check, atHand>>
    BY <1>13 DEF InsertFails, MoveFails
  <2>3. WafDataOK'
    BY <2>1, <2>2 DEF WafTypeInv, WafDataOK, written, atHand
  <2>4. TornHasRoom' /\ FoundAbove'
    BY <2>2 DEF WafTypeInv, TornHasRoom, FoundAbove, written, atHand
  <2>5. QED
    BY <2>3, <2>4 DEF WafTypeInv
<1>14. CASE SaveFails
  <2>1. faults' \in 0..MaxFaults
    BY <1>14, FaultType DEF SaveFails
  <2>2. saved \in [LogFiles -> 0..MaxLines] /\ Nothing \in [LogFiles -> 0..MaxLines]
    BY Bounds DEF WafTypeInv, WafDataOK
  <2>3. saved' \in [LogFiles -> 0..MaxLines]
    BY <1>14, <2>2 DEF SaveFails
  <2>4. QED
    BY <1>14, <2>1, <2>3, AfterSaveType DEF SaveFails
<1>15. CASE Switch
  BY <1>15 DEF Switch, WafTypeInv, WafDataOK, TornHasRoom, FoundAbove, written, atHand
<1>16. CASE WafCrash
  <2>1. faults' \in 0..MaxFaults /\ wpc' = "idle"
    BY <1>16, FaultType DEF WafCrash
  <2>2. /\ saved \in [LogFiles -> 0..MaxLines] /\ Nothing \in [LogFiles -> 0..MaxLines]
        /\ check \in [LogFiles -> 0..MaxLines]
    BY Bounds DEF WafTypeInv, WafDataOK
  <2>3. saved' \in [LogFiles -> 0..MaxLines]
    BY <1>16, <2>2 DEF WafCrash
  <2>4. QED
    BY <1>16, <2>1, <2>3 DEF WafCrash, WafTypeInv, WafDataOK, TornHasRoom, FoundAbove, written, atHand
<1>17. QED
  BY <1>0, <1>1, <1>2, <1>3, <1>4, <1>5, <1>6, <1>7, <1>8, <1>9, <1>10, <1>11, <1>12, <1>13,
     <1>14, <1>15, <1>16 DEF WafNext, Job

-----------------------------------------------------------------------------
(* Rows s of f: what is JSON of the first k lines is there.                *)
Prefix(s, b, f, k) == \A n \in Lines \ b[f] : n <= k => s[f][n] > 0

AtWork == wpc \in {"insert", "save batch", "save", "move"}

Checkpoints ==
    \A f \in LogFiles : Prefix(stored, bad, f, saved[f]) /\ Prefix(stored, bad, f, check[f])

(* What was read of the file at hand is there or still to store.           *)
Covered(s, F) ==
    /\ \A n \in Lines \ bad[file] : n <= read[file] /\ n \notin F => s[file][n] > 0
    /\ \A k \in F : k <= read[file]
FileAtHand  ==
    AtWork => /\ Prefix(stored, bad, file, upto) /\ place[file] = "logs"
              /\ Covered(stored, found)
AllInserted == wpc \in {"save", "move"} => found = {}
Pending ==
    wpc # "idle" => \A f \in unsynced : place[f] = "logs" \/ (wpc = "forget" /\ f = file)

(* Why ReadIsStored holds: no checkpoint, on disk, in memory or of the     *)
(* file at hand, is ahead of the rows.                                     *)
StoredInv == Checkpoints /\ FileAtHand /\ AllInserted /\ Pending /\ ReadIsStored

LEMMA PrefixOfNothing ==
  ASSUME NEW s, NEW b, NEW f \in LogFiles PROVE Prefix(s, b, f, 0)
  BY WafLogsAssumption DEF Prefix, Lines

LEMMA StoredInit == WafInit => StoredInv
<1> SUFFICES ASSUME WafInit PROVE StoredInv
  OBVIOUS
<1>1. \A f \in LogFiles : saved[f] = 0 /\ check[f] = 0 /\ place[f] = "nowhere"
  BY DEF WafInit, Nothing
<1>2. QED
  BY <1>1, PrefixOfNothing DEF WafInit, StoredInv, Checkpoints, FileAtHand, AllInserted, Pending,
     ReadIsStored, AtWork

LEMMA StoredFound ==
  ASSUME WafTypeInv, StoredInv, NEW f \in unsynced, wpc = "next", NEW n \in Nat, Found(f, n)
  PROVE  StoredInv'
<1>1. f \in LogFiles /\ place[f] = "logs" /\ read \in [LogFiles -> 0..MaxLines]
      /\ check \in [LogFiles -> 0..MaxLines]
  BY DEF WafTypeInv, WafDataOK, StoredInv, Pending
<1>2. /\ file' = f /\ upto' = check[f] /\ read' = [read EXCEPT ![f] = n]
      /\ stored' = stored /\ saved' = saved /\ place' = place /\ unsynced' = unsynced
      /\ bad' = bad /\ found' = Entries(f, n)
  BY DEF Found, written
<1>3. \/ wpc' = "insert" /\ check' = check
      \/ wpc' = "save" /\ check' = [check EXCEPT ![f] = 0] /\ found' = {}
  BY DEF Found
<1>4. Checkpoints'
  <2>1. \A g \in LogFiles : check'[g] = check[g] \/ check'[g] = 0
    BY <1>1, <1>3
  <2>2. QED
    BY <1>2, <2>1, PrefixOfNothing DEF StoredInv, Checkpoints
<1>5. FileAtHand'
  <2>1. read'[f] = n /\ \A k \in found' : k <= n
    BY <1>1, <1>2 DEF Entries
  <2>2. ASSUME NEW k \in Lines \ bad[f], k <= n, k \notin found' PROVE stored[f][k] > 0
    <3>1. ~(check[f] < k)
      BY <1>2, <2>2 DEF Entries
    <3>2. k <= check[f]
      BY <1>1, <3>1, WafLogsAssumption DEF Lines
    <3>3. QED
      BY <1>1, <2>2, <3>2 DEF StoredInv, Checkpoints, Prefix
  <2>3. Covered(stored, found)'
    BY <1>2, <2>1, <2>2 DEF Covered
  <2>4. QED
    BY <1>1, <1>2, <2>3 DEF StoredInv, Checkpoints, FileAtHand
<1>6. AllInserted'
  BY <1>3 DEF AllInserted
<1>7. Pending'
  BY <1>1, <1>2, <1>3 DEF StoredInv, Pending
<1>8. ReadIsStored'
  <2>1. ASSUME NEW g \in LogFiles, place'[g] = "processed",
               NEW k \in Lines \ bad'[g], k <= read'[g]
        PROVE  stored'[g][k] > 0
    <3>1. g # f /\ read'[g] = read[g]
      BY <1>1, <1>2, <2>1
    <3>2. QED
      BY <1>2, <2>1, <3>1 DEF StoredInv, ReadIsStored
  <2>2. QED
    BY <2>1 DEF ReadIsStored
<1>9. QED
  BY <1>4, <1>5, <1>6, <1>7, <1>8 DEF StoredInv

(* The rows that a step of Insert makes.                                   *)
LEMMA InsertRows ==
  ASSUME WafTypeInv, Insert
  PROVE  /\ \A g \in LogFiles, n \in Lines :
                stored'[g][n] = IF g = file /\ n \in Batch THEN stored[g][n] + 1 ELSE stored[g][n]
         /\ \A g \in LogFiles, n \in Lines : stored[g][n] \in Nat
         /\ \A g \in LogFiles : check'[g] = IF g = file THEN upto' ELSE check[g]
<1>1. stored \in [LogFiles -> [Lines -> Nat]] /\ check \in [LogFiles -> 0..MaxLines]
  BY DEF WafTypeInv, WafDataOK
<1>2. file \in LogFiles
  BY InsertUpto
<1>3. QED
  BY <1>1, <1>2 DEF Insert, InsertBatch

LEMMA StoredInsert ==
  ASSUME WafTypeInv, StoredInv, Insert
  PROVE  StoredInv'
<1>1. /\ file \in LogFiles /\ read[file] \in 0..MaxLines
      /\ upto \in 0..MaxLines /\ upto' \in 0..MaxLines
      /\ upto' = upto + Cardinality(Batch) /\ found' = found \ Batch
  BY InsertUpto
<1>2. /\ wpc = "insert" /\ file' = file /\ read' = read /\ saved' = saved /\ place' = place
      /\ unsynced' = unsynced /\ bad' = bad
      /\ wpc' = IF Cardinality(found) < BatchSize THEN "save" ELSE "save batch"
  BY DEF Insert, InsertBatch, written
<1>3. ASSUME NEW g \in LogFiles, NEW n \in Lines, stored[g][n] > 0 PROVE stored'[g][n] > 0
  BY <1>3, InsertRows
<1>4. Prefix(stored, bad, file, upto) /\ Covered(stored, found) /\ place[file] = "logs"
  BY <1>2 DEF StoredInv, FileAtHand, AtWork
<1>5. ASSUME NEW n \in Batch PROVE n \in Lines /\ stored'[file][n] > 0
  <2>1. n \in Lines
    BY BatchEffect DEF WafTypeInv, WafDataOK
  <2>2. QED
    BY <1>1, <2>1, InsertRows
<1>6. Covered(stored, found)'
  <2>1. ASSUME NEW n \in Lines \ bad[file], n <= read[file], n \notin found'
        PROVE  stored'[file][n] > 0
    <3>1. CASE n \in Batch
      BY <1>5, <3>1
    <3>2. CASE n \notin Batch
      BY <1>1, <1>3, <1>4, <2>1, <3>2 DEF Covered
    <3>3. QED
      BY <3>1, <3>2
  <2>2. \A k \in found' : k <= read[file]
    BY <1>1, <1>4 DEF Covered
  <2>3. QED
    BY <1>2, <2>1, <2>2 DEF Covered
<1>7. ASSUME NEW n \in Lines \ bad[file], n <= upto' PROVE stored'[file][n] > 0
  <2>1. CASE n <= upto
    BY <1>1, <1>3, <1>4, <2>1 DEF Prefix
  <2>2. CASE ~(n <= upto)
    <3>1. upto < n
      BY <1>1, <2>2, WafLogsAssumption DEF Lines
    <3>2. PICK m \in Batch : n <= m
      BY <1>1, <1>7, <3>1, BatchEffect
    <3>3. m \in Lines /\ m <= read[file] /\ m \in found
      BY <1>4, <1>5, BatchEffect DEF Covered
    <3>4. n <= read[file]
      BY <1>1, <3>2, <3>3, WafLogsAssumption DEF Lines
    <3>5. n \notin found'
      <4>1. \A k \in found \ Batch : m < k
        BY BatchEffect
      <4>2. m \in Int /\ n \in Int
        BY <3>3 DEF Lines
      <4>3. QED
        BY <1>1, <3>2, <4>1, <4>2
    <3>6. QED
      BY <1>2, <1>6, <1>7, <3>4, <3>5 DEF Covered
  <2>3. QED
    BY <2>1, <2>2
<1>8. Prefix(stored', bad', file, upto')
  BY <1>2, <1>7 DEF Prefix
<1>9. Checkpoints'
  <2>1. ASSUME NEW g \in LogFiles PROVE Prefix(stored', bad', g, saved'[g])
    BY <1>2, <1>3 DEF StoredInv, Checkpoints, Prefix
  <2>2. ASSUME NEW g \in LogFiles PROVE Prefix(stored', bad', g, check'[g])
    <3>1. CASE g = file
      BY <1>1, <1>8, <3>1, InsertRows
    <3>2. CASE g # file
      <4>1. check'[g] = check[g]
        BY <3>2, InsertRows
      <4>2. QED
        BY <1>2, <1>3, <4>1 DEF StoredInv, Checkpoints, Prefix
    <3>3. QED
      BY <3>1, <3>2
  <2>3. QED
    BY <2>1, <2>2 DEF Checkpoints
<1>10. FileAtHand'
  BY <1>2, <1>4, <1>6, <1>8 DEF FileAtHand
<1>11. AllInserted'
  BY <1>1, <1>2, BatchEffect DEF AllInserted
<1>12. Pending'
  BY <1>2 DEF StoredInv, Pending
<1>13. ReadIsStored'
  BY <1>2, <1>3 DEF StoredInv, ReadIsStored
<1>14. QED
  BY <1>9, <1>10, <1>11, <1>12, <1>13 DEF StoredInv

(* The checkpoint is written, or lost.                                     *)
LEMMA StoredSave ==
  ASSUME WafTypeInv, StoredInv, Saving, AfterSave, saved' \in {saved, check, Nothing}
  PROVE  StoredInv'
<1>1. /\ stored' = stored /\ place' = place /\ check' = check /\ file' = file /\ read' = read
      /\ upto' = upto /\ found' = found /\ bad' = bad
  BY DEF AfterSave, written
<1>2. Checkpoints'
  <2>1. ASSUME NEW g \in LogFiles PROVE Prefix(stored', bad', g, saved'[g])
    <3>1. saved'[g] \in {saved[g], check[g], 0}
      BY DEF Nothing
    <3>2. QED
      BY <1>1, <3>1, PrefixOfNothing DEF StoredInv, Checkpoints
  <2>2. QED
    BY <1>1, <2>1 DEF StoredInv, Checkpoints
<1>3. CASE wpc = "save batch" /\ wpc' = IF found # {} THEN "insert" ELSE "save"
  <2>1. unsynced' = unsynced
    BY <1>3 DEF AfterSave
  <2>2. FileAtHand'
    BY <1>1, <1>3 DEF StoredInv, FileAtHand, Covered, AtWork
  <2>3. AllInserted'
    BY <1>1, <1>3 DEF AllInserted
  <2>4. Pending' /\ ReadIsStored'
    BY <1>1, <1>3, <2>1 DEF StoredInv, Pending, ReadIsStored
  <2>5. QED
    BY <1>2, <2>2, <2>3, <2>4 DEF StoredInv
<1>4. CASE wpc = "save" /\ wpc' = "move"
  <2>1. unsynced' = unsynced
    BY <1>4 DEF AfterSave
  <2>2. FileAtHand' /\ AllInserted'
    BY <1>1, <1>4 DEF StoredInv, FileAtHand, Covered, AllInserted, AtWork
  <2>3. Pending' /\ ReadIsStored'
    BY <1>1, <1>4, <2>1 DEF StoredInv, Pending, ReadIsStored
  <2>4. QED
    BY <1>2, <2>2, <2>3 DEF StoredInv
<1>5. CASE wpc = "forget" /\ wpc' = "next"
  <2>1. unsynced' = unsynced \ {file}
    BY <1>5 DEF AfterSave
  <2>2. FileAtHand' /\ AllInserted'
    BY <1>5 DEF FileAtHand, AllInserted, AtWork
  <2>3. Pending' /\ ReadIsStored'
    BY <1>1, <1>5, <2>1 DEF StoredInv, Pending, ReadIsStored
  <2>4. QED
    BY <1>2, <2>2, <2>3 DEF StoredInv
<1>6. QED
  BY <1>3, <1>4, <1>5 DEF AfterSave

LEMMA StoredMove ==
  ASSUME WafTypeInv, StoredInv, MoveFile
  PROVE  StoredInv'
<1>1. /\ wpc = "move" /\ wpc' = "forget" /\ stored' = stored /\ saved' = saved /\ file' = file
      /\ read' = read /\ unsynced' = unsynced /\ bad' = bad
  BY DEF MoveFile, atHand, written
<1>2. file \in LogFiles
  BY DEF MoveFile, WafTypeInv, WafDataOK
<1>3. Covered(stored, {})
  BY <1>1 DEF StoredInv, FileAtHand, AllInserted, AtWork
<1>4. \A g \in LogFiles : /\ place'[g] = IF g = file THEN "processed" ELSE place[g]
                          /\ check'[g] = IF g = file THEN 0 ELSE check[g]
  BY <1>2 DEF MoveFile, WafTypeInv, WafDataOK
<1>5. Checkpoints'
  BY <1>1, <1>4, PrefixOfNothing DEF StoredInv, Checkpoints
<1>6. FileAtHand' /\ AllInserted'
  BY <1>1 DEF FileAtHand, AllInserted, AtWork
<1>7. Pending'
  <2>1. unsynced \subseteq LogFiles
    BY DEF WafTypeInv, WafDataOK
  <2>2. QED
    BY <1>1, <1>4, <2>1 DEF StoredInv, Pending
<1>8. ASSUME NEW g \in LogFiles, place'[g] = "processed", NEW n \in Lines \ bad'[g], n <= read'[g]
      PROVE  stored'[g][n] > 0
  <2>1. CASE g = file
    BY <1>1, <1>3, <1>8, <2>1 DEF Covered
  <2>2. CASE g # file
    BY <1>1, <1>4, <1>8, <2>2 DEF StoredInv, ReadIsStored
  <2>3. QED
    BY <2>1, <2>2
<1>9. QED
  BY <1>5, <1>6, <1>7, <1>8 DEF StoredInv, ReadIsStored

(* A run ends, whatever is left of its checkpoint.                         *)
LEMMA StoredEnds ==
  ASSUME StoredInv, wpc' = "idle", saved' \in {saved, check, Nothing},
         UNCHANGED <<stored, check, read, place, bad>>
  PROVE  StoredInv'
<1>1. Checkpoints'
  <2>1. ASSUME NEW g \in LogFiles PROVE Prefix(stored', bad', g, saved'[g])
    <3>1. saved'[g] \in {saved[g], check[g], 0}
      BY DEF Nothing
    <3>2. QED
      BY <3>1, PrefixOfNothing DEF StoredInv, Checkpoints
  <2>2. QED
    BY <2>1 DEF StoredInv, Checkpoints
<1>2. QED
  BY <1>1 DEF StoredInv, FileAtHand, AllInserted, Pending, ReadIsStored, AtWork

(* A write may fail, and what was no JSON remains so.                      *)
LEMMA BadGrows ==
  ASSUME WafTypeInv, NEW w \in Workers,
         WriteBegins(w) \/ WriteEnds(w) \/ WriteFails(w) \/ CloseFile(w)
  PROVE  /\ \A f \in LogFiles : bad[f] \subseteq bad'[f]
         /\ UNCHANGED syncVars
<1>1. UNCHANGED syncVars
  BY DEF WriteBegins, WriteEnds, WriteFails, LineEnds, CloseFile
<1>2. bad' = bad \/ bad' = [bad EXCEPT ![handle[w]] = @ \cup {size[handle[w]] + 1}]
  BY DEF WriteBegins, WriteEnds, WriteFails, CloseFile
<1>3. bad \in [LogFiles -> SUBSET Lines]
  BY DEF WafTypeInv, WafDataOK
<1>4. QED
  BY <1>1, <1>2, <1>3

LEMMA StoredStep == WafTypeInv /\ StoredInv /\ [WafNext]_wafVars => StoredInv'
<1> SUFFICES ASSUME WafTypeInv, StoredInv, [WafNext]_wafVars PROVE StoredInv'
  OBVIOUS
<1>1. CASE UNCHANGED <<stored, place, saved, wpc, check, atHand>>
           /\ \A f \in LogFiles : bad[f] \subseteq bad'[f]
  <2>1. Checkpoints'
    BY <1>1 DEF StoredInv, Checkpoints, Prefix
  <2>2. FileAtHand'
    <3>1. AtWork => file \in LogFiles
      BY DEF AtWork, WafTypeInv, WafDataOK
    <3>2. QED
      BY <1>1, <3>1 DEF StoredInv, FileAtHand, Covered, Prefix, AtWork, atHand
  <2>3. AllInserted' /\ Pending' /\ ReadIsStored'
    BY <1>1 DEF StoredInv, AllInserted, Pending, ReadIsStored, atHand
  <2>4. QED
    BY <2>1, <2>2, <2>3 DEF StoredInv
<1>2. ASSUME NEW w \in Workers, NEW f \in LogFiles, OpenFile(w, f) PROVE StoredInv'
  <2>1. place[f] = "nowhere" /\ \A g \in LogFiles : place'[g] = IF g = f THEN "logs" ELSE place[g]
    BY <1>2 DEF OpenFile, WafTypeInv, WafDataOK
  <2>2. UNCHANGED <<stored, saved, wpc, check, unsynced, file, read, upto, found, bad>>
    BY <1>2 DEF OpenFile, atHand
  <2>3. Checkpoints' /\ AllInserted'
    BY <2>2 DEF StoredInv, Checkpoints, AllInserted
  <2>4. FileAtHand'
    <3>1. AtWork => file \in LogFiles
      BY DEF AtWork, WafTypeInv, WafDataOK
    <3>2. QED
      BY <2>1, <2>2, <3>1 DEF StoredInv, FileAtHand, Covered, AtWork
  <2>5. Pending'
    <3>1. unsynced \subseteq LogFiles
      BY DEF WafTypeInv, WafDataOK
    <3>2. QED
      BY <2>1, <2>2, <3>1 DEF StoredInv, Pending
  <2>6. ReadIsStored'
    BY <2>1, <2>2 DEF StoredInv, ReadIsStored
  <2>7. QED
    BY <2>3, <2>4, <2>5, <2>6 DEF StoredInv
<1>3. ASSUME NEW w \in Workers, WriteBegins(w) \/ WriteEnds(w) \/ WriteFails(w) \/ CloseFile(w)
      PROVE  StoredInv'
  <2>1. (\A f \in LogFiles : bad[f] \subseteq bad'[f]) /\ UNCHANGED syncVars
    BY <1>3, BadGrows
  <2>2. QED
    BY <1>1, <2>1 DEF syncVars
<1>4. CASE SyncBegins
  BY <1>4 DEF SyncBegins, written, StoredInv, Checkpoints, FileAtHand, AllInserted, Pending, ReadIsStored, AtWork
<1>5. CASE SyncEnds \/ InsertFails \/ MoveFails
  <2>1. wpc' = "idle" /\ saved' = saved /\ UNCHANGED <<stored, check, read, place, bad>>
    BY <1>5 DEF SyncEnds, InsertFails, MoveFails, atHand, written
  <2>2. QED
    BY <2>1, StoredEnds
<1>6. CASE Insert
  BY <1>6, StoredInsert
<1>7. CASE SaveCheckpoint \/ SaveFails
  <2>1. Saving /\ AfterSave /\ saved' \in {saved, check, Nothing}
    BY <1>7 DEF SaveCheckpoint, SaveFails
  <2>2. QED
    BY <2>1, StoredSave
<1>8. CASE MoveFile
  BY <1>8, StoredMove
<1>9. ASSUME NEW f \in LogFiles, ReadFile(f) \/ ReadBreaks(f) PROVE StoredInv'
  <2>1. size[f] \in Nat /\ check[f] \in Nat
    BY FileFacts, WafLogsAssumption
  <2>2. wpc = "next" /\ f \in unsynced
    BY <1>9 DEF ReadFile, ReadBreaks, Oldest
  <2>3. CASE ReadFile(f)
    BY <2>1, <2>2, <2>3, StoredFound DEF ReadFile
  <2>4. CASE ReadBreaks(f)
    <3>1. PICK n \in check[f]..size[f] : Found(f, n)
      BY <2>4 DEF ReadBreaks
    <3>2. n \in Nat
      BY <2>1
    <3>3. QED
      BY <2>2, <3>1, <3>2, StoredFound
  <2>5. QED
    BY <1>9, <2>3, <2>4
<1>10. ASSUME NEW f \in LogFiles, ReadGarbled(f) PROVE StoredInv'
  <2>1. wpc' = "idle" /\ saved' = saved /\ UNCHANGED <<stored, check, read, place, bad>>
    BY <1>10 DEF ReadGarbled, atHand, written
  <2>2. QED
    BY <2>1, StoredEnds
<1>11. CASE Switch
  BY <1>1, <1>11 DEF Switch, written
<1>12. CASE WafCrash
  <2>1. wpc' = "idle" /\ saved' \in {saved, check, Nothing} /\ UNCHANGED <<stored, check, read, place, bad>>
    BY <1>12 DEF WafCrash, atHand, written
  <2>2. QED
    BY <2>1, StoredEnds
<1>13. CASE UNCHANGED wafVars
  BY <1>1, <1>13 DEF wafVars, written
<1>14. QED
  BY <1>2, <1>3, <1>4, <1>5, <1>6, <1>7, <1>8, <1>9, <1>10, <1>11, <1>12, <1>13 DEF WafNext, Job

(* The flags, apart from the other types: nothing here needs arithmetic.   *)
LEMMA FlagsStep ==
  ASSUME enabled \in BOOLEAN, upset \in BOOLEAN, [WafNext]_wafVars
  PROVE  enabled' \in BOOLEAN /\ upset' \in BOOLEAN
<1>1. (enabled' = enabled \/ enabled' = ~enabled) /\ (upset' = upset \/ upset' = TRUE)
  <2>1. CASE SaveFails \/ MoveFails \/ WafCrash \/ Switch
    BY <2>1 DEF SaveFails, MoveFails, WafCrash, Switch, AfterSave
  <2>2. CASE SyncBegins \/ SyncEnds \/ Insert \/ SaveCheckpoint \/ MoveFile \/ InsertFails
    BY <2>2 DEF SyncBegins, SyncEnds, Insert, InsertBatch, SaveCheckpoint, MoveFile, InsertFails, AfterSave
  <2>3. ASSUME NEW f \in LogFiles, ReadFile(f) \/ ReadBreaks(f) \/ ReadGarbled(f)
        PROVE  enabled' = enabled /\ upset' = upset
    BY <2>3 DEF ReadFile, ReadBreaks, ReadGarbled, Found
  <2>4. ASSUME NEW w \in Workers,
               WriteBegins(w) \/ WriteEnds(w) \/ WriteFails(w) \/ CloseFile(w)
        PROVE  enabled' = enabled /\ upset' = upset
    BY <2>4 DEF WriteBegins, WriteEnds, WriteFails, LineEnds, CloseFile, syncVars
  <2>5. ASSUME NEW w \in Workers, NEW f \in LogFiles, OpenFile(w, f)
        PROVE  enabled' = enabled /\ upset' = upset
    BY <2>5 DEF OpenFile
  <2>6. CASE UNCHANGED wafVars
    BY <2>6 DEF wafVars
  <2>7. QED
    BY <2>1, <2>2, <2>3, <2>4, <2>5, <2>6 DEF WafNext, Job
<1>2. QED
  BY <1>1

(* Every reachable state of log collection (WafLogSync) is well typed, a   *)
(* line that is begun has room in its file, and what is counted comes      *)
(* before what is still to store.                                          *)
THEOREM WafTypeCorrect == WafSpec => [](WafTypeOK /\ TornHasRoom /\ FoundAbove)
<1> DEFINE Flags == enabled \in BOOLEAN /\ upset \in BOOLEAN
<1>1. WafInit => Flags
  BY DEF WafInit
<1>2. Flags /\ [WafNext]_wafVars => Flags'
  BY FlagsStep
<1>3. WafTypeInv /\ Flags => WafTypeOK /\ TornHasRoom /\ FoundAbove
  BY DEF WafTypeInv, WafTypeOK
<1> HIDE DEF Flags
<1>4. QED
  BY <1>1, <1>2, <1>3, WafTypeInit, WafTypeStep, PTL DEF WafSpec

(* The first half, as the other proofs need it.                            *)
LEMMA WafTypeHolds == WafSpec => []WafTypeInv
<1>1. WafTypeOK /\ TornHasRoom /\ FoundAbove => WafTypeInv
  BY DEF WafTypeInv, WafTypeOK
<1>2. QED
  BY <1>1, WafTypeCorrect, PTL

(* A file is moved away only when every entry that the last read of it has *)
(* seen is in the database, whatever failed before (WafLogSync.sync).      *)
THEOREM ReadLinesAreStored == WafSpec => []ReadIsStored
<1>1. WafSpec => []StoredInv
  BY StoredInit, StoredStep, WafTypeHolds, PTL DEF WafSpec
<1>2. StoredInv => ReadIsStored
  BY DEF StoredInv
<1>3. QED
  BY <1>1, <1>2, PTL

-----------------------------------------------------------------------------
(* Line n of f comes after no line that is no JSON: up to it the number of *)
(* entries is the number of the line.                                      *)
Clean(b, f, n) == \A k \in b[f] : ~(k < n)

(* Rows s of f: clean lines are there only among the first k.              *)
Within(s, b, f, k) == \A n \in Lines : s[f][n] > 0 /\ Clean(b, f, n) => n <= k

(* A file that does not exist has no rows.                                 *)
NoneBefore ==
    \A f \in LogFiles : place[f] = "nowhere" => \A n \in Lines : ~(stored[f][n] > 0)

Once == \A f \in LogFiles : \A n \in Lines : Clean(bad, f, n) => stored[f][n] <= 1

(* While a batch is read or inserted, the checkpoint in memory is the one  *)
(* on disk; the parts that follow say where the rows of each file end.     *)
InStep   == wpc \in {"next", "insert"} => saved = check
Counted  == wpc \in {"insert", "save batch"} => upto = check[file]
NoGap ==
    wpc \in {"insert", "save batch"} =>
        \A n \in found : Clean(bad, file, n) =>
            \A k \in Lines : upto < k /\ k <= n => k \in found
OnlyUpto == AtWork => Within(stored, bad, file, upto)
Moved    == wpc = "forget" => place[file] = "processed"
OnlySaved ==
    \A f \in LogFiles : place[f] = "logs" /\ ~(AtWork /\ f = file) =>
        Within(stored, bad, f, IF wpc = "idle" THEN saved[f] ELSE check[f])

Calm == Once /\ InStep /\ Counted /\ NoGap /\ OnlyUpto /\ Moved /\ OnlySaved

(* Why StoredOnce holds: unless something was upset, the checkpoint a run  *)
(* starts from is not behind the rows of clean lines either.               *)
OnceInv == NoneBefore /\ (~upset => Calm)

LEMMA CleanAgain ==
  ASSUME WafTypeInv, NEW f \in LogFiles, NEW n \in Lines, NEW k \in Lines, k <= n, Clean(bad, f, n)
  PROVE  Clean(bad, f, k)
<1>1. bad[f] \subseteq Lines
  BY FileFacts
<1>2. QED
  BY <1>1 DEF Clean, Lines

LEMMA OnceInit == WafInit => OnceInv
<1> SUFFICES ASSUME WafInit PROVE OnceInv
  OBVIOUS
<1>1. \A f \in LogFiles : place[f] = "nowhere" /\ \A n \in Lines : stored[f][n] = 0
  BY DEF WafInit
<1>2. wpc = "idle"
  BY DEF WafInit
<1>3. NoneBefore
  BY <1>1 DEF NoneBefore
<1>4. Once
  BY <1>1 DEF Once
<1>5. QED
  BY <1>1, <1>2, <1>3, <1>4 DEF OnceInv, Calm, InStep, Counted, NoGap, OnlyUpto, Moved, OnlySaved,
     AtWork

LEMMA OnceFound ==
  ASSUME WafTypeInv, StoredInv, OnceInv, NEW f \in unsynced, wpc = "next", NEW n \in Nat, Found(f, n)
  PROVE  OnceInv'
<1>1. f \in LogFiles /\ place[f] = "logs" /\ read \in [LogFiles -> 0..MaxLines]
      /\ check \in [LogFiles -> 0..MaxLines]
  BY DEF WafTypeInv, WafDataOK, StoredInv, Pending
<1>2. /\ file' = f /\ upto' = check[f] /\ read' = [read EXCEPT ![f] = n]
      /\ stored' = stored /\ saved' = saved /\ place' = place /\ (upset' <=> upset)
      /\ bad' = bad /\ found' = Entries(f, n)
  BY DEF Found, written
<1>3. \/ wpc' = "insert" /\ check' = check
      \/ wpc' = "save" /\ check' = [check EXCEPT ![f] = 0]
  BY DEF Found
<1>4. NoneBefore'
  BY <1>2 DEF OnceInv, NoneBefore
<1>5. ASSUME Calm PROVE Calm'
  <2>1. Once'
    BY <1>2, <1>5 DEF Calm, Once
  <2>2. InStep' /\ Counted'
    BY <1>2, <1>3, <1>5 DEF Calm, InStep, Counted
  <2>3. NoGap'
    <3>1. ASSUME NEW m \in found', Clean(bad, f, m), NEW k \in Lines, check[f] < k, k <= m
          PROVE  k \in found'
      <4>1. m \in Lines /\ m <= n /\ m \notin bad[f]
        BY <1>2 DEF Entries
      <4>2. k <= n
        BY <3>1, <4>1 DEF Lines
      <4>3. k \notin bad[f]
        BY <3>1, <4>1 DEF Clean, Lines
      <4>4. QED
        BY <1>2, <3>1, <4>2, <4>3 DEF Entries
    <3>2. QED
      BY <1>2, <3>1 DEF NoGap
  <2>4. Within(stored, bad, f, check[f])
    BY <1>1, <1>5 DEF Calm, OnlySaved, AtWork
  <2>5. OnlyUpto' /\ Moved'
    BY <1>2, <1>3, <2>4 DEF OnlyUpto, Moved
  <2>6. OnlySaved'
    <3>1. ASSUME NEW g \in LogFiles, place'[g] = "logs", ~(AtWork' /\ g = file')
          PROVE  Within(stored', bad', g, check'[g])
      <4>1. g # f
        BY <1>2, <1>3, <3>1 DEF AtWork
      <4>2. check'[g] = check[g]
        BY <1>1, <1>3, <4>1
      <4>3. QED
        BY <1>2, <1>5, <3>1, <4>2 DEF Calm, OnlySaved, AtWork
    <3>2. QED
      BY <1>3, <3>1 DEF OnlySaved
  <2>7. QED
    BY <2>1, <2>2, <2>3, <2>5, <2>6 DEF Calm
<1>6. QED
  BY <1>2, <1>4, <1>5 DEF OnceInv

LEMMA OnceInsert ==
  ASSUME WafTypeInv, StoredInv, OnceInv, Insert
  PROVE  OnceInv'
<1>1. /\ file \in LogFiles /\ read[file] \in 0..MaxLines
      /\ upto \in 0..MaxLines /\ upto' \in 0..MaxLines /\ upto <= upto'
      /\ upto' = upto + Cardinality(Batch) /\ found' = found \ Batch
  BY InsertUpto
<1>2. /\ wpc = "insert" /\ file' = file /\ saved' = saved /\ place' = place /\ (upset' <=> upset)
      /\ wpc' \in {"save batch", "save"} /\ bad' = bad
  BY DEF Insert, InsertBatch, written
<1>3. \A n \in found : n \in Lines /\ upto < n
  BY DEF WafTypeInv, WafDataOK, FoundAbove
<1>4. NoneBefore'
  <2>1. place[file] = "logs"
    BY <1>2 DEF StoredInv, FileAtHand, AtWork
  <2>2. ASSUME NEW g \in LogFiles, place'[g] = "nowhere", NEW n \in Lines
        PROVE  ~(stored'[g][n] > 0)
    <3>1. stored'[g][n] = stored[g][n]
      BY <1>2, <2>1, <2>2, InsertRows
    <3>2. QED
      BY <1>2, <2>2, <3>1 DEF OnceInv, NoneBefore
  <2>3. QED
    BY <2>2 DEF NoneBefore
<1>5. ASSUME Calm PROVE Calm'
  <2>1. /\ upto = check[file] /\ Within(stored, bad, file, upto)
        /\ \A n \in found : Clean(bad, file, n) =>
               \A k \in Lines : upto < k /\ k <= n => k \in found
    BY <1>2, <1>5 DEF Calm, NoGap, Counted, OnlyUpto, AtWork
  <2>2. \A n \in Batch : n \in Lines /\ n \in found /\ ~(n <= upto)
    BY <1>1, <1>3, BatchEffect DEF Lines
  <2>3. \A n \in Batch : Clean(bad, file, n) => n <= upto'
    BY <1>1, <2>1, <2>2, BatchEffect
  <2>4. Once'
    <3>1. ASSUME NEW g \in LogFiles, NEW n \in Lines, Clean(bad, g, n)
          PROVE  stored'[g][n] <= 1
      <4>1. CASE g = file /\ n \in Batch
        <5>1. ~(stored[g][n] > 0)
          BY <2>1, <2>2, <3>1, <4>1 DEF Within
        <5>2. QED
          BY <4>1, <5>1, InsertRows
      <4>2. CASE ~(g = file /\ n \in Batch)
        <5>1. stored'[g][n] = stored[g][n]
          BY <4>2, InsertRows
        <5>2. QED
          BY <1>5, <3>1, <5>1 DEF Calm, Once
      <4>3. QED
        BY <4>1, <4>2
    <3>2. QED
      BY <1>2, <3>1 DEF Once
  <2>5. InStep' /\ Moved'
    BY <1>2 DEF InStep, Moved
  <2>6. Counted'
    BY <1>1, <1>2, InsertRows DEF Counted
  <2>7. OnlyUpto'
    <3>1. ASSUME NEW n \in Lines, stored'[file][n] > 0, Clean(bad, file, n) PROVE n <= upto'
      <4>1. CASE n \in Batch
        BY <2>3, <3>1, <4>1
      <4>2. CASE n \notin Batch
        <5>1. stored[file][n] > 0
          BY <1>1, <3>1, <4>2, InsertRows
        <5>2. n <= upto
          BY <2>1, <3>1, <5>1 DEF Within
        <5>3. QED
          BY <1>1, <5>2, WafLogsAssumption DEF Lines
      <4>3. QED
        BY <4>1, <4>2
    <3>2. QED
      BY <1>2, <3>1 DEF OnlyUpto, Within
  <2>8. NoGap'
    <3>1. ASSUME NEW n \in found', Clean(bad, file, n), NEW k \in Lines, upto' < k, k <= n
          PROVE  k \in found'
      <4>1. n \in found /\ n \in Lines
        BY <1>1, <1>3
      <4>2. upto < k
        BY <1>1, <3>1 DEF Lines
      <4>3. k \in found
        BY <2>1, <3>1, <4>1, <4>2
      <4>4. Clean(bad, file, k)
        BY <1>1, <3>1, <4>1, CleanAgain
      <4>5. k \notin Batch
        <5>1. upto' \in Int /\ k \in Int
          BY <1>1 DEF Lines
        <5>2. QED
          BY <2>3, <3>1, <4>4, <5>1
      <4>6. QED
        BY <1>1, <4>3, <4>5
    <3>2. QED
      BY <1>2, <3>1 DEF NoGap
  <2>9. OnlySaved'
    <3>1. ASSUME NEW g \in LogFiles, place'[g] = "logs", g # file
          PROVE  Within(stored', bad', g, check'[g])
      <4>1. Within(stored, bad, g, check[g])
        BY <1>2, <1>5, <3>1 DEF Calm, OnlySaved
      <4>2. check'[g] = check[g] /\ \A n \in Lines : stored'[g][n] = stored[g][n]
        BY <3>1, InsertRows
      <4>3. QED
        BY <1>2, <4>1, <4>2 DEF Within
    <3>2. QED
      BY <1>2, <3>1 DEF OnlySaved, AtWork
  <2>10. QED
    BY <2>4, <2>5, <2>6, <2>7, <2>9, <2>8 DEF Calm
<1>6. QED
  BY <1>2, <1>4, <1>5 DEF OnceInv

LEMMA OnceSave ==
  ASSUME WafTypeInv, StoredInv, OnceInv, SaveCheckpoint
  PROVE  OnceInv'
<1>1. /\ stored' = stored /\ place' = place /\ check' = check /\ saved' = check /\ file' = file
      /\ found' = found /\ bad' = bad /\ upto' = upto /\ (upset' <=> upset)
  BY DEF SaveCheckpoint, AfterSave, written
<1>2. NoneBefore'
  BY <1>1 DEF OnceInv, NoneBefore
<1>3. ASSUME Calm PROVE Calm'
  <2>1. Once'
    BY <1>1, <1>3 DEF Calm, Once
  <2>2. InStep'
    BY <1>1 DEF InStep
  <2>3. CASE wpc = "save batch" /\ wpc' = IF found # {} THEN "insert" ELSE "save"
    <3>1. Counted' /\ NoGap' /\ Moved'
      BY <1>1, <1>3, <2>3 DEF Calm, Counted, NoGap, Moved
    <3>2. OnlyUpto' /\ OnlySaved'
      BY <1>1, <1>3, <2>3 DEF Calm, OnlyUpto, OnlySaved, AtWork
    <3>3. QED
      BY <2>1, <2>2, <3>1, <3>2 DEF Calm
  <2>4. CASE wpc = "save" /\ wpc' = "move"
    <3>1. Counted' /\ NoGap' /\ Moved'
      BY <2>4 DEF Counted, NoGap, Moved
    <3>2. OnlyUpto' /\ OnlySaved'
      BY <1>1, <1>3, <2>4 DEF Calm, OnlyUpto, OnlySaved, AtWork
    <3>3. QED
      BY <2>1, <2>2, <3>1, <3>2 DEF Calm
  <2>5. CASE wpc = "forget" /\ wpc' = "next"
    <3>1. Counted' /\ NoGap' /\ Moved'
      BY <2>5 DEF Counted, NoGap, Moved
    <3>2. OnlyUpto' /\ OnlySaved'
      BY <1>1, <1>3, <2>5 DEF Calm, OnlyUpto, OnlySaved, AtWork
    <3>3. QED
      BY <2>1, <2>2, <3>1, <3>2 DEF Calm
  <2>6. QED
    BY <2>3, <2>4, <2>5 DEF SaveCheckpoint, AfterSave
<1>4. QED
  BY <1>1, <1>2, <1>3 DEF OnceInv

LEMMA OnceMove ==
  ASSUME WafTypeInv, StoredInv, OnceInv, MoveFile
  PROVE  OnceInv'
<1>1. /\ wpc = "move" /\ wpc' = "forget" /\ stored' = stored /\ file' = file /\ bad' = bad
      /\ (upset' <=> upset)
  BY DEF MoveFile, atHand, written
<1>2. file \in LogFiles
  BY DEF MoveFile, WafTypeInv, WafDataOK
<1>3. \A g \in LogFiles : /\ place'[g] = IF g = file THEN "processed" ELSE place[g]
                          /\ check'[g] = IF g = file THEN 0 ELSE check[g]
  BY <1>2 DEF MoveFile, WafTypeInv, WafDataOK
<1>4. NoneBefore'
  BY <1>1, <1>3 DEF OnceInv, NoneBefore
<1>5. ASSUME Calm PROVE Calm'
  <2>1. Once' /\ InStep' /\ Counted' /\ NoGap' /\ OnlyUpto'
    BY <1>1, <1>5 DEF Calm, Once, InStep, Counted, NoGap, OnlyUpto, AtWork
  <2>2. Moved'
    BY <1>1, <1>2, <1>3 DEF Moved
  <2>3. OnlySaved'
    BY <1>1, <1>3, <1>5 DEF Calm, OnlySaved, AtWork
  <2>4. QED
    BY <2>1, <2>2, <2>3 DEF Calm
<1>6. QED
  BY <1>1, <1>4, <1>5 DEF OnceInv

(* A run ends before it writes the checkpoint: at a file that cannot be    *)
(* read, or at a batch that cannot be inserted.                            *)
LEMMA OnceEnds ==
  ASSUME OnceInv, wpc \in {"next", "insert"}, wpc' = "idle",
         UNCHANGED <<stored, saved, place, file, bad>>, upset' <=> upset
  PROVE  OnceInv'
<1>1. NoneBefore'
  BY DEF OnceInv, NoneBefore
<1>2. ASSUME Calm PROVE Calm'
  <2>1. Once' /\ InStep' /\ Counted' /\ NoGap' /\ OnlyUpto' /\ Moved'
    BY <1>2 DEF Calm, Once, InStep, Counted, NoGap, OnlyUpto, Moved, AtWork
  <2>2. OnlySaved'
    <3>1. ASSUME NEW g \in LogFiles, place[g] = "logs" PROVE Within(stored, bad, g, saved[g])
      <4>1. saved = check
        BY <1>2 DEF Calm, InStep
      <4>2. CASE AtWork /\ g = file
        BY <1>2, <4>1, <4>2 DEF Calm, Counted, OnlyUpto, AtWork
      <4>3. CASE ~(AtWork /\ g = file)
        BY <1>2, <3>1, <4>1, <4>3 DEF Calm, OnlySaved
      <4>4. QED
        BY <4>2, <4>3
    <3>2. QED
      BY <3>1 DEF OnlySaved
  <2>3. QED
    BY <2>1, <2>2 DEF Calm
<1>3. QED
  BY <1>1, <1>2 DEF OnceInv

LEMMA OnceStep == WafTypeInv /\ StoredInv /\ OnceInv /\ [WafNext]_wafVars => OnceInv'
<1> SUFFICES ASSUME WafTypeInv, StoredInv, OnceInv, [WafNext]_wafVars PROVE OnceInv'
  OBVIOUS
<1>1. CASE /\ UNCHANGED <<stored, place, saved, wpc, check, atHand>> /\ (upset' <=> upset)
           /\ \A f \in LogFiles : bad[f] \subseteq bad'[f]
  <2>1. NoneBefore'
    BY <1>1 DEF OnceInv, NoneBefore
  <2>2. ASSUME NEW f \in LogFiles, NEW n, Clean(bad', f, n) PROVE Clean(bad, f, n)
    BY <1>1, <2>2 DEF Clean
  <2>3. AtWork \/ wpc = "forget" => file \in LogFiles
    BY DEF AtWork, WafTypeInv, WafDataOK
  <2>4. /\ stored' = stored /\ place' = place /\ saved' = saved /\ wpc' = wpc /\ check' = check
        /\ file' = file /\ found' = found /\ upto' = upto
    BY <1>1 DEF atHand
  <2>5. ASSUME NEW f \in LogFiles, NEW k, Within(stored, bad, f, k)
        PROVE  Within(stored', bad', f, k)
    BY <2>2, <2>4, <2>5 DEF Within
  <2>6. ASSUME Calm PROVE Calm'
    <3>1. Once'
      BY <2>2, <2>4, <2>6 DEF Calm, Once
    <3>2. InStep' /\ Counted' /\ Moved'
      BY <2>4, <2>6 DEF Calm, InStep, Counted, Moved
    <3>3. NoGap'
      BY <2>2, <2>3, <2>4, <2>6 DEF Calm, NoGap, AtWork
    <3>4. OnlyUpto'
      BY <2>3, <2>4, <2>5, <2>6 DEF Calm, OnlyUpto, AtWork
    <3>5. OnlySaved'
      BY <2>4, <2>5, <2>6 DEF Calm, OnlySaved, AtWork
    <3>6. QED
      BY <3>1, <3>2, <3>3, <3>4, <3>5 DEF Calm
  <2>7. QED
    BY <1>1, <2>1, <2>6 DEF OnceInv
<1>2. ASSUME NEW w \in Workers, NEW f \in LogFiles, OpenFile(w, f) PROVE OnceInv'
  <2>1. place[f] = "nowhere" /\ \A g \in LogFiles : place'[g] = IF g = f THEN "logs" ELSE place[g]
    BY <1>2 DEF OpenFile, WafTypeInv, WafDataOK
  <2>2. UNCHANGED <<stored, saved, wpc, check, file, found, bad, upto>> /\ (upset' <=> upset)
    BY <1>2 DEF OpenFile, atHand
  <2>3. NoneBefore'
    BY <2>1, <2>2 DEF OnceInv, NoneBefore
  <2>4. ASSUME Calm PROVE Calm'
    <3>1. Once' /\ InStep' /\ Counted' /\ NoGap' /\ OnlyUpto'
      BY <2>2, <2>4 DEF Calm, Once, InStep, Counted, NoGap, OnlyUpto, AtWork
    <3>2. Moved'
      <4>1. wpc = "forget" => file \in LogFiles
        BY DEF WafTypeInv, WafDataOK
      <4>2. QED
        BY <2>1, <2>2, <2>4, <4>1 DEF Calm, Moved
    <3>3. \A n \in Lines : ~(stored[f][n] > 0)
      BY <2>1 DEF OnceInv, NoneBefore
    <3>4. OnlySaved'
      BY <2>1, <2>2, <2>4, <3>3 DEF Calm, OnlySaved, Within, AtWork
    <3>5. QED
      BY <3>1, <3>2, <3>4 DEF Calm
  <2>5. QED
    BY <2>2, <2>3, <2>4 DEF OnceInv
<1>3. ASSUME NEW w \in Workers, WriteBegins(w) \/ WriteEnds(w) \/ WriteFails(w) \/ CloseFile(w)
      PROVE  OnceInv'
  <2>1. (\A f \in LogFiles : bad[f] \subseteq bad'[f]) /\ UNCHANGED syncVars
    BY <1>3, BadGrows
  <2>2. QED
    BY <1>1, <2>1 DEF syncVars
<1>4. CASE SyncBegins
  <2>1. /\ wpc = "idle" /\ wpc' = "next" /\ check' = saved /\ (upset' <=> upset)
        /\ UNCHANGED <<stored, place, saved, file, bad>>
    BY <1>4 DEF SyncBegins, written
  <2>2. NoneBefore'
    BY <2>1 DEF OnceInv, NoneBefore
  <2>3. Calm => Calm'
    BY <2>1 DEF Calm, Once, InStep, Counted, NoGap, OnlyUpto, Moved, OnlySaved, AtWork
  <2>4. QED
    BY <2>1, <2>2, <2>3 DEF OnceInv
<1>5. CASE SyncEnds \/ InsertFails
  <2>1. /\ wpc \in {"next", "insert"} /\ wpc' = "idle"
        /\ UNCHANGED <<stored, saved, place, file, bad>> /\ (upset' <=> upset)
    BY <1>5 DEF SyncEnds, InsertFails, atHand, written
  <2>2. QED
    BY <2>1, OnceEnds
<1>6. CASE Insert
  BY <1>6, OnceInsert
<1>7. CASE SaveCheckpoint
  BY <1>7, OnceSave
<1>8. CASE MoveFile
  BY <1>8, OnceMove
<1>9. ASSUME NEW f \in LogFiles, ReadFile(f) \/ ReadBreaks(f) PROVE OnceInv'
  <2>1. size[f] \in Nat /\ check[f] \in Nat
    BY FileFacts, WafLogsAssumption
  <2>2. wpc = "next" /\ f \in unsynced
    BY <1>9 DEF ReadFile, ReadBreaks, Oldest
  <2>3. CASE ReadFile(f)
    BY <2>1, <2>2, <2>3, OnceFound DEF ReadFile
  <2>4. CASE ReadBreaks(f)
    <3>1. PICK n \in check[f]..size[f] : Found(f, n)
      BY <2>4 DEF ReadBreaks
    <3>2. n \in Nat
      BY <2>1
    <3>3. QED
      BY <2>2, <3>1, <3>2, OnceFound
  <2>5. QED
    BY <1>9, <2>3, <2>4
<1>10. ASSUME NEW f \in LogFiles, ReadGarbled(f) PROVE OnceInv'
  <2>1. /\ wpc \in {"next", "insert"} /\ wpc' = "idle"
        /\ UNCHANGED <<stored, saved, place, file, bad>> /\ (upset' <=> upset)
    BY <1>10 DEF ReadGarbled, atHand, written
  <2>2. QED
    BY <2>1, OnceEnds
<1>11. CASE Switch
  BY <1>1, <1>11 DEF Switch, written
<1>12. CASE SaveFails \/ MoveFails \/ WafCrash
  <2>1. upset' /\ stored' = stored /\ place' = place
    BY <1>12 DEF SaveFails, MoveFails, WafCrash, AfterSave
  <2>2. NoneBefore'
    BY <2>1 DEF OnceInv, NoneBefore
  <2>3. QED
    BY <2>1, <2>2 DEF OnceInv
<1>13. CASE UNCHANGED wafVars
  BY <1>1, <1>13 DEF wafVars, written
<1>14. QED
  BY <1>2, <1>3, <1>4, <1>5, <1>6, <1>7, <1>8, <1>9, <1>10, <1>11, <1>12, <1>13 DEF WafNext, Job

(* As long as the process lives and checkpoints and moves succeed, no line *)
(* is stored twice, though inserts fail and files cannot be read; only a   *)
(* line after one that is no JSON may be (_read_log_entries passes over    *)
(* lines, the checkpoint counts entries).                                  *)
THEOREM LinesAreStoredOnce == WafSpec => []StoredOnce
<1>1. WafSpec => []StoredInv
  BY StoredInit, StoredStep, WafTypeHolds, PTL DEF WafSpec
<1>2. WafSpec => []OnceInv
  BY OnceInit, OnceStep, WafTypeHolds, <1>1, PTL DEF WafSpec
<1>3. WafTypeInv /\ OnceInv => StoredOnce
  <2> SUFFICES ASSUME WafTypeInv, OnceInv, ~upset, NEW f \in LogFiles, NEW n \in Lines,
                      stored[f][n] > 1
               PROVE  \E k \in bad[f] : k < n
    BY DEF StoredOnce
  <2>1. stored \in [LogFiles -> [Lines -> Nat]]
    BY DEF WafTypeInv, WafDataOK
  <2>2. stored[f][n] \in Nat
    BY <2>1
  <2>3. ~(stored[f][n] <= 1)
    BY <2>2
  <2>4. QED
    BY <2>3 DEF OnceInv, Calm, Once, Clean
<1>4. QED
  BY <1>2, <1>3, WafTypeHolds, PTL

-----------------------------------------------------------------------------
(* Alerts.  A task is pushing from the first channel to its last save.     *)
PushSteps == {"ask", "send", "record", "note"}

(* AlertTypeOK in four parts.  A push has sent no more messages than it    *)
(* has passed channels, and a count in hand is below the limit.            *)
AlertTimes ==
    /\ clock \in 1..MaxTime
    /\ lastTrigger \in [AlertTasks -> Times] /\ seenLast \in [AlertTasks -> Times]
    /\ qlast \in [AlertRequests -> Times] /\ pushedAt \in [AlertTasks -> Times]

AlertCounts ==
    /\ logged \in [AlertTasks -> Nat]
    /\ channel \in [AlertTasks -> 1..(NumChannels + 1)]
    /\ arrived \in [AlertTasks -> 0..NumChannels]
    /\ \A t \in AlertTasks : /\ arrived[t] < channel[t]
                             /\ apc[t] \in {"ask", "send"} => channel[t] <= NumChannels

ChannelCounts ==
    /\ sentToday \in [Channels -> 0..DailyLimit]
    /\ counter \in [AlertTasks -> -1..DailyLimit]
    /\ \A t \in AlertTasks : apc[t] = "send" => counter[t] < DailyLimit

AlertNames ==
    /\ alertRow \in [AlertTasks -> {"on", "off", "none"}]
    /\ isAlerting \subseteq AlertTasks /\ watched \subseteq AlertTasks
    /\ apc \in [AlertTasks -> {"idle", "measure", "unwatch", "ask", "send", "record", "note", "close"}]
    /\ seenOn \subseteq AlertTasks
    /\ news \in [AlertTasks -> {"alert", "recovery"}]
    /\ qpc \in [AlertRequests -> {"idle", "edit", "toggle", "delete", "drop", "watch", "unwatch"}]
    /\ qtask \in [AlertRequests -> AlertTasks] /\ qrow \in [AlertRequests -> {"on", "off"}]
    /\ qon \subseteq AlertRequests
    /\ open \subseteq AlertTasks /\ spoilt \subseteq AlertTasks

AlertTypeInv == AlertNames /\ AlertTimes /\ AlertCounts /\ ChannelCounts

LEMMA AlertTypeInit == AlertInit => AlertTypeInv
<1> SUFFICES ASSUME AlertInit PROVE AlertTypeInv
  OBVIOUS
<1>1. AlertNames
  BY DEF AlertInit, AlertNames
<1>2. 0 \in Times /\ 1 \in 1..MaxTime
  BY AlertsAssumption DEF Times
<1>3. AlertTimes
  BY <1>2 DEF AlertInit, AlertTimes
<1>4. AlertCounts
  BY AlertsAssumption DEF AlertInit, AlertCounts
<1>5. 0 \in 0..DailyLimit /\ 0 \in -1..DailyLimit
  BY AlertsAssumption
<1>6. ChannelCounts
  BY <1>5 DEF AlertInit, ChannelCounts
<1>7. QED
  BY <1>1, <1>3, <1>4, <1>6 DEF AlertTypeInv

(* Every action keeps the types.                                           *)
LEMMA AlertNamesStep == AlertNames /\ [AlertNext]_alertVars => AlertNames'
<1> SUFFICES ASSUME AlertNames, [AlertNext]_alertVars PROVE AlertNames'
  OBVIOUS
<1> USE DEF CheckAt, CheckGoto, QAt, QGoto, Put, Dozing, QuietVars, columns, checkVars,
            requestVars, pastVars, NextChannel, CheckEnds, PushBegins
<1>1. CASE Tick \/ ClearLog
  BY <1>1 DEF Tick, ClearLog, AlertNames
<1>2. ASSUME NEW t \in AlertTasks, CheckStep(t) PROVE AlertNames'
  <2>1. CASE CheckLoads(t) \/ Unwatch(t)
    BY <2>1 DEF CheckLoads, Unwatch, AlertNames
  <2>2. CASE Trigger(t) \/ Recover(t) \/ NothingNew(t)
    BY <2>2 DEF Trigger, Recover, NothingNew, AlertNames
  <2>3. CASE AskLimit(t) \/ Sent(t) \/ NotSent(t)
    BY <2>3 DEF AskLimit, Sent, NotSent, AlertNames
  <2>4. CASE RecordPush(t) \/ PushFails(t)
    BY <2>4 DEF RecordPush, PushFails, AlertNames
  <2>5. CASE Note(t) \/ NoteFails(t)
    BY <2>5 DEF Note, NoteFails, AlertNames
  <2>6. QED
    BY <1>2, <2>1, <2>2, <2>3, <2>4, <2>5 DEF CheckStep
<1>3. ASSUME NEW q \in AlertRequests, RequestStep(q) PROVE AlertNames'
  <2>1. ASSUME NEW t \in AlertTasks, NEW op \in {"edit", "toggle", "delete"}, RequestLoads(q, t, op)
        PROVE  AlertNames'
    BY <2>1 DEF RequestLoads, AlertNames
  <2>2. ASSUME NEW e \in {"on", "off"}, EditSaves(q, e)
        PROVE  AlertNames'
    BY <2>2 DEF EditSaves, AlertNames
  <2>3. CASE ToggleSaves(q)
    BY <2>3 DEF ToggleSaves, AlertNames
  <2>4. CASE SetJob(q) \/ DropRow(q)
    BY <2>4 DEF SetJob, DropRow, AlertNames
  <2>5. QED
    BY <1>3, <2>1, <2>2, <2>3, <2>4 DEF RequestStep
<1>4. CASE UNCHANGED alertVars
  BY <1>4 DEF alertVars, AlertNames
<1>5. QED
  BY <1>1, <1>2, <1>3, <1>4 DEF AlertNext

LEMMA AlertTimesStep == AlertTypeInv /\ [AlertNext]_alertVars => AlertTimes'
<1> SUFFICES ASSUME AlertTypeInv, [AlertNext]_alertVars PROVE AlertTimes'
  OBVIOUS
<1>0. AlertNames /\ AlertTimes
  BY DEF AlertTypeInv
<1> USE DEF CheckAt, CheckGoto, QAt, QGoto, Dozing, QuietVars, columns, checkVars,
            requestVars, pastVars, NextChannel, CheckEnds, PushBegins
<1>a. \A n \in 1..MaxTime : n \in Times
  BY AlertsAssumption DEF Times
<1>b. clock < MaxTime => clock + 1 \in 1..MaxTime
  BY <1>0, AlertsAssumption DEF AlertTimes
<1>1. CASE Tick
  BY <1>0, <1>1, <1>b DEF Tick, AlertTimes
<1>2. CASE ClearLog
  BY <1>0, <1>2 DEF ClearLog, AlertTimes
<1>3. ASSUME NEW t \in AlertTasks, CheckStep(t) PROVE AlertTimes'
  <2>1. CASE CheckLoads(t)
    BY <1>0, <2>1 DEF CheckLoads, AlertNames, AlertTimes
  <2>2. CASE Trigger(t)
    BY <1>0, <1>a, <2>2 DEF Trigger, AlertNames, AlertTimes
  <2>3. CASE Recover(t)
    BY <1>0, <1>a, <2>3 DEF Recover, AlertNames, AlertTimes
  <2>4. CASE Note(t)
    BY <1>0, <1>a, <2>4 DEF Note, AlertNames, AlertTimes
  <2>5. CASE Unwatch(t) \/ NothingNew(t) \/ AskLimit(t) \/ Sent(t) \/ NotSent(t)
    BY <1>0, <2>5 DEF Unwatch, NothingNew, AskLimit, Sent, NotSent, AlertTimes
  <2>6. CASE RecordPush(t) \/ PushFails(t) \/ NoteFails(t)
    BY <1>0, <2>6 DEF RecordPush, PushFails, NoteFails, AlertTimes
  <2>7. QED
    BY <1>3, <2>1, <2>2, <2>3, <2>4, <2>5, <2>6 DEF CheckStep
<1>4. ASSUME NEW q \in AlertRequests, RequestStep(q) PROVE AlertTimes'
  <2>1. ASSUME NEW t \in AlertTasks, NEW op \in {"edit", "toggle", "delete"}, RequestLoads(q, t, op)
        PROVE  AlertTimes'
    BY <1>0, <2>1 DEF RequestLoads, AlertTimes
  <2>2. ASSUME NEW e \in {"on", "off"}, EditSaves(q, e)
        PROVE  AlertTimes'
    BY <1>0, <2>2 DEF EditSaves, AlertNames, AlertTimes
  <2>3. CASE ToggleSaves(q) \/ SetJob(q)
    BY <1>0, <2>3 DEF ToggleSaves, SetJob, AlertTimes
  <2>4. CASE DropRow(q)
    BY <1>0, <2>4 DEF DropRow, AlertTimes
  <2>5. QED
    BY <1>4, <2>1, <2>2, <2>3, <2>4 DEF RequestStep
<1>5. CASE UNCHANGED alertVars
  BY <1>0, <1>5 DEF alertVars, AlertTimes
<1>6. QED
  BY <1>1, <1>2, <1>3, <1>4, <1>5 DEF AlertNext

LEMMA AlertCountsStep == AlertTypeInv /\ [AlertNext]_alertVars => AlertCounts'
<1> SUFFICES ASSUME AlertTypeInv, [AlertNext]_alertVars PROVE AlertCounts'
  OBVIOUS
<1>0. AlertNames /\ AlertCounts
  BY DEF AlertTypeInv
<1> USE DEF CheckAt, CheckGoto, QAt, QGoto, Dozing, QuietVars, columns, checkVars,
            requestVars, pastVars, NextChannel, CheckEnds, PushBegins
<1> USE AlertsAssumption
<1>1. CASE Tick
  BY <1>0, <1>1 DEF Tick, AlertCounts
<1>2. CASE ClearLog
  BY <1>0, <1>2 DEF ClearLog, AlertCounts
<1>3. ASSUME NEW t \in AlertTasks, CheckStep(t) PROVE AlertCounts'
  <2>1. CASE CheckLoads(t)
    BY <1>0, <2>1 DEF CheckLoads, AlertNames, AlertCounts
  <2>2. CASE Trigger(t)
    BY <1>0, <2>2 DEF Trigger, AlertNames, AlertCounts
  <2>3. CASE Recover(t)
    BY <1>0, <2>3 DEF Recover, AlertNames, AlertCounts
  <2>4. CASE AskLimit(t)
    BY <1>0, <2>4 DEF AskLimit, AlertNames, AlertCounts
  <2>5. CASE Sent(t)
    BY <1>0, <2>5 DEF Sent, AlertNames, AlertCounts
  <2>6. CASE NotSent(t)
    BY <1>0, <2>6 DEF NotSent, AlertNames, AlertCounts
  <2>7. CASE RecordPush(t)
    BY <1>0, <2>7 DEF RecordPush, AlertNames, AlertCounts
  <2>8. CASE PushFails(t)
    BY <1>0, <2>8 DEF PushFails, AlertNames, AlertCounts
  <2>9. CASE Unwatch(t) \/ NothingNew(t) \/ Note(t) \/ NoteFails(t)
    BY <1>0, <2>9 DEF Unwatch, NothingNew, Note, NoteFails, AlertNames, AlertCounts
  <2>10. QED
    BY <1>3, <2>1, <2>2, <2>3, <2>4, <2>5, <2>6, <2>7, <2>8, <2>9 DEF CheckStep
<1>4. ASSUME NEW q \in AlertRequests, RequestStep(q) PROVE AlertCounts'
  <2>1. ASSUME NEW t \in AlertTasks, NEW op \in {"edit", "toggle", "delete"}, RequestLoads(q, t, op)
        PROVE  AlertCounts'
    BY <1>0, <2>1 DEF RequestLoads, AlertCounts
  <2>2. ASSUME NEW e \in {"on", "off"}, EditSaves(q, e)
        PROVE  AlertCounts'
    BY <1>0, <2>2 DEF EditSaves, AlertNames, AlertCounts
  <2>3. CASE ToggleSaves(q) \/ SetJob(q)
    BY <1>0, <2>3 DEF ToggleSaves, SetJob, AlertCounts
  <2>4. CASE DropRow(q)
    BY <1>0, <2>4 DEF DropRow, AlertCounts
  <2>5. QED
    BY <1>4, <2>1, <2>2, <2>3, <2>4 DEF RequestStep
<1>5. CASE UNCHANGED alertVars
  BY <1>0, <1>5 DEF alertVars, AlertCounts
<1>6. QED
  BY <1>1, <1>2, <1>3, <1>4, <1>5 DEF AlertNext

LEMMA ChannelCountsStep == AlertTypeInv /\ [AlertNext]_alertVars => ChannelCounts'
<1> SUFFICES ASSUME AlertTypeInv, [AlertNext]_alertVars PROVE ChannelCounts'
  OBVIOUS
<1>0. AlertNames /\ ChannelCounts
  BY DEF AlertTypeInv
<1> USE DEF CheckAt, CheckGoto, QAt, QGoto, Dozing, QuietVars, columns, checkVars,
            requestVars, pastVars, NextChannel, CheckEnds, PushBegins
<1>a. AlertCounts
  BY DEF AlertTypeInv
<1>b. /\ 0 \in 0..DailyLimit /\ -1 \in -1..DailyLimit /\ -1 < DailyLimit
      /\ \A c \in Channels : sentToday[c] < DailyLimit => sentToday[c] \in -1..DailyLimit
  BY <1>0, AlertsAssumption DEF ChannelCounts
<1>1. CASE Tick
  BY <1>0, <1>b, <1>1 DEF Tick, AlertNames, ChannelCounts
<1>2. CASE ClearLog
  BY <1>0, <1>2 DEF ClearLog, ChannelCounts
<1>3. ASSUME NEW t \in AlertTasks, CheckStep(t) PROVE ChannelCounts'
  <2>1. CASE AskLimit(t)
    <3>1. channel[t] \in Channels
      BY <1>0, <1>a, <2>1, AlertsAssumption DEF AskLimit, AlertCounts, Channels
    <3>2. QED
      BY <1>0, <1>b, <2>1, <3>1, AlertsAssumption DEF AskLimit, AlertNames, ChannelCounts
  <2>2. CASE Sent(t)
    <3>1. channel[t] \in Channels
      BY <1>0, <1>a, <2>2, AlertsAssumption DEF Sent, AlertCounts, Channels
    <3>2. counter[t] # -1 => counter[t] + 1 \in 0..DailyLimit
      BY <1>0, <2>2, AlertsAssumption DEF Sent, ChannelCounts
    <3>3. QED
      BY <1>0, <2>2, <3>1, <3>2 DEF Sent, AlertNames, ChannelCounts
  <2>3. CASE CheckLoads(t) \/ Unwatch(t) \/ Trigger(t) \/ Recover(t) \/ NothingNew(t)
    BY <1>0, <2>3 DEF CheckLoads, Unwatch, Trigger, Recover, NothingNew, AlertNames, ChannelCounts
  <2>4. CASE NotSent(t) \/ RecordPush(t) \/ PushFails(t) \/ Note(t) \/ NoteFails(t)
    BY <1>0, <2>4 DEF NotSent, RecordPush, PushFails, Note, NoteFails, AlertNames, ChannelCounts
  <2>5. QED
    BY <1>3, <2>1, <2>2, <2>3, <2>4 DEF CheckStep
<1>4. ASSUME NEW q \in AlertRequests, RequestStep(q) PROVE ChannelCounts'
  <2>1. ASSUME NEW t \in AlertTasks, NEW op \in {"edit", "toggle", "delete"}, RequestLoads(q, t, op)
        PROVE  ChannelCounts'
    BY <1>0, <2>1 DEF RequestLoads, ChannelCounts
  <2>2. ASSUME NEW e \in {"on", "off"}, EditSaves(q, e)
        PROVE  ChannelCounts'
    BY <1>0, <2>2 DEF EditSaves, AlertNames, ChannelCounts
  <2>3. CASE ToggleSaves(q) \/ SetJob(q)
    BY <1>0, <2>3 DEF ToggleSaves, SetJob, ChannelCounts
  <2>4. CASE DropRow(q)
    BY <1>0, <2>4 DEF DropRow, ChannelCounts
  <2>5. QED
    BY <1>4, <2>1, <2>2, <2>3, <2>4 DEF RequestStep
<1>5. CASE UNCHANGED alertVars
  BY <1>0, <1>5 DEF alertVars, ChannelCounts
<1>6. QED
  BY <1>1, <1>2, <1>3, <1>4, <1>5 DEF AlertNext


LEMMA AlertTypeHolds == AlertSpec => []AlertTypeInv
<1>1. AlertTypeInv /\ [AlertNext]_alertVars => AlertTypeInv'
  BY AlertNamesStep, AlertTimesStep, AlertCountsStep, ChannelCountsStep DEF AlertTypeInv
<1>2. QED
  BY AlertTypeInit, <1>1, PTL DEF AlertSpec

(* Every reachable state of the alerts is well typed: no channel sends      *)
(* more than its daily limit by its own count, for any number of tasks.    *)
THEOREM AlertTypeCorrect == AlertSpec => []AlertTypeOK
<1>1. AlertTypeInv => AlertTypeOK
  BY DEF AlertTypeInv, AlertNames, AlertTimes, AlertCounts, ChannelCounts, AlertTypeOK
<1>2. QED
  BY AlertTypeHolds, <1>1, PTL

(* A row that was deleted is not trusted before it has noted a push again, *)
(* and what is being closed is not open any more.                          *)
DeletedIsSpoilt == \A t \in AlertTasks : alertRow[t] = "none" => t \in spoilt

Closing == \A t \in AlertTasks :
    apc[t] = "close" \/ (apc[t] \in PushSteps /\ news[t] = "recovery") => t \notin open

OpenInv == DeletedIsSpoilt /\ Closing /\ AlertsStayOpen

(* What the last save of a check does to its task, and leaves of others.   *)
LEMMA NoteEffect ==
    ASSUME AlertTypeInv, NEW t \in AlertTasks, Note(t)
    PROVE  /\ apc[t] \in {"note", "close"} /\ apc'[t] = "idle"
           /\ alertRow' = alertRow /\ news' = news /\ open' = open /\ pushedAt' = pushedAt
           /\ clock' = clock /\ seenLast' = seenLast
           /\ \A u \in AlertTasks \ {t} :
                 /\ apc'[u] = apc[u] /\ lastTrigger'[u] = lastTrigger[u]
                 /\ u \in isAlerting' <=> u \in isAlerting
                 /\ u \in spoilt' <=> u \in spoilt
           /\ apc[t] = "note" /\ alertRow[t] # "none" =>
                 /\ t \notin spoilt' /\ lastTrigger'[t] = clock
                 /\ t \in isAlerting' <=> news[t] = "alert"
           /\ apc[t] = "note" /\ alertRow[t] = "none" => (t \in spoilt' <=> t \in spoilt)
           /\ apc[t] = "close" => (t \in spoilt' <=> t \in spoilt) /\ lastTrigger'[t] = lastTrigger[t]
<1>1. AlertNames /\ AlertTimes
  BY DEF AlertTypeInv
<1>2. /\ apc[t] \in {"note", "close"} /\ apc' = [apc EXCEPT ![t] = "idle"]
      /\ spoilt' = spoilt \ Mended(t)
      /\ UNCHANGED <<alertRow, news, open, pushedAt, clock, seenLast>>
  BY DEF Note, CheckGoto
<1>3. \A u : u \in Mended(t) <=> u = t /\ apc[t] = "note" /\ alertRow[t] # "none"
  BY DEF Mended
<1>4. \/ alertRow[t] = "none" /\ UNCHANGED <<lastTrigger, isAlerting>>
      \/ /\ alertRow[t] # "none"
         /\ isAlerting' = Put(isAlerting, t, apc[t] = "note" /\ news[t] = "alert")
         /\ lastTrigger' = IF apc[t] = "note"
                           THEN [lastTrigger EXCEPT ![t] = clock] ELSE lastTrigger
  BY DEF Note
<1>5. \A u \in AlertTasks \ {t} : apc'[u] = apc[u] /\ lastTrigger'[u] = lastTrigger[u]
  BY <1>1, <1>2, <1>4 DEF AlertNames, AlertTimes
<1>6. \A u \in AlertTasks \ {t} : u \in isAlerting' <=> u \in isAlerting
  BY <1>4 DEF Put
<1>7. apc'[t] = "idle"
  BY <1>1, <1>2 DEF AlertNames
<1>8. apc[t] = "note" /\ alertRow[t] # "none" => lastTrigger'[t] = clock
  BY <1>1, <1>4 DEF AlertTimes
<1>9. apc[t] = "note" /\ alertRow[t] # "none" => (t \in isAlerting' <=> news[t] = "alert")
  BY <1>4 DEF Put
<1>10. QED
  BY <1>2, <1>3, <1>4, <1>5, <1>6, <1>7, <1>8, <1>9

LEMMA OpenStep == AlertTypeInv /\ OpenInv /\ [AlertNext]_alertVars => OpenInv'
<1> SUFFICES ASSUME AlertTypeInv, OpenInv, [AlertNext]_alertVars PROVE OpenInv'
  OBVIOUS
<1>0. AlertNames
  BY DEF AlertTypeInv
<1> USE DEF CheckAt, CheckGoto, QAt, QGoto, Put, Dozing, QuietVars, columns, checkVars, requestVars,
            pastVars, NextChannel, CheckEnds, PushBegins, OpenInv, DeletedIsSpoilt, Closing,
            AlertsStayOpen, PushSteps
<1>1. CASE Tick \/ ClearLog
  BY <1>0, <1>1 DEF Tick, ClearLog
<1>2. ASSUME NEW t \in AlertTasks, CheckStep(t) PROVE OpenInv'
  <2>1. CASE CheckLoads(t)
    BY <1>0, <2>1 DEF CheckLoads, AlertNames
  <2>2. CASE Unwatch(t)
    BY <1>0, <2>2 DEF Unwatch, AlertNames
  <2>3. CASE Trigger(t)
    BY <1>0, <2>3 DEF Trigger, AlertNames
  <2>4. CASE Recover(t)
    BY <1>0, <2>4 DEF Recover, AlertNames
  <2>5. CASE NothingNew(t)
    BY <1>0, <2>5 DEF NothingNew, AlertNames
  <2>6. CASE AskLimit(t)
    BY <1>0, <2>6 DEF AskLimit, AlertNames
  <2>7. CASE Sent(t)
    BY <1>0, <2>7 DEF Sent, AlertNames
  <2>8. CASE NotSent(t)
    BY <1>0, <2>8 DEF NotSent, AlertNames
  <2>9. CASE RecordPush(t)
    BY <1>0, <2>9 DEF RecordPush, AlertNames
  <2>10. CASE PushFails(t)
    BY <1>0, <2>10 DEF PushFails, AlertNames
  <2>11. CASE Note(t)
    <3>1. news[t] \in {"alert", "recovery"}
      BY <1>0 DEF AlertNames
    <3>2. ASSUME NEW u \in AlertTasks
          PROVE  /\ alertRow'[u] = "none" => u \in spoilt'
                 /\ apc'[u] = "close" \/ (apc'[u] \in PushSteps /\ news'[u] = "recovery")
                        => u \notin open'
                 /\ u \in open' /\ u \notin spoilt' =>
                        apc'[u] \in {"ask", "send", "record", "note"} \/ u \in isAlerting'
      <4>1. CASE u # t
        BY <2>11, <4>1, NoteEffect
      <4>2. CASE u = t /\ apc[t] = "close"
        BY <2>11, <4>2, NoteEffect
      <4>3. CASE u = t /\ apc[t] = "note"
        BY <2>11, <3>1, <4>3, NoteEffect
      <4>4. QED
        BY <2>11, <4>1, <4>2, <4>3, NoteEffect
    <3>3. open' \subseteq AlertTasks
      BY <1>0, <2>11, NoteEffect DEF AlertNames
    <3>4. QED
      BY <3>2, <3>3
  <2>12. CASE NoteFails(t)
    BY <1>0, <2>12 DEF NoteFails, AlertNames
  <2>13. QED
    BY <1>2, <2>1, <2>2, <2>3, <2>4, <2>5, <2>6, <2>7, <2>8, <2>9, <2>10, <2>11, <2>12 DEF CheckStep
<1>3. ASSUME NEW q \in AlertRequests, RequestStep(q) PROVE OpenInv'
  <2>1. ASSUME NEW t \in AlertTasks, NEW op \in {"edit", "toggle", "delete"}, RequestLoads(q, t, op)
        PROVE  OpenInv'
    BY <2>1 DEF RequestLoads
  <2>2. ASSUME NEW e \in {"on", "off"}, EditSaves(q, e)
        PROVE  OpenInv'
    BY <1>0, <2>2 DEF EditSaves, AlertNames
  <2>3. CASE ToggleSaves(q)
    BY <1>0, <2>3 DEF ToggleSaves, AlertNames
  <2>4. CASE SetJob(q)
    BY <2>4 DEF SetJob
  <2>5. CASE DropRow(q)
    BY <1>0, <2>5 DEF DropRow, AlertNames
  <2>6. QED
    BY <1>3, <2>1, <2>2, <2>3, <2>4, <2>5 DEF RequestStep
<1>4. CASE UNCHANGED alertVars
  BY <1>4 DEF alertVars
<1>5. QED
  BY <1>1, <1>2, <1>3, <1>4 DEF AlertNext

(* An alert that was pushed is open in its row until its recovery or the   *)
(* limit of the day, also through toggles and edits; but for the rows that *)
(* a stale edit, a deletion, or a log or note that could not be saved has  *)
(* spoilt, until the next push that is noted.                              *)
THEOREM OpenAlertsStayOpen == AlertSpec => []AlertsStayOpen
<1>1. AlertInit => OpenInv
  BY DEF AlertInit, OpenInv, DeletedIsSpoilt, Closing, AlertsStayOpen
<1>2. OpenInv => AlertsStayOpen
  BY DEF OpenInv
<1>3. QED
  BY <1>1, <1>2, OpenStep, AlertTypeHolds, PTL DEF AlertSpec

(* Between two pushes the row, and what a check has loaded of it, is not    *)
(* older than the last push.                                               *)
PushNoted == \A t \in AlertTasks :
    /\ pushedAt[t] <= clock
    /\ t \notin spoilt /\ apc[t] \notin PushSteps => lastTrigger[t] >= pushedAt[t]
    /\ t \notin spoilt /\ apc[t] = "measure" => seenLast[t] >= pushedAt[t]

LEMMA PushNotedStep ==
    AlertTypeInv /\ DeletedIsSpoilt /\ PushNoted /\ [AlertNext]_alertVars => PushNoted'
<1> SUFFICES ASSUME AlertTypeInv, DeletedIsSpoilt, PushNoted, [AlertNext]_alertVars
             PROVE  PushNoted'
  OBVIOUS
<1>0. AlertNames /\ AlertTimes
  BY DEF AlertTypeInv
<1>t. \A t \in AlertTasks : pushedAt[t] \in Int /\ lastTrigger[t] \in Int /\ seenLast[t] \in Int
  BY <1>0 DEF AlertTimes, Times
<1>c. clock \in Int
  BY <1>0 DEF AlertTimes
<1> USE DEF CheckAt, CheckGoto, QAt, QGoto, Put, Dozing, QuietVars, columns, checkVars, requestVars,
            pastVars, NextChannel, CheckEnds, PushBegins, DeletedIsSpoilt, PushNoted, PushSteps
<1>1. CASE Tick \/ ClearLog
  BY <1>0, <1>t, <1>c, <1>1 DEF Tick, ClearLog
<1>2. ASSUME NEW t \in AlertTasks, CheckStep(t) PROVE PushNoted'
  <2>1. CASE CheckLoads(t)
    BY <1>0, <1>t, <1>c, <2>1 DEF CheckLoads, AlertNames, AlertTimes
  <2>2. CASE Unwatch(t)
    BY <1>0, <1>t, <1>c, <2>2 DEF Unwatch, AlertNames, AlertTimes
  <2>3. CASE Trigger(t)
    BY <1>0, <1>t, <1>c, <2>3 DEF Trigger, AlertNames, AlertTimes
  <2>4. CASE Recover(t)
    BY <1>0, <1>t, <1>c, <2>4 DEF Recover, AlertNames, AlertTimes
  <2>5. CASE NothingNew(t)
    BY <1>0, <1>t, <1>c, <2>5 DEF NothingNew, AlertNames, AlertTimes
  <2>6. CASE AskLimit(t)
    BY <1>0, <1>t, <1>c, <2>6 DEF AskLimit, AlertNames, AlertTimes
  <2>7. CASE Sent(t)
    BY <1>0, <1>t, <1>c, <2>7 DEF Sent, AlertNames, AlertTimes
  <2>8. CASE NotSent(t)
    BY <1>0, <1>t, <1>c, <2>8 DEF NotSent, AlertNames, AlertTimes
  <2>9. CASE RecordPush(t)
    BY <1>0, <1>t, <1>c, <2>9 DEF RecordPush, AlertNames, AlertTimes
  <2>10. CASE PushFails(t)
    BY <1>0, <1>t, <1>c, <2>10 DEF PushFails, AlertNames, AlertTimes
  <2>11. CASE Note(t)
    BY <1>t, <1>c, <2>11, NoteEffect
  <2>12. CASE NoteFails(t)
    BY <1>0, <1>t, <1>c, <2>12 DEF NoteFails, AlertNames, AlertTimes
  <2>13. QED
    BY <1>2, <2>1, <2>2, <2>3, <2>4, <2>5, <2>6, <2>7, <2>8, <2>9, <2>10, <2>11, <2>12 DEF CheckStep
<1>3. ASSUME NEW q \in AlertRequests, RequestStep(q) PROVE PushNoted'
  <2>1. ASSUME NEW t \in AlertTasks, NEW op \in {"edit", "toggle", "delete"}, RequestLoads(q, t, op)
        PROVE  PushNoted'
    BY <2>1 DEF RequestLoads
  <2>2. ASSUME NEW e \in {"on", "off"}, EditSaves(q, e)
        PROVE  PushNoted'
    BY <1>0, <1>t, <1>c, <2>2 DEF EditSaves, AlertNames, AlertTimes
  <2>3. CASE ToggleSaves(q)
    BY <1>0, <1>t, <1>c, <2>3 DEF ToggleSaves, AlertNames, AlertTimes
  <2>4. CASE SetJob(q)
    BY <2>4 DEF SetJob
  <2>5. CASE DropRow(q)
    BY <1>0, <1>t, <1>c, <2>5 DEF DropRow, AlertNames, AlertTimes
  <2>6. QED
    BY <1>3, <2>1, <2>2, <2>3, <2>4, <2>5 DEF RequestStep
<1>4. CASE UNCHANGED alertVars
  BY <1>4 DEF alertVars
<1>5. QED
  BY <1>1, <1>2, <1>3, <1>4 DEF AlertNext

\* Only a trigger begins to push an alert.
LEMMA AlertPushes ==
    ASSUME AlertTypeInv, AlertNext, NEW t \in AlertTasks,
           apc[t] = "measure", apc'[t] = "ask", news'[t] = "alert"
    PROVE  Trigger(t)
<1>0. AlertNames
  BY DEF AlertTypeInv
<1> USE DEF CheckAt, CheckGoto, Dozing, QuietVars, checkVars, NextChannel, CheckEnds, PushBegins
<1>1. CASE Tick \/ ClearLog
  BY <1>1 DEF Tick, ClearLog
<1>2. ASSUME NEW u \in AlertTasks, CheckStep(u) PROVE Trigger(t)
  <2>1. CASE Trigger(u)
    <3>1. u = t
      BY <1>0, <2>1 DEF Trigger, AlertNames
    <3>2. QED
      BY <2>1, <3>1
  <2>2. CASE Recover(u)
    BY <1>0, <2>2 DEF Recover, AlertNames
  <2>3. CASE CheckLoads(u) \/ Unwatch(u) \/ NothingNew(u)
    BY <1>0, <2>3 DEF CheckLoads, Unwatch, NothingNew, AlertNames
  <2>4. CASE AskLimit(u) \/ Sent(u) \/ NotSent(u)
    BY <1>0, <2>4 DEF AskLimit, Sent, NotSent, AlertNames
  <2>5. CASE RecordPush(u) \/ PushFails(u) \/ Note(u) \/ NoteFails(u)
    BY <1>0, <2>5 DEF RecordPush, PushFails, Note, NoteFails, AlertNames
  <2>6. QED
    BY <1>2, <2>1, <2>2, <2>3, <2>4, <2>5 DEF CheckStep
<1>3. ASSUME NEW q \in AlertRequests, RequestStep(q) PROVE Trigger(t)
  BY <1>3 DEF RequestStep, RequestLoads, EditSaves, ToggleSaves, SetJob, DropRow
<1>4. QED
  BY <1>1, <1>2, <1>3 DEF AlertNext

(* No alert within the silence that follows a push of the task, but for    *)
(* the rows that are spoilt in one of those ways.                          *)
THEOREM SilenceIsKept == AlertSpec => SilenceKept
<1>1. AlertInit => OpenInv /\ PushNoted
  BY DEF AlertInit, OpenInv, DeletedIsSpoilt, Closing, AlertsStayOpen, PushNoted
<1>2. AlertTypeInv /\ PushNoted /\ [AlertNext]_alertVars =>
         [\A t \in AlertTasks \ spoilt :
             apc[t] = "measure" /\ apc'[t] = "ask" /\ news'[t] = "alert" /\ pushedAt[t] # 0
                 => clock >= pushedAt[t] + Silence]_alertVars
  <2> SUFFICES ASSUME AlertTypeInv, PushNoted, AlertNext, NEW t \in AlertTasks \ spoilt,
                      apc[t] = "measure", apc'[t] = "ask", news'[t] = "alert", pushedAt[t] # 0
               PROVE  clock >= pushedAt[t] + Silence
    OBVIOUS
  <2>1. Trigger(t)
    BY AlertPushes
  <2>2. ~Silent(t)
    BY <2>1 DEF Trigger, CheckEnds, CheckGoto, AlertTypeInv, AlertNames
  <2>3. seenLast[t] >= pushedAt[t]
    BY DEF PushNoted
  <2>4. seenLast[t] \in Nat /\ pushedAt[t] \in Nat /\ clock \in Nat /\ Silence \in Nat
    BY AlertsAssumption DEF AlertTypeInv, AlertTimes, Times
  <2>5. QED
    BY <2>2, <2>3, <2>4 DEF Silent
<1>3. OpenInv => DeletedIsSpoilt
  BY DEF OpenInv
<1>4. QED
  BY <1>1, <1>2, <1>3, OpenStep, PushNotedStep, AlertTypeHolds, PTL DEF AlertSpec, SilenceKept

(* Only the check of a task counts its messages, so that what it has seen  *)
(* of the limit still holds when it writes the log.                        *)
PushLimits == \A t \in AlertTasks :
    /\ logged[t] <= PushCount - 1 + NumChannels
    /\ apc[t] \in {"ask", "send", "record"} => logged[t] < PushCount

LEMMA PushLimitsStep == AlertTypeInv /\ PushLimits /\ [AlertNext]_alertVars => PushLimits'
<1> SUFFICES ASSUME AlertTypeInv, PushLimits, [AlertNext]_alertVars PROVE PushLimits'
  OBVIOUS
<1>0. AlertNames
  BY DEF AlertTypeInv
<1>t. \A t \in AlertTasks : logged[t] \in Nat /\ arrived[t] \in 0..NumChannels
  BY DEF AlertTypeInv, AlertCounts
<1>c. PushCount \in Nat \ {0} /\ NumChannels \in Nat
  BY AlertsAssumption
<1>f. logged \in [AlertTasks -> Nat]
  BY DEF AlertTypeInv, AlertCounts
<1> USE DEF CheckAt, CheckGoto, QAt, QGoto, Dozing, QuietVars, columns, checkVars, requestVars,
            pastVars, NextChannel, CheckEnds, PushBegins, PushLimits, AtLimit
<1>1. CASE Tick \/ ClearLog
  BY <1>t, <1>c, <1>1 DEF Tick, ClearLog
<1>2. ASSUME NEW t \in AlertTasks, CheckStep(t) PROVE PushLimits'
  <2>1. CASE CheckLoads(t)
    BY <1>0, <1>t, <1>c, <1>f, <2>1 DEF CheckLoads, AlertNames
  <2>2. CASE Unwatch(t)
    BY <1>0, <1>t, <1>c, <1>f, <2>2 DEF Unwatch, AlertNames
  <2>3. CASE Trigger(t)
    BY <1>0, <1>t, <1>c, <1>f, <2>3 DEF Trigger, AlertNames
  <2>4. CASE Recover(t)
    BY <1>0, <1>t, <1>c, <1>f, <2>4 DEF Recover, AlertNames
  <2>5. CASE NothingNew(t)
    BY <1>0, <1>t, <1>c, <1>f, <2>5 DEF NothingNew, AlertNames
  <2>6. CASE AskLimit(t)
    BY <1>0, <1>t, <1>c, <1>f, <2>6 DEF AskLimit, AlertNames
  <2>7. CASE Sent(t)
    BY <1>0, <1>t, <1>c, <1>f, <2>7 DEF Sent, AlertNames
  <2>8. CASE NotSent(t)
    BY <1>0, <1>t, <1>c, <1>f, <2>8 DEF NotSent, AlertNames
  <2>9. CASE RecordPush(t)
    BY <1>0, <1>t, <1>c, <1>f, <2>9 DEF RecordPush, AlertNames
  <2>10. CASE PushFails(t)
    BY <1>0, <1>t, <1>c, <1>f, <2>10 DEF PushFails, AlertNames
  <2>11. CASE Note(t)
    BY <1>0, <1>t, <1>c, <1>f, <2>11 DEF Note, AlertNames
  <2>12. CASE NoteFails(t)
    BY <1>0, <1>t, <1>c, <1>f, <2>12 DEF NoteFails, AlertNames
  <2>13. QED
    BY <1>2, <2>1, <2>2, <2>3, <2>4, <2>5, <2>6, <2>7, <2>8, <2>9, <2>10, <2>11, <2>12 DEF CheckStep
<1>3. ASSUME NEW q \in AlertRequests, RequestStep(q) PROVE PushLimits'
  <2>1. ASSUME NEW t \in AlertTasks, NEW op \in {"edit", "toggle", "delete"}, RequestLoads(q, t, op)
        PROVE  PushLimits'
    BY <2>1 DEF RequestLoads
  <2>2. ASSUME NEW e \in {"on", "off"}, EditSaves(q, e)
        PROVE  PushLimits'
    BY <1>0, <1>t, <1>c, <1>f, <2>2 DEF EditSaves, AlertNames
  <2>3. CASE ToggleSaves(q)
    BY <1>0, <1>t, <1>c, <1>f, <2>3 DEF ToggleSaves, AlertNames
  <2>4. CASE SetJob(q)
    BY <2>4 DEF SetJob
  <2>5. CASE DropRow(q)
    BY <1>0, <1>t, <1>c, <1>f, <2>5 DEF DropRow, AlertNames
  <2>6. QED
    BY <1>3, <2>1, <2>2, <2>3, <2>4, <2>5 DEF RequestStep
<1>4. CASE UNCHANGED alertVars
  BY <1>4 DEF alertVars
<1>5. QED
  BY <1>1, <1>2, <1>3, <1>4 DEF AlertNext

(* A task exceeds its limit of the day by less than one push.              *)
THEOREM PushesAreBounded == AlertSpec => []PushesBounded
<1>1. AlertInit => PushLimits
  BY AlertsAssumption DEF AlertInit, PushLimits
<1>2. PushLimits => PushesBounded
  BY DEF PushLimits, PushesBounded
<1>3. QED
  BY <1>1, <1>2, PushLimitsStep, AlertTypeHolds, PTL DEF AlertSpec
-----------------------------------------------------------------------------
(* A behaviour of the three jobs side by side is one of each of them.      *)
LEMMA JobsParts == JobsSpec => Spec /\ WafSpec /\ AlertSpec
<1>1. JobsInit => Init /\ WafInit /\ AlertInit
  BY DEF JobsInit
<1>2. [JobsNext]_jobsVars =>
        /\ [Next]_vars
        /\ [WafNext]_wafVars
        /\ [AlertNext]_alertVars
  BY DEF JobsNext, jobsVars
<1>3. QED
  BY <1>1, <1>2, PTL DEF JobsSpec, Spec, WafSpec, AlertSpec

(* File transfer, log collection and alerts side by side: every variable   *)
(* keeps its type, and all that is proved of one job holds of the three.   *)
THEOREM JobsTypeCorrect == JobsSpec => []JobsTypeOK
  BY JobsParts, TypeCorrect, WafTypeCorrect, AlertTypeCorrect, PTL DEF JobsTypeOK
=============================================================================
