------------------------------ MODULE WafLogs ------------------------------
(***************************************************************************)
(* The way of a WAF log line into the database.  Each nginx worker appends *)
(* to a file of its own and opens a new one every five minutes             *)
(* (utils/waf/lua/waf_sqlite.lua); a job of the panel reads the files      *)
(* every three seconds, stores their lines in batches, notes in a          *)
(* checkpoint how far it got, and moves each file away                     *)
(* (apps/syswaf/services.py, WafLogSync).                                  *)
(*                                                                         *)
(* The job store holds a pickled WafLogSync, so what a run remembers in it *)
(* (time stamp of the directory, skipped scans) is not relied upon here: a *)
(* run that skips the scan changes nothing.                                *)
(***************************************************************************)
EXTENDS Naturals, FiniteSets

CONSTANTS
    Workers,     \* nginx workers
    MaxFiles,    \* bound: log files
    MaxLines,    \* bound: lines of a file
    BatchSize,   \* BATCH_SIZE, 200 in the code
    MaxFaults    \* bound: exceptions and crashes

ASSUME WafLogsAssumption ==
    /\ MaxFiles \in Nat /\ MaxLines \in Nat /\ MaxFaults \in Nat
    /\ BatchSize \in Nat \ {0}

LogFiles == 1..MaxFiles   \* in the order of their names, which begin with the time
Lines    == 1..MaxLines

VARIABLES
    handle,   \* handle[w]: the file worker w has open, 0 for none
    size,     \* size[f]: complete lines of f
    torn,     \* files that end in an incomplete line
    bad,      \* bad[f]: complete lines of f that are no JSON
    garbled,  \* files with bytes that are no UTF-8
    place,    \* place[f]: "nowhere", "logs" or "processed"
    stored,   \* stored[f][n]: rows made of line n of f
    saved,    \* saved[f]: _checkpoint.json, 0 for no entry
    wpc,      \* where the run of the job stands
    check,    \* the checkpoint in memory
    unsynced, \* the pending files still to do
    file,     \* the file at hand
    read,     \* read[f]: lines of f the last read of it has seen
    found,    \* entries: lines of the file at hand that are still to store
    upto,     \* processed_lines: the checkpoint and the entries stored since
    enabled,  \* waf_status is not "off"
    upset,    \* history: the process died, or the checkpoint or a move failed
    faults    \* exceptions and crashes so far

written == <<handle, size, torn, bad, garbled>>
atHand  == <<unsynced, file, read, found, upto>>
wafVars == <<written, place, stored, saved, wpc, check, atHand, enabled, upset, faults>>

Nothing == [f \in LogFiles |-> 0]

WafInit ==
    /\ handle = [w \in Workers |-> 0]
    /\ size = Nothing /\ torn = {} /\ bad = [f \in LogFiles |-> {}] /\ garbled = {}
    /\ place = [f \in LogFiles |-> "nowhere"]
    /\ stored = [f \in LogFiles |-> [n \in Lines |-> 0]]
    /\ saved = Nothing /\ check = Nothing /\ read = Nothing
    /\ wpc = "idle" /\ unsynced = {} /\ file = 0 /\ found = {} /\ upto = 0
    /\ enabled = TRUE /\ upset = FALSE /\ faults = 0

syncVars == <<place, stored, saved, wpc, check, atHand, enabled, upset, faults>>

-----------------------------------------------------------------------------
(* A worker.                                                               *)

(* open_log_file: the first log, or the first after five minutes.          *)
OpenFile(w, f) ==
    /\ place[f] = "nowhere" /\ \A g \in LogFiles : g < f => place[g] # "nowhere"
    /\ handle' = [handle EXCEPT ![w] = f]
    /\ place' = [place EXCEPT ![f] = "logs"]
    /\ UNCHANGED <<size, torn, bad, garbled, stored, saved, wpc, check, atHand,
                   enabled, upset, faults>>

(* insert_attack_log: a long line becomes visible piece by piece.          *)
WriteBegins(w) ==
    /\ handle[w] # 0 /\ handle[w] \notin torn /\ size[handle[w]] < MaxLines
    /\ torn' = torn \cup {handle[w]}
    /\ UNCHANGED <<handle, size, bad, garbled, syncVars>>

LineEnds(w) ==
    /\ handle[w] # 0 /\ handle[w] \in torn
    /\ torn' = torn \ {handle[w]}
    /\ size' = [size EXCEPT ![handle[w]] = @ + 1]
    /\ \/ UNCHANGED garbled
       \/ garbled' = garbled \cup {handle[w]}
    /\ UNCHANGED <<handle, syncVars>>

(* The request may hold bytes that are no UTF-8; cjson copies them.        *)
WriteEnds(w) == LineEnds(w) /\ UNCHANGED bad

(* f:write reports a failure and raises nothing, so that nobody closes the *)
(* file: what was cut ends with its own newline or runs into the next      *)
(* entry, and is no JSON.                                                  *)
WriteFails(w) ==
    /\ LineEnds(w)
    /\ bad' = [bad EXCEPT ![handle[w]] = @ \cup {size[handle[w]] + 1}]

(* Five minutes are over, or the worker ends: every reload of nginx starts *)
(* others in its place.  A last line may be cut within a character.        *)
CloseFile(w) ==
    /\ handle[w] # 0
    /\ handle' = [handle EXCEPT ![w] = 0]
    /\ \/ UNCHANGED garbled
       \/ handle[w] \in torn /\ garbled' = garbled \cup {handle[w]}
    /\ UNCHANGED <<size, torn, bad, syncVars>>

-----------------------------------------------------------------------------
(* The job.                                                                *)

Fault == faults < MaxFaults /\ faults' = faults + 1

(* sync: the checkpoint is loaded, the files are listed.                   *)
SyncBegins ==
    /\ wpc = "idle" /\ enabled
    /\ check' = saved
    /\ unsynced' = {f \in LogFiles : place[f] = "logs"}
    /\ wpc' = "next"
    /\ UNCHANGED <<written, place, stored, saved, file, read, found, upto, enabled, upset, faults>>

SyncEnds ==
    /\ wpc = "next" /\ unsynced = {}
    /\ wpc' = "idle"
    /\ UNCHANGED <<written, place, stored, saved, check, atHand, enabled, upset, faults>>

Oldest(f) == f \in unsynced /\ \A g \in unsynced : f <= g

(* The first lines, as many as the checkpoint says, are passed over, and   *)
(* so is a line that is no JSON: an incomplete one, or a cut one.          *)
Entries(f, n) == {k \in Lines : check[f] < k /\ k <= n} \ bad[f]

(* Mutant: a file without new lines is left where it is.                   *)
Found_LeavesEmpty(f, n) ==
    /\ file' = f
    /\ read' = [read EXCEPT ![f] = n]
    /\ found' = Entries(f, n) /\ upto' = check[f]
    /\ IF found' # {}
       THEN wpc' = "insert" /\ UNCHANGED unsynced
       ELSE wpc' = "next" /\ unsynced' = unsynced \ {f}
    /\ UNCHANGED <<written, place, stored, saved, check, enabled, upset>>

(* A read has come to line n.  A file that yields no entry is moved like   *)
(* one that is done, and its checkpoint is set to 0.                       *)
Found(f, n) ==
    /\ file' = f
    /\ read' = [read EXCEPT ![f] = n]
    /\ found' = Entries(f, n) /\ upto' = check[f]
    /\ IF found' # {}
       THEN wpc' = "insert" /\ UNCHANGED check
       ELSE wpc' = "save" /\ check' = [check EXCEPT ![f] = 0]
    /\ UNCHANGED <<written, place, stored, saved, unsynced, enabled, upset>>

ReadFile(f) ==
    /\ wpc = "next" /\ Oldest(f) /\ f \notin garbled
    /\ \/ Found(f, size[f])
       \/ f \in torn /\ Found(f, size[f] + 1)   \* all but the end of line is there
    /\ UNCHANGED faults

(* _read_log_entries swallows an IOError and returns what it has read.     *)
ReadBreaks(f) ==
    /\ wpc = "next" /\ Oldest(f) /\ Fault
    /\ \E n \in check[f]..size[f] : Found(f, n)

(* A UnicodeDecodeError is no IOError: it ends the run at this file.       *)
ReadGarbled(f) ==
    /\ wpc = "next" /\ Oldest(f)
    /\ \/ f \in garbled /\ UNCHANGED faults
       \/ f \in torn /\ Fault
    /\ wpc' = "idle"
    /\ UNCHANGED <<written, place, stored, saved, check, atHand, enabled, upset>>

Batch == {n \in found : Cardinality({k \in found : k < n}) < BatchSize}

InsertBatch ==
    /\ wpc = "insert"
    /\ stored' = [stored EXCEPT ![file] =
                    [n \in Lines |-> IF n \in Batch THEN @[n] + 1 ELSE @[n]]]
    /\ found' = found \ Batch
    /\ upto' = upto + Cardinality(Batch)
    /\ wpc' = IF Cardinality(found) < BatchSize THEN "save" ELSE "save batch"
    /\ UNCHANGED <<written, place, saved, unsynced, file, read, enabled, upset, faults>>

(* Mutant: the checkpoint is not advanced between two batches.             *)
Insert_NotCounted == InsertBatch /\ UNCHANGED check

(* bulk_create of a full batch, or of the rest.  The checkpoint counts     *)
(* entries, though the next read passes over lines by their numbers.       *)
Insert == InsertBatch /\ check' = [check EXCEPT ![file] = upto']

(* Mutant: a batch that cannot be inserted is passed over.                 *)
InsertFails_PassedOver ==
    /\ wpc = "insert" /\ Fault
    /\ found' = {} /\ wpc' = "save"
    /\ UNCHANGED <<written, place, stored, saved, check, unsynced, file, read, upto, enabled, upset>>

(* An exception of bulk_create ends the run.                               *)
InsertFails ==
    /\ wpc = "insert" /\ Fault
    /\ wpc' = "idle"
    /\ UNCHANGED <<written, place, stored, saved, check, atHand, enabled, upset>>

Saving == wpc \in {"save batch", "save", "forget"}

(* Where _save_checkpoint returns to.                                      *)
AfterSave ==
    /\ \/ wpc = "save batch" /\ wpc' = IF found # {} THEN "insert" ELSE "save"
       \/ wpc = "save"       /\ wpc' = "move"
       \/ wpc = "forget"     /\ wpc' = "next"
    /\ unsynced' = IF wpc = "forget" THEN unsynced \ {file} ELSE unsynced
    /\ UNCHANGED <<written, place, stored, check, file, read, found, upto, enabled>>

SaveCheckpoint ==
    /\ Saving /\ AfterSave
    /\ saved' = check
    /\ UNCHANGED <<upset, faults>>

(* An IOError is logged; the file has been truncated when it was opened.   *)
SaveFails ==
    /\ Saving /\ AfterSave /\ Fault
    /\ saved' \in {saved, Nothing}
    /\ upset' = TRUE

MoveFile ==
    /\ wpc = "move"
    /\ place' = [place EXCEPT ![file] = "processed"]
    /\ check' = [check EXCEPT ![file] = 0]
    /\ wpc' = "forget"
    /\ UNCHANGED <<written, stored, saved, atHand, enabled, upset, faults>>

(* As on Windows, while a worker has the file open.                        *)
MoveFails ==
    /\ wpc = "move" /\ Fault
    /\ wpc' = "idle" /\ upset' = TRUE
    /\ UNCHANGED <<written, place, stored, saved, check, atHand, enabled>>

(* The WAF is switched off or on; a run at work goes on.                   *)
Switch ==
    /\ enabled' = ~enabled
    /\ UNCHANGED <<written, place, stored, saved, wpc, check, atHand, upset, faults>>

(* The panel dies, perhaps while it writes the checkpoint.                 *)
WafCrash ==
    /\ wpc # "idle" /\ Fault
    /\ wpc' = "idle" /\ upset' = TRUE
    /\ saved' \in IF Saving THEN {saved, check, Nothing} ELSE {saved}
    /\ UNCHANGED <<written, place, stored, check, atHand, enabled>>

Job ==
    \/ SyncBegins \/ SyncEnds \/ Insert \/ SaveCheckpoint \/ MoveFile
    \/ \E f \in LogFiles : ReadFile(f) \/ ReadGarbled(f)

WafNext ==
    \/ \E w \in Workers : \/ \E f \in LogFiles : OpenFile(w, f)
                          \/ WriteBegins(w) \/ WriteEnds(w) \/ WriteFails(w)
                          \/ CloseFile(w)
    \/ Job
    \/ \E f \in LogFiles : ReadBreaks(f)
    \/ InsertFails \/ SaveFails \/ MoveFails \/ Switch \/ WafCrash

WafSpec == WafInit /\ [][WafNext]_wafVars

(* The scheduler starts the job every three seconds, and a run goes on.    *)
WafFairSpec == WafSpec /\ WF_wafVars(Job)
-----------------------------------------------------------------------------
(* Properties.                                                             *)

WafDataOK ==
    /\ handle \in [Workers -> 0..MaxFiles]
    /\ size \in [LogFiles -> 0..MaxLines]
    /\ torn \subseteq LogFiles /\ garbled \subseteq LogFiles
    /\ bad \in [LogFiles -> SUBSET Lines]
    /\ place \in [LogFiles -> {"nowhere", "logs", "processed"}]
    /\ stored \in [LogFiles -> [Lines -> Nat]]
    /\ saved \in [LogFiles -> 0..MaxLines]
    /\ wpc \in {"idle", "next", "insert", "save batch", "save", "move", "forget"}
    /\ check \in [LogFiles -> 0..MaxLines]
    /\ unsynced \subseteq LogFiles
    /\ file \in 0..MaxFiles
    /\ wpc \notin {"idle", "next"} => file \in LogFiles
    /\ read \in [LogFiles -> 0..MaxLines]
    /\ found \subseteq Lines
    /\ upto \in 0..MaxLines
    /\ faults \in 0..MaxFaults

WafTypeOK == WafDataOK /\ enabled \in BOOLEAN /\ upset \in BOOLEAN

(* A file is moved away only when every entry that the last read of it has *)
(* seen is in the database, whatever failed before: the checkpoint is      *)
(* never ahead of the rows.                                                *)
ReadIsStored ==
    \A f \in LogFiles : place[f] = "processed" =>
        \A n \in Lines \ bad[f] : n <= read[f] => stored[f][n] > 0

(* Unless the panel died, or the checkpoint or a move failed, no line is   *)
(* stored twice, also when inserts fail between two batches; but for lines *)
(* after one that is no JSON: there the checkpoint, which counts entries,  *)
(* is behind.                                                              *)
StoredOnce ==
    ~upset => \A f \in LogFiles : \A n \in Lines :
                 stored[f][n] > 1 => \E k \in bad[f] : k < n

(* VIOLATED BY THE CODE.  What is stored is not stored again when a run    *)
(* goes on where another has failed ("the number of lines processed is     *)
(* noted for each file", services.py:789): a cut line shifts the count.    *)
ResumesExactly == ~upset => \A f \in LogFiles : \A n \in Lines : stored[f][n] <= 1

(* VIOLATED BY THE CODE.  No line of a file that was moved away is missing *)
(* ("no log is lost when the panel restarts or a worker crashes",          *)
(* waf_sqlite.lua:4).  The worker still has the file open and its next     *)
(* lines go where nobody reads.                                            *)
NothingLost ==
    \A f \in LogFiles : place[f] = "processed" =>
        \A n \in Lines \ bad[f] : n <= size[f] => stored[f][n] > 0

(* VIOLATED BY THE CODE.  The checkpoint of a file still to do does not go *)
(* back ("a failure does not lose the progress", services.py:791).  A file *)
(* with no new line gets checkpoint 0 before it is moved; when the move    *)
(* fails, the next run stores all of it again.                             *)
ProgressIsKept ==
    [][~upset' => \A f \in LogFiles : place'[f] = "logs" => saved'[f] >= saved[f]]_wafVars

(* A log file is moved away in the end, as long as the WAF stays enabled   *)
(* and no file holds bytes that are no UTF-8: such a file keeps every      *)
(* later one waiting for good.                                             *)
FilesArrive ==
    \A f \in LogFiles :
        place[f] = "logs" ~> (place[f] = "processed" \/ ~enabled \/ garbled # {})
=============================================================================
