# A TLA+ model of RuYi-Panel

RuYi-Panel is a server administration panel: one Django process (daphne, with
concurrent request threads), an APScheduler thread pool, and several SQLite
databases behind a router. This directory holds TLA+ modules for the parts of
the panel where state, concurrency and failure meet, the TLC configurations that
check them on small instances, and TLAPS proofs for every size of them.
Source references are relative to the repository root, `src/`.

Contents:

1. [The system](#1-the-system)
2. [The modules and how they correspond to the code](#2-the-modules-and-how-they-correspond-to-the-code)
3. [What is checked](#3-what-is-checked)
4. [What is proved](#4-what-is-proved)
5. [What the code does otherwise](#5-what-the-code-does-otherwise)
6. [What is not modelled](#6-what-is-not-modelled)
7. [Plan](#7-plan)
8. [Running it](#8-running-it)

## 1. The system

Facts about the run-time environment that every module uses:

* **One process, many threads.** Requests run in parallel threads; background
  work runs in APScheduler's pool, in `ThreadPoolExecutor`s or in threads a view
  starts. Threads interleave between any two database statements.
* **Autocommit.** A statement of the ORM is atomic, a sequence of them is not.
  Where the code opens `transaction.atomic()` it does so on the database
  `default`, while most rows live elsewhere (`utils/dbRouters.py`), and SQLite
  ignores `select_for_update`.
* **Whole-row and filtered saves.** `instance.save()` writes every column, and
  inserts a row that was deleted meanwhile; `save(update_fields=...)` and
  `filter(...).update(...)` do nothing to a row that is gone.
* **Crash.** `start.py` ends the process with `os._exit`; threads die between two
  statements, rows, files and the job store survive.
* **The job store.** A date job leaves the store when it is submitted, and is
  dropped when an instance of the same id is still counted (`max_instances=1`).

### Inventory

| Component | State | Operations | Interacts with | Hard because | Must hold |
|---|---|---|---|---|---|
| File transfer (`apps/sysnode`: `transfer_executor.py`, `views/transfer_views.py`) | task and record rows, job store, an executor's memory | create, batch, start, cancel, retry, delete; the executor | scheduler, remote nodes (SSH, API) | requests and executor save the same rows; crashes; dropped jobs | complete means no failed file; a cancel stops the task; a deleted task stays deleted |
| Installation queue (`apps/systask`, `system/views/soft_shop.py`, `system/views/common.py`) | `SysTaskCenter` rows, job store | install, stop, delete; `executeNextTask`; callback; recovery | scheduler, installers | check-then-act across threads, lost wake-ups, restart | a waiting task is never forgotten; oldest first |
| AI chats (`apps/sysai/agent/core.py`, `views/chat.py`) | agent registry, stop flag, events, results, remembered approvals | chat, confirm, fill in a form, stop, idle clean-up | model provider, tools | a thread and a view per chat, timeouts, late answers, disconnections | nothing runs unapproved; a stop holds; every chat ends |
| Tool guardrail (`apps/sysai/agent/tool_guardrails.py`) | failure and repetition counters | check before a call, count after it | AI chats | shared by the chats of one agent | repeated failures are halted |
| Panel backup (`apps/sysbak`) | `PanelBackup` rows, archives, `data/backup.lock` | create, restore, delete, cancel, upload; two worker threads | file system, all data of the panel | jobs race deletions and each other, exceptions, crashes | a complete backup has its archive; no status without a job |
| Scheduled tasks (`apps/systask/tasks.py`, `scheduler.py`, `views/crontab_task.py`, `ai_cron_executor.py`) | `CrontabTask` rows, job store | create, update, run, stop, delete; the scheduler fires | scheduler, AI chats | row and job live in two places and are changed one after the other | a job has a row; a job is paused only when that was asked |
| Backups of a task (`apps/systask/tasks.py`, `apps/sysbak/models.py`) | `RuyiBackup` rows, archives | a run packs, lists and cleans up; the user deletes | scheduler, run-now | runs overlap, late saves, counts over several sites | rows and archives agree; the oldest goes first |
| Alerts (`apps/sysalert`) | `last_trigger`, `is_alerting`, logs and counters of the day, jobs | check, trigger, recover; edit, toggle, delete | scheduler, senders | time windows, limits, whole-row saves of stale rows | an alert stays open until it is closed; silence after a push |
| Login protection, one-time passwords (`utils/security`) | counters, bans and levels in a cache with expiry | allowed?, failure, success | login views | read and write of a cache entry in each request | see section 6 |
| WAF configuration (`apps/syswaf`: `views/waf_views.py`, `signals.py`, `services.py`; `utils/waf/lua/waf_init.lua`) | rows, JSON files, nginx configuration, shared dictionary | save, list changes, switch a site; synchronisation threads; reload; workers load | nginx, database signals | two threads per save write the same files; caches expire on their own | when nobody is at work nginx has been told what is saved |
| WAF logs (`utils/waf/lua/waf_sqlite.lua`, `WafLogSync` of `apps/syswaf/services.py`) | log files, checkpoint, rows | append, rotate; read, store, note, move | nginx workers, scheduler | several writers, crashes between two steps | what was read is stored, once; files arrive |
| WAF request control (`utils/waf/lua/waf_cc.lua`, `waf_rules.lua`) | counters in the shared dictionary | count, block, match | nginx workers | expiry | see section 6 |
| MCP client (`apps/sysai/mcp/client.py`) | request counter, pipe or event stream, pending answers | send and wait, listen, stop | threads of chats, external server | one connection for many threads, late answers, an exit of the server | a call returns its own answer or nothing, once |
| Certificate orders (`utils/security/letsencrypt_cert.py`, `views/ssl_cert_views.py`, `renewSSL`) | one JSON file with all orders, certificate directories, verification files, redirection to HTTPS | apply, renew, delete, deploy, nightly renewal | authority, web server | a dozen steps each of which may fail; every thread saves its own copy of the file | every job is brought to an end and leaves the site as it was set |
| Cloud storage (`apps/syscloud`) | cancel events, temporary files | upload, cancel, progress | provider SDKs | cancel races the last chunk, shared temporary names | a cancelled upload ends as cancelled |
| MySQL replication (`apps/sysnode/mysql_sync_service.py`) | replication row, locks on the master | the step sequence of a synchronisation | two MySQL servers | failure between lock and unlock | the master is unlocked in the end |
| Upgrade (`utils/upgrade_panel.py`) | panel files and their backup | back up, replace, check, retry, roll back | file system | failure at any step | old or new files, never a mixture |
| Sites, databases, files, Docker, nodes, domains, monitoring, settings, installers | configuration files, rows, the tools' own state | sequential handlers | command-line tools | mostly I/O | one operation at a time, see section 6 |

`PROJECT.json` lists every component with its sources and status, and the
hazards with the line at which each bites.

## 2. The modules and how they correspond to the code

Each component has a module with its state, one action per database statement or
step of control, and its properties; `MC` modules give it model values, and
`...Proofs` modules hold the theorems. `PROJECT.json` maps every definition to
the lines it stands for. Definitions marked *Mutant* are plausible errors in the
definition that follows them; they are used only to show that a property can
fail.

| Module | Code | Checked in | Proved in |
|---|---|---|---|
| `FileTransfer` | transfers between nodes | `MCFileTransfer` within `MCJobs`; `MCLiveness` | `FileTransferProofs` |
| `InstallQueue` | installation queue | `MCRequests`, `MCInstallQueue` | `RequestsProofs` |
| `AgentChat` | AI chats | `MCAgentChat`, `MCLiveness` | `AgentChatProofs` |
| `ToolGuardrail` | guardrail of tool calls | `MCToolGuardrail`, `MCPanel` | `ToolGuardrailProofs` |
| `BackupEngine` | panel backup and restore | `MCServices` | `ServicesProofs` |
| `CronTasks` | scheduled tasks | `MCPanel` | `PanelProofs` |
| `CronBackups` | backups of a task | `MCPanel` | `PanelProofs` |
| `PanelUpgrade` | upgrade of the panel | `MCPanel` | `PanelProofs` |
| `ToolCalls` | what an MCP transport promises (abstract) | through the next two | |
| `McpStdio`, `McpSse` | the two transports | `MCPanel`, `MCLiveness` | `TransportProofs` |
| `WafLogs` | collection of WAF logs | `MCJobs`, `MCLiveness` | `JobsProofs` |
| `WafConfig` | distribution of WAF settings | `MCServices` | `ServicesProofs` |
| `Alerts` | alerts of a website | `MCJobs` | `JobsProofs` |
| `CertOrders` | certificate orders | `MCRequests`, `MCCertOrders` | `RequestsProofs` |

The modules `MCJobs`, `MCRequests`, `MCServices`, `MCPanel` and `MCLiveness` put
several components side by side: a variable `part` says whose behaviour this is,
the others rest. They share no state in the code, so the union of the behaviours
is what there is to check. That a behaviour of the whole is one of each part is
proved (section 4).

### FileTransfer

`task`, `rec` and `jobs` are the rows of `FileTransferTask` and
`FileTransferRecord` and the job store. A request is a small program counter per
thread (`rpc`), because its load, check and save are separate statements:
`CreateCheck`, `InsertTask`, `InsertRecord`; `StartRead`, `StartSave`,
`Schedule`; `CancelRead`, `CancelSave`, `CancelRecords`; and so on for retry and
delete. The executor is one program counter per task (`pc`), since
`max_instances=1` keeps one alive: `Begin` (the unconditional save of
"running"), `Fetch`, `NextRecord` (with its look at the cancellation), `Mark`,
`Copy`, `SaveRecord`, `Refresh`, `Decide`, `Final`, `GiveUp`. `Submit` and
`Release` are APScheduler, modelled from how the panel uses it. How a single file
travels is left open: `Copy` may succeed, fail, skip or raise. `late` counts the
files begun since the last cancel that was saved, up to two; it is reset by a
cancel and by nothing else.

### InstallQueue

`st`, `app`, `jid` are the rows of `SysTaskCenter`. `executeNextTask` is a
subroutine that requests, installers and the start-up job call; each caller is a
thread with its own counter `epc` (`CheckRunning`, `PickOldest`, `AddJob` or
`AddJobRaises`, `SaveRow`). An installer reports by its job id (`Lookup`,
`Report`, `Purge`, then `executeNextTask`). `ReadRunning` and `MarkLost` are the
recovery at start-up, which asks the job store whether a running row is alive.
Any of these may raise: `NextRaises`, `RequestRaises`, `ReportRaises` (the callback
swallows it), `StartRaises`. `Backed` says that a job or an installer stands for a
task; `dead` remembers the running rows whose end nobody is going to record any
more.

### AgentChat

Two programs per chat: the agent loop in its thread (`pc`: `TurnHead`, `Model`,
`Call`, `Asked`, `Wait`, `Run`, `BatchDone`) and the view that consumes its
events (`view`: `Open`, `Start`, `Finish`, `Abandon`). `reply`, `event` are the
entries of `_confirm_results` and the `threading.Event` of the request in hand;
`reg` is the registry `_agents`, `flag` the stop flag, `rem` the remembered
approvals. The model and the tools are free: any answer, any error, any number
of calls up to a bound. An answer in the last turn leaves the stop flag set
(`FinalAnswer`), as the end of the loop does in the code.

### ToolGuardrail

The counters of `ToolCallGuardrailController` under the signatures the code
really hashes: `SigBefore` for the check and `SigAfter` for the count, which
differ because `_execute_tool` adds `session_id` in between.

### BackupEngine

`bs`, `rs` and `file` are the columns of `PanelBackup`, `disk` the archives.
Requests check, insert and submit in separate steps; the pool is a queue and two
threads. `Open`, `Flock`, `Close` and `Unlink` are the four system calls of the
lock file: `path` is the inode the path leads to, `handle` the inode a thread has
open, `locked` the threads that hold the flock. `lost` remembers the rows that
were in work when the process died.

### CronTasks

`job` is the job store, `row` the table; a handler is a program counter per
request (`step`) because it changes the two one after the other: `CreateAdd`,
`CreateSave` or `CreateRefused`; `UpdateFind`, `UpdatePause`, `UpdateModify`,
`UpdateResume`, `UpdateSave` with its exceptions; `DestroyRow`, `DestroyStop`,
`DestroyRemove`; `StatusJob`, `StatusSave`. The job store can fail at any of them:
`UpdateStuck` is a handler of an exception that fails itself, `DestroyFails` the
failure that `destroy` swallows with the job still stored, `HandlerFails` the same
elsewhere; `lost` keeps the jobs it happened to. `Fire` is the scheduler, which drops
a one-time job with its run.

### CronBackups

A run of a backup task (`rpc`): `TakeSite`, `Pack`, `AddRow`, `Link`, `Save`, then
`Count`, `Pick`, `RemoveFile`, `ForgetRow` for the surplus. The scheduler's run and
run-now overlap, and the user deletes meanwhile. `rows` is ordered by `create_at`,
`revived` the rows a late whole-row save inserted again, `strays` what a failed or
killed step left behind.

### PanelUpgrade

`_do_update_panel`: `BackupCopy`, `DeleteWeb`, `UpdateCopy`, the comparison with
up to three attempts (`Again`, `GiveUp`, `Succeed`), `RestoreCopy`, `RolledBack`.
The update may stop at any file of any attempt and go to the rollback
(`UpdateStops`), and the rollback may be cut short unnoticed (`RollbackStops`).
Each copy may silently leave a file old, torn or missing; a few calls raise; the
process may be killed and the upgrade started again. A file's content is one of
old, new, torn or none.

### ToolCalls, McpStdio, McpSse

`ToolCalls` is the promise: every call has a number of its own and ends at most
once, with the server's answer to it or with nothing. `McpStdio` writes header
and content in two writes and reads them in two reads on one pair of pipes, so
the messages of threads mix: `ReadOther` takes the answer of another call, and
`ReadAstray` stands for every read that is not a header followed by its content,
bytes of any number of messages read short, torn or not. `McpSse` has
a listener that puts answers aside by number (`ListenerStores`) and callers that
wait for a limited time (`TakeAnswer`, `TimeIsUp`). Both define a refinement mapping
by INSTANCE and claim the promise as a property.

### WafLogs

nginx workers append to files of their own and open a new one every five minutes;
the job lists the files, reads, stores in batches, saves the checkpoint and moves
the file. A batch, a checkpoint or a move may fail, the process may die, and a file
may hold bytes that are no UTF-8. A write may fail half-way (`WriteFails`): the file
stays open and the next line follows the cut one, so a line that is no JSON may be
anywhere. The two counts of the code are kept apart: `Found` skips as many physical
lines as the checkpoint says, and `Insert` advances the checkpoint by the lines that
parsed (`Entries`).

### WafConfig

One site. `globalRow`, `siteRow` are the rows, and that of the site may be missing:
`CreateSite` makes it, `SaveSite` saves it, `BatchUpdate` writes it past every signal,
`Unhook`, `DropRow` and `CommitDelete` are a deletion with its transaction. A save
starts a thread (`at`, "signal"), and a request for the global configuration writes
the files itself ("own"); each reads the row, writes or drops the file, includes or
removes the module, goes on to the sites, reloads; `todo` is what a `sync_all` has left.
A failed write of a file or of `nginx.conf` is ignored as in the code (`WriteFails`,
`IncludeFails`). `set_site_waf` adds or removes the hook of the site. `conf` is what the
files of nginx say, `running` what it has loaded; `globalCache`, `siteCache`,
`memory` are what the workers have read, each with its own expiry. `raced` names
what an older copy, a deletion, requests that overlap, a batch update or a failure
has put out of step.

### Alerts

A check (`apc`) loads its row, measures, pushes through the channels one after the
other (`AskLimit`, `Sent` or `NotSent`, `RecordPush`) and notes two columns; requests
(`qpc`) edit, toggle and delete with whole-row saves. Time is a small clock with
days; `open` remembers the pushed alerts that nobody closed. `spoilt` names the
tasks whose row cannot be trusted: an edit has written an old row back, a push or a
note has failed, or the row was deleted; the next note that is saved puts it right
(`Mended`).

### CertOrders

`orderFile` is the JSON file with all orders, `mem[j]` the copy of job `j`: it
is read at the start, changed and saved whole after every step. `ToolStep` is
the sequence of `letsencryptTool`: `StartTool`, `Check` (which puts the redirection
to HTTPS off), `CreateOrder`, `ClearFiles`, `PlaceFile` or `AlreadyValid`, `Validated`,
`GetCertificate`, `Download`, `InstallCert`, `Keep`, `RenewDone`; `StepFails` is any
exception, `FailApply`, `CloseApply`, `FailRenew`, `LoseRenew` the handlers, and `Die`
the death of the process, or a handler that raises itself, between any two steps; `killed`
remembers the orders it leaves behind. Requests read
and save the file in two steps as well. `NightlyList` and `NightlyTake` are
`renewSSL`. `force` is the redirection, `wish` what the user has set; `Age` lets sixty
days pass.

## 3. What is checked

| Run | What and within which bounds | Properties | Result (distinct states) |
|---|---|---|---|
| `background_jobs` | FileTransfer: 1 task, 2 files, 2 requests, every operation, crashes. WafLogs: 2 workers, 2 files, 3 lines, 1 fault. Alerts: 1 task, 1 request at a time, 2 channels, clock up to 4 | `JobsTypeOK`, `CompleteMeansNoFailure`, `CancelStopsNewFiles`, `DeletedForever`; `ReadIsStored`, `StoredOnce`; `AlertsStayOpen`, `SilenceKept` | hold (3.9 million) |
| `liveness` | FileTransfer: 1 task, 2 files, 2 requests, batch, cancel and delete. AgentChat: 2 chats, 1 turn, 1 call. McpSse: 2 callers, 3 calls. WafLogs: 1 worker, 2 files, 1 line, 1 fault. All fair | `CompleteMeansAllHandled`, `TransferringIsOwned`, `RunningEnds`; `ChatsEnd`; `SseKeepsPromise`, `SseCallEnds`; `FilesArrive` | hold (0.2 million) |
| `requests` | InstallQueue: 2 tasks, 2 programs, 1 request at a time, every operation, crashes. CertOrders: 2 jobs, 2 orders of one site, 3 requests or ended threads | `RequestsTypeOK`, `QueueNotAbandoned`, `OldestFirst`; `JobsSettle` | hold (4.2 million) |
| `agent_chat` | AgentChat: 2 chats, 2 turns, 2 calls, 1 retry, idle clean-up | `TypeOK`, `NoUnapprovedTool`, `StopHolds`, `Answerable` | hold (4.2 million) |
| `services` | BackupEngine: 2 rows, 2 threads, 1 request at a time, queue of 1, crashes. WafConfig: 2 requests, 3 saves, 1 mishap | `ServicesTypeOK`, `DoneHasArchive`, `RunningIsOwned`, `WaitingIsOwned`; `ConfFollowsRows` | hold (2.8 million) |
| `panel_parts` | CronTasks: 2 jobs, 2 requests. CronBackups: 2 sites, 2 runs, 3 archives, 1 deletion or failure. PanelUpgrade: 2 files, 2 upgrades. McpStdio: 3 callers, 3 calls. ToolGuardrail: 2 threads, 3 tools, thresholds 1 and 2 | `PanelTypeOK`; `JobHasRow`, `PausedWasAsked`; `RowsMatchArchives`, `DropsOldest`; `SuccessLeavesNoOld`, `RollbackRestores`, `ChangedIsBackedUp`; `StdioKeepsPromise`; `SameToolHalts`, `McpRepeatsBlocked`, `FailuresAreOpen` | hold (1.6 million) |
| `queue_lost_callback` | InstallQueue: 1 task, installation only | `RunningIsBacked` | **violated** |
| `guardrail_repeats` | ToolGuardrail: 1 thread, the thresholds of the code | `RepeatsBlocked` | **violated** |
| `retention_loses_newest` | CronBackups: 2 sites, 1 run, no failure | `SiteKeepsOne` | **violated** |
| `upgrade_incomplete` | PanelUpgrade: 2 files, 1 upgrade | `SuccessIsComplete` | **violated** |
| `waf_logs_lost` | WafLogs: 1 worker, 1 file, 2 lines, no fault | `NothingLost` | **violated** |
| `renewal_stops` | CertOrders: 1 job, 1 order, 2 requests | `DueIsSeen` | **violated** |

**Why these bounds.** Two of everything that races (requests, runs, chats, worker
threads, callers, orders) give every pairwise interleaving; two files, lines or
calls make "the rest of the batch" non-empty; the second row of BackupEngine is the
safety backup of a restore, or an upload that shares a name. With three callers a
thread of McpStdio can read a reply that neither of two others has asked for. A day of
three time units, a silence of two and a limit of two messages let a silence end
within a day and across two. The thresholds of the guardrail are lowered so that
each is reached by two threads; `MaxCount` lies above them.

Some bounds cut behaviours by a state constraint, each for the size of the state
space: `FewLines` (three lines in one log file, or two in two files), `FewMessages`
(a second message of a day through the second channel is the last), `FewArchives`
(three archives of one site or directory, two of two sites), `FewTools` (failures of
one tool at a time), `FewSaves` (a mishap takes the place of a save, the third save is
made alone, and the site's entry of the dictionary is filled around the first save
only), `TwoCallers` (two calls of `executeNextTask` at a time), `FirstApp` and `FirstOrder`
(of two interchangeable programs or orders the first is used first), and
`NoLostUpdate` of CertOrders. The last is more than a bound: once an older copy of the
file has been saved nothing holds, and `JobsSettle` says so in its premise; such states
are not followed further, so the run does not show what such a save does.

The proofs of section 4 remove the bounds for the safety properties. Symmetry is
used only over interchangeable requests, jobs, runs, threads and chats, and never in a
run with a liveness property.

**Fairness.** `liveness` asks for weak fairness of what runs by itself: request
threads of a transfer, the scheduler's submission of a stored job and the executor,
its copies left out (`ExceptCopy`); the steps a chat takes by itself
(`AgentStepInside`) and its view; the threads that call a tool; the job that reads the
WAF logs. The server, the scheduler and the pools run as long as the process does, and
none of these steps waits for a user or for the other end of a connection. A wait for a
user and a call through the event stream have a time-out in the code, and the time-out
is what fairness reaches. Where the code has none, the property has a premise instead:
`RunningEnds` holds if copies end (`[]<>(pc[t] # "copy")`), since an SFTP channel has a
time limit for its connection only (`ssh_client.py`), and `ChatsEnd` if the calls of
the model and of the tools come back, since a call through the pipes of an MCP server
reads without a time-out (`client.py:196-203`). For the same reason no liveness is
stated of McpStdio. Workers, users, the model and the tool server are not fair.

`RunningEnds` and `CompleteMeansAllHandled` are stated for tasks that are started by
the request that makes them and are not retried (`StartedByMaker`), and without crashes
the first. The run leaves `start` and `retry` out accordingly, and shows nothing of the
hazards that come from them: with them the code keeps neither (section 5). There is one
fault of the log job.

**Deadlock.** The models may stop: rows, chats and requests are bounded and users
may do nothing. The passing runs say `CHECK_DEADLOCK FALSE` for that reason.

**Abstract and detailed.** `ToolCalls` is implemented by both transports of the
MCP client (`StdioKeepsPromise`, `SseKeepsPromise`), under the mapping at the end of
`McpStdio` and `McpSse`: a call is open while its thread is in `send_request`. For
the pipes this is not obvious, as threads read the messages of one another.

## 4. What is proved

Each theorem is for every value of the constants under the `ASSUME` of its
module: any number of rows, tasks, files, threads, chats and requests, with
crashes where the model has them. What a property exempts, its theorem exempts too.

* **FileTransfer.** `TypeCorrect` (with what a save has in memory, and that a
  request past its check has a task), `CompleteTasksHaveNoFailure`,
  `TransferringRecordsAreOwned`, `CancelStopsAfterOneFile`, `DeletionIsFinal`,
  `CompleteTasksAreHandled`.
  The heart is `IOutcome`: while an executor works, its task is not shown as
  complete, and from `Decide` on what it is about to report agrees with the
  records. `CompleteMeansNoFailure` alone is not inductive, because the final
  save writes what an earlier query has found. `ILate` bounds the file that had
  passed the check before the cancel came; it speaks of a row that still says
  "cancelled", for a cancel that a start, a retry or the first save of the executor
  has overwritten stops nothing (section 5). `CompleteTasksAreHandled` is for tasks that
  the request which makes them starts and nobody retries (`StartedByMaker`), with
  cancels, deletions and crashes: `StartedOnce` says that such a task has one run,
  begun when its rows are there, `TriedSoFar` that what the executor has passed it has
  tried, `FirstRun` that no run before left a record in transfer. The hypothesis is
  needed. TLC shows a start between two inserts of the creating request, which
  fetches half of the records and reports "complete", and a retry that takes a
  cancellation back when the executor has left its loop for it, which then reports
  "complete" with untouched records. A record left in transfer by a crash is never
  fetched again by a later start either.
* **InstallQueue** (`RequestsProofs`). `TypeCorrect`, `QueueIsNotAbandoned`, `JobsInOrder`. Two
  facts give the first. `Watched`: while a task waits, a row is running, or somebody is
  on his way through `executeNextTask`, or the last call has raised; a step that takes a
  task out of "running", or a waiting task into view, leaves its own thread there.
  `RunningRows`: every running row has a job or an installer, or a recovery, a stop or a
  deletion is about to settle it, or nobody will (`dead`). Behind a `dead` row the queue
  does stand, and after a call that raised; the property says so, and `queue_lost_callback`
  is such a row. For the order, `IOrder` says that
  rows are created in order and that the row a thread has picked is still the
  oldest waiting one until its job is stored.
* **AgentChat.** `TypeCorrect` (with the limits of the loop), and
  `ToolsAreApproved` from `Approvals`: a stale reply is never left over for a new
  request, and an event that is set with reply "yes" was an approval.
  `StopsAreKept` and `WaitingChatsAreAnswerable` from `StopInv`: a chat that has had the
  session to itself keeps its agent registered or stopped while its view is open
  (`Sole`); the agent of a thread that outlives its view cannot be found by a later
  chat (`Away`, `Fresh`), so that nobody starts a stopped agent again, and the one
  confirmed tool that begins late is counted by `OneLate`.
* **CertOrders** (`RequestsProofs`). `CertTypeCorrect`, `JobsAreSettled`. The property
  speaks of the moments when no job is at work; `CertInv` says what holds in between.
  Every step of a job writes its own order in its copy, reads or leaves, so a copy that
  is not outdated is the file (`Copies`), and the order of a job is known to no other
  before it is created (`NewOrders`). As long as there was no clash, an order that is not
  over has a job that applies for it or renews it (`Pursued`); a redirection that is off
  against its user's wish was put off by a renewal at work (`Redirections`), which finds
  its order in its copy when it puts it back (`PutOff`, `NotCutOff`). Orders whose
  thread was ended in the middle, and their sites, are exempt (`killed`): nothing in the
  code takes them up again.
* **ToolGuardrail.** `TypeCorrect`, `ToolsAreHalted`, `ExternalRepeatsAreBlocked`,
  `HeldFailuresAreOpen`. A limit is checked when a call begins and counted when it has
  failed, so the invariant counts the threads in between by their cardinality. The
  failures a tool is held to are a sum over its calls; it is stated as the
  cardinality of the set of numbered failures, which needs no induction over data.
* **BackupEngine** (`ServicesProofs`). `TypeCorrect`, `RunningJobsAreOwned`,
  `WaitingJobsAreOwned`, `DoneBackupsHaveArchives`. The owner of a waiting row is
  handed from a request to the queue to a thread (`Owned`). `DoneHasArchive` needs
  more: a row has at most one job in its life (`OneJobEach`), names no archive
  before that job is done (`Fresh`), and an archive that is packed but not yet named
  cannot be found by any deletion (`Names`, `PackedOnDisk`).
* **WafConfig** (`ServicesProofs`). `ConfTypeCorrect`, `SettingsArrive`. The
  property speaks of the moments when nobody is at work; `ConfInv` says what holds in
  between. Unless the row is in `raced`, a file that differs from its row has a
  thread that will write it and has not read an older status (`GlobalInv`, `SiteInv`),
  nginx differs from its files only while a thread has still to reload (`ServedInv`),
  and the hook follows the row whose request is past its save (`HookInv`). `RacedAfter`
  is what makes this more than a list of exceptions: a save that meets no older copy under
  way takes its row out of `raced` again, whatever had happened to it, and from then on
  files and nginx have to follow. Of two saves that race, of a batch update and of a failed
  step the theorem says nothing else than that.
* **CronTasks** (`PanelProofs`). `CronTypeCorrect`, `JobsHaveRows`,
  `PausesAreAsked`. The properties allow for any request at work on the job; `RowInv`
  and `PauseInv` name the steps at which one may be, which is what makes them inductive.
  A job that a crash or a failure of the job store has left behind, also one that `destroy`
  has swallowed, is in `lost` and exempt.
* **CronBackups** (`PanelProofs`). `BakTypeCorrect`, `RowsAndArchivesMatch`,
  `OldestIsDropped`. Archives are numbered as they are made, an archive without a row
  is known to one run only (`Unlisted`) and `rows` stays without repetitions
  (`Distinct`), so that lemmas on inserting and deleting a row give the order of any two. `Removed`: whoever is about to delete a row has removed the
  archive. `OldestAtHand`: the archive a run is about to remove, unless it is gone
  already, has no older one of its site before it, though others delete meanwhile.
  `NewestAreKept`: for one site or directory, with one run at a time and nothing failed
  or deleted by hand, the last `saveNums` of all the archives ever packed are kept at
  every moment, and nothing else once the run is done. By `RowsInOrder` the rows are
  those of the last archives in their order, and by `Surplus` no row is dropped that is
  not beyond `SaveNums`. Each hypothesis is needed: with two sites, or with two runs, TLC
  finds the newest archive dropped (section 5).
* **WafLogs** (`JobsProofs`). `WafTypeCorrect`, `ReadLinesAreStored`,
  `LinesAreStoredOnce`. `StoredInv`: no checkpoint, on disk, in memory or of the file at hand, is
  ahead of the rows. `OnceInv`: unless something was upset, the one a run starts from
  is not behind them either, as far as no line before it failed to parse: behind such a
  line the checkpoint, which counts entries, lags, and lines may be stored twice.
* **Alerts** (`JobsProofs`). `AlertTypeCorrect`, `OpenAlertsStayOpen`,
  `SilenceIsKept`, `PushesAreBounded`. `OpenInv`: a deleted row is not trusted again,
  and what is being closed is not open. `PushNoted`: outside of a push the row, and
  the copy a check works on, are as new as the last push, which an edit cannot undo
  without being noticed (`spoilt`). Both properties exempt the tasks in `spoilt`: an edit
  with an old row, a deleted task, and a push whose log or whose note could not be saved,
  each until the next note is saved. In those cases the code loses the alert or the
  silence, and nothing here says that it does not. `PushLimits`: only the check of a task counts
  its messages, so the limit it has looked at still holds at the end of its push.
* **PanelUpgrade** (`PanelProofs`). `UpgTypeCorrect`, `SuccessLeavesNothingOld`, `RollbackIsComplete`,
  `ChangesAreBackedUp`. Only files the package replaces and the web files change
  (`Outside`), they are backed up first (`Backed`), and what a later comparison no
  longer looks at is not old (`PassedOver`). Files whose copy to or from the backup failed,
  and those a rollback that was cut short had not come to, are exempt (`spoiled`).
* **McpStdio, McpSse** (`TransportProofs`). `SseImplementsToolCalls` and
  `StdioImplementsToolCalls`: the initial state maps to one, and every step to a step
  of `ToolCalls` or to a stutter. The invariants say that active threads have
  different, open requests and that what the pipes carry back was carried out; a read
  that went astray returns nothing and tears the rest of the pipe (`RestOfQueue`).

* **The compositions.** `JobsTypeCorrect`, `RequestsTypeCorrect`, `ServicesTypeCorrect`,
  `PanelTypeCorrect`: the type invariants that the composed runs check. They follow from
  the lemmas `JobsParts`, `RequestsParts`, `ServicesParts` and `PanelParts`, by which a
  behaviour of the components side by side is a behaviour of each of them; so every
  theorem about a component holds of the composition as well.

With this every invariant and action property of the passing runs is a theorem. Only
model-checked are the liveness properties (`RunningEnds`, `ChatsEnd`, `SseCallEnds`,
`FilesArrive`), since liveness under fairness is out of the prover's reach. The
inductive invariants were checked by TLC on small instances before they were proved.

## 5. What the code does otherwise

Six runs exhibit a disagreement between the code and what a comment, a text or a
document of it says; `PROJECT.json` quotes the lines under `findings`.

* An installer that fails before `execute_task` has saved its job id finds no row;
  the row says "running" for ever and the queue waits for it
  (`queue_lost_callback`).
* A tool call is counted under another signature than it is looked up under
  (`guardrail_repeats`).
* The backups to drop are counted over all sites of a task but dropped from the
  site at hand, so a run with two sites drops the backup it has just made
  (`retention_loses_newest`).
* An upgrade reports success with files missing: a file that is missing after the
  first attempt is not copied again and no longer compared (`upgrade_incomplete`).
* A log file is moved while its worker still has it open; what the worker appends
  afterwards is never read (`waf_logs_lost`).
* A renewal that fails after its order was created has lost the old `cert_timeout`;
  the nightly command skips the order from then on (`renewal_stops`).

### Disagreements without a run of their own

These properties are stated in their modules, and TLC finds them violated when they
are added to a run.

* `CancelIsKept` of FileTransfer. A start saves "running" and stores the job; a cancel
  reads and saves "cancelled"; the executor then begins with an unconditional save of
  "running" (`transfer_executor.py:32`), although it says later that a cancelled
  task keeps its status (`:81-82`).
* `RunningEnds` and `CompleteMeansAllHandled` of FileTransfer without their premise. A
  `start_transfer` between the last save of an executor and its return saves "running",
  and its job is dropped; one between two inserts of the creating request fetches half of
  the records and reports "complete"; a retry may take a cancellation back when the
  executor has left its loop for it.
* `OneRunning` of InstallQueue. Two threads are in `executeNextTask` and both find
  nothing running; the first picks a task and saves it as running; the second, past
  the check, picks the next.
* `AutoAnswerCounts` of AgentChat. In a synchronous chat the automatic approval is
  given when the request is put in the queue, before the loop registers its wait,
  and is never seen; the loop waits until the time-out.
* `StoppedIsPaused` of CronTasks. An update resumes the job whatever the status of
  the row, so a task shown as stopped runs.
* `ResumesExactly` of WafLogs ("the number of lines processed is noted for each file",
  `services.py:789`). The checkpoint counts the lines that parsed (`:1015`, `:1025`) and the
  next read skips as many physical ones (`:873-884`); behind a line that was cut by a
  failed write it lags, and a run after a failed insert stores lines twice.
* `ProgressIsKept` of WafLogs ("does not lose the progress", `services.py:791`). A file
  with no new line gets checkpoint 0 before it is moved; when the move fails, the next
  run stores all of it again.
* `HookHasModule` of WafConfig. The hook of a site stays in nginx's configuration when
  the WAF is switched off for all sites, and then names a module that is not loaded
  (the switches of sites are independent, `README.md:65`). `ReloadIsFresh`
  (`signals.py:62`): a worker may cache the old file again between the write and the
  reload. `SiteIsProtected` (`waf_views.py:278-287`, message `:295`): a site that is on
  is not protected while the global status is off.
* `SiteKeepsOne` of CronBackups fails for a single site or directory too when run-now overlaps with
  the scheduler: each run counts the surplus before the other has dropped, and together
  they drop more than the surplus.
* `PushesBounded` of Alerts is what does hold of a task's limit: the last push that is
  within `push_count` still goes to every channel.
* `NoLostUpdate` of CertOrders. Every job saves its whole copy of the file, so jobs
  and requests at work at the same time undo one another; an order that is not there
  when the file is read again ends its thread with a `KeyError`, and neither `over`
  nor the redirection is set.

Seen while reading, outside what the modules state:

* **Backup.** `release_lock` closes the lock file and then unlinks the path, so a
  thread that has opened the file in between locks an inode nobody else can find,
  and two jobs may work at once. A restore is submitted right after its safety
  backup, and with two threads one of them usually fails on the lock. A cancel only
  changes the status: the thread goes on and reports "done" over it. A backup deleted
  after a cancel leaves its archive on disk. After a crash a restore that was
  running is shown as running for ever and every later one is refused. Two
  uploads of one file name share the file, and deleting one row removes both.
  A backup schedule creates a shell job of the text `backup_schedule:<id>`, which
  never starts a panel backup.
* **Transfer.** Two creations that pass the check at the same time both insert. A
  job dropped by `max_instances` leaves its task "running" without an executor.
* **Queue.** Two installation requests for the same program may both pass; a full
  `save()` brings a deleted row back. The recovery at start-up asks for the job of a running
  row, which has left the store when its installer is at work, so one that was started
  meanwhile is marked as failed (`system/views/common.py:17`).
* **Chats.** A second request of a session resets the stop flag of the first, and
  the end of one chat removes and stops the agent of the other; `StopHolds` and
  `Answerable` are therefore stated for chats that had the session to themselves.
* **Scheduled tasks.** `tasks.py:316` calls `check_cron_fail` with two arguments where
  `sysalert/tasks.py:591` takes one, so alerts on failed tasks never fire. Database
  backups ignore `saveNums`. A job whose row is refused on creation stays in the store, and
  so does one that `destroy` could not remove: the row is deleted first and the exception
  swallowed (`crontab_task.py:258-265`), so it runs on unseen.
  The thread of an AI job goes on after its time-out.
* **Alerts.** The daily limit of a channel is exceeded when checks of several tasks
  interleave, since the counter is read and written by each. An edit that saves the
  row after a deletion inserts it again, without a job. A recovery starts a new silence
  period (`sysalert/tasks.py:684`), so a failure that follows at once is not reported.
* **WAF.** `save_basic` and the batch update change a status without changing the
  hook, and after a batch update nothing is written to the files either; concurrent saves
  of different fields write back a stale status, and one that meets an older copy under
  way may leave the files behind the rows until the next save; the results of writing the
  files and `nginx.conf` are ignored (`services.py:201`);
  `set_site_waf` never returns a failure, so the branch that rolls back is dead. A log
  file with bytes that are no UTF-8 blocks every later one.
* **Certificates.** The redirection to HTTPS is put off "for the time being" and
  comes back only when a renewal fails, never when it succeeds. Emptying the
  directory of verification files removes those of another order of the site. A
  renewal that has downloaded its certificate and could not deploy it records the
  new end of validity while the site serves the old one. `renew_certificate` swallows
  its exceptions, so `renewSSL` counts failures as successes. A reader that finds
  the file empty, because it is just being written, replaces account and orders by
  nothing. Nothing takes up an order that a dead process left open (`killed` in the model).
* **Cloud storage.** The temporary file is named after the file, the cancel event
  after the task: equal ones are shared. The providers swallow the `InterruptedError`
  of a cancelled upload (`aliyun_oss.py:120`, `s3_compat.py:175`, `tencent_cos.py:130`), so the
  status "cancelled" is never reached.
* **MySQL replication.** `config_replication` hands a nested function to the job store,
  which cannot serialise it: the job is never stored and the request fails.

## 6. What is not modelled

* Within the modelled components: the route of a single file and its conflict
  policies; what an installer, a tool or the language model does; the contents of
  a backup and its item-by-item restore; batch deletion of backups and the
  Windows variant of the lock; AI jobs and their time-out; alerts other than those of
  websites, which share the steps of a push; several sites of the WAF, its lists and rules; the account
  at a certificate authority and the protocol with it; progress messages and logs.
* The components with status `not_modelled` in `PROJECT.json`. Login protection and the
  counters of `waf_cc.lua` are increments of a store whose entries expire by themselves.
  Cloud storage is a thread per upload around a provider's SDK; the steps of a
  MySQL synchronisation cannot be reached (section 5). Sites, databases, Docker, nodes,
  domains, monitoring and settings are sequential handlers around command-line
  tools and provider APIs: their correctness is in text and I/O that a state
  machine would only repeat. Most of the repository's lines are of this kind, or
  installers, or the web front end, and that is why the mapped share is small.

## 7. Plan

Done, in this order: FileTransfer, InstallQueue, AgentChat, ToolGuardrail, BackupEngine,
CronTasks and CronBackups, PanelUpgrade, the MCP client with its abstract
specification, WafLogs, Alerts, WafConfig, CertOrders.

Left, in order of importance:

1. **File route**: refine `Copy` of FileTransfer by the routes of
   `transfer_executor.py` (local, SFTP, API, relay), the conflict policies and the
   temporary file of a relay.
2. **Task life cycle**: an abstract specification (submitted, running, ended; never
   back, ended once) which the queue, the transfer and the backup implement where they do.
3. AI jobs of the scheduler and their time-out, composed with AgentChat.

## 8. Running it

```
tlasany BackupEngine.tla
tlc -workers 2 -config services.cfg MCServices
tlapm ServicesProofs.tla
```

The longest run takes under three minutes on two cores.
