------------------------------- MODULE Alerts -------------------------------
(***************************************************************************)
(* The alert tasks of the panel (apps/sysalert): a job per watched website *)
(* measures it, pushes an alert through the notification channels of its   *)
(* task, notes the time and that the task is alerting, and pushes a        *)
(* recovery later.  Requests edit, toggle and delete the task meanwhile.   *)
(*                                                                         *)
(* A check works on the row it loaded when it began.  Its last step saves  *)
(* two columns of it; an edit saves the whole row it loaded.               *)
(***************************************************************************)
EXTENDS Integers, FiniteSets

CONSTANTS
    AlertTasks,
    AlertRequests,   \* requests that may be at work at the same time
    NumChannels,     \* channels of every task, tried in the order of 1..NumChannels;
                     \* a task without any notes one message that was not sent
    Silence,         \* silence_minutes, 30 by default
    PushCount,       \* push_count, 10 by default
    DailyLimit,      \* daily_limit of a channel, 3 by default
    DayLength,       \* time units of a day
    MaxTime          \* bound of the clock

ASSUME AlertsAssumption ==
    /\ NumChannels \in Nat \ {0} /\ Silence \in Nat /\ PushCount \in Nat \ {0}
    /\ DailyLimit \in Nat /\ DayLength \in Nat \ {0} /\ MaxTime \in Nat \ {0}

Channels == 1..NumChannels
Times    == 0..MaxTime     \* 0: never

VARIABLES
    clock,
    alertRow,     \* alertRow[t]: "on" (is_enabled), "off" or "none"
    lastTrigger,  \* lastTrigger[t]: column last_trigger
    isAlerting,   \* tasks whose column is_alerting is true
    watched,      \* tasks whose job alert_check_website_<id> is registered
    logged,       \* logged[t]: successful rows of AlertLog made today
    sentToday,    \* sentToday[c]: AlertDailyCounter of the channel for today
    apc,          \* apc[t]: next step of the check of t
    seenLast,     \* seenLast[t]: last_trigger of the row the check has loaded
    seenOn,       \* tasks whose loaded row was alerting
    news,         \* news[t]: "alert" or "recovery"
    channel,      \* channel[t]: the channel whose turn it is
    counter,      \* counter[t]: the count read from it, -1: of yesterday
    arrived,      \* arrived[t]: messages of this push that were sent
    qpc,          \* qpc[q]: next step of request q
    qtask,        \* qtask[q]: its task
    qrow,         \* qrow[q]: is_enabled of the row it has loaded
    qlast,        \* qlast[q]: last_trigger of it
    qon,          \* requests whose loaded row was alerting
    pushedAt,     \* history: pushedAt[t]: when the last push of t began
    open,         \* history: tasks with an alert pushed and not yet closed
    spoilt        \* history: tasks whose row is not what their last push noted or was
                  \* to note

checkVars   == <<apc, seenLast, seenOn, news, channel, counter, arrived>>
requestVars == <<qpc, qtask, qrow, qlast, qon>>
columns     == <<alertRow, lastTrigger, isAlerting>>
pastVars    == <<pushedAt, open, spoilt>>
alertVars   == <<clock, columns, watched, logged, sentToday, checkVars, requestVars, pastVars>>

AlertInit ==
    /\ clock = 1
    /\ alertRow = [t \in AlertTasks |-> "on"] /\ watched = AlertTasks
    /\ lastTrigger = [t \in AlertTasks |-> 0] /\ isAlerting = {}
    /\ logged = [t \in AlertTasks |-> 0] /\ sentToday = [c \in Channels |-> 0]
    /\ apc = [t \in AlertTasks |-> "idle"] /\ seenLast = [t \in AlertTasks |-> 0] /\ seenOn = {}
    /\ news = [t \in AlertTasks |-> "alert"] /\ channel = [t \in AlertTasks |-> 1]
    /\ counter = [t \in AlertTasks |-> 0] /\ arrived = [t \in AlertTasks |-> 0]
    /\ qpc = [q \in AlertRequests |-> "idle"]
    /\ qtask \in [AlertRequests -> AlertTasks]
    /\ qrow = [q \in AlertRequests |-> "on"] /\ qlast = [q \in AlertRequests |-> 0] /\ qon = {}
    /\ pushedAt = [t \in AlertTasks |-> 0] /\ open = {} /\ spoilt = {}

(* At midnight the counts of the day begin anew; a count that a sender has *)
(* in hand belongs to the row of yesterday.                                *)
Tick ==
    /\ clock < MaxTime /\ clock' = clock + 1
    /\ IF clock' % DayLength = 0
       THEN /\ logged' = [t \in AlertTasks |-> 0] /\ sentToday' = [c \in Channels |-> 0]
            /\ counter' = [t \in AlertTasks |-> -1]
       ELSE UNCHANGED <<logged, sentToday, counter>>
    /\ UNCHANGED <<columns, watched, apc, seenLast, seenOn, news, channel, arrived,
                   requestVars, pastVars>>

-----------------------------------------------------------------------------
(* A check.  The scheduler runs one instance of a job at a time.           *)

CheckAt(t, step)   == apc[t] = step
CheckGoto(t, step) == apc' = [apc EXCEPT ![t] = step]

Put(S, x, yes) == IF yes THEN S \cup {x} ELSE S \ {x}

CheckLoads(t) ==
    /\ CheckAt(t, "idle") /\ t \in watched
    /\ IF alertRow[t] = "on" THEN CheckGoto(t, "measure") ELSE CheckGoto(t, "unwatch")
    /\ seenLast' = [seenLast EXCEPT ![t] = lastTrigger[t]]
    /\ seenOn' = Put(seenOn, t, t \in isAlerting)
    /\ UNCHANGED <<clock, columns, watched, logged, sentToday, news, channel, counter, arrived,
                   requestVars, pastVars>>

(* The row is gone or disabled.                                            *)
Unwatch(t) ==
    /\ CheckAt(t, "unwatch") /\ CheckGoto(t, "idle")
    /\ watched' = watched \ {t}
    /\ UNCHANGED <<clock, columns, logged, sentToday, seenLast, seenOn, news, channel, counter,
                   arrived, requestVars, pastVars>>

Silent(t)    == seenLast[t] # 0 /\ clock < seenLast[t] + Silence
AtLimit(t)   == logged[t] >= PushCount
QuietVars    == <<clock, columns, watched, logged, sentToday, seenLast, seenOn, counter,
                  requestVars>>

PushBegins(t, what) ==
    /\ CheckGoto(t, "ask")
    /\ news' = [news EXCEPT ![t] = what]
    /\ channel' = [channel EXCEPT ![t] = 1]
    /\ arrived' = [arrived EXCEPT ![t] = 0]
    /\ pushedAt' = [pushedAt EXCEPT ![t] = clock]
    /\ open' = Put(open, t, what = "alert")
    /\ UNCHANGED <<QuietVars, spoilt>>

CheckEnds(t) == CheckGoto(t, "idle") /\ UNCHANGED <<QuietVars, news, channel, arrived, pastVars>>

(* The site is down: _trigger_alert.                                       *)
Trigger(t) ==
    /\ CheckAt(t, "measure")
    /\ IF Silent(t) \/ AtLimit(t) THEN CheckEnds(t) ELSE PushBegins(t, "alert")

(* It is up and was alerting: _trigger_recovery.  At the limit nothing is  *)
(* pushed, and the alert is closed.                                        *)
Recover(t) ==
    /\ CheckAt(t, "measure") /\ t \in seenOn
    /\ IF AtLimit(t)
       THEN /\ CheckGoto(t, "close") /\ open' = open \ {t}
            /\ UNCHANGED <<QuietVars, news, channel, arrived, pushedAt, spoilt>>
       ELSE PushBegins(t, "recovery")

(* It is up, or it was not measured.                                       *)
NothingNew(t) == CheckAt(t, "measure") /\ CheckEnds(t)

NextChannel(t) ==
    /\ channel' = [channel EXCEPT ![t] = @ + 1]
    /\ CheckGoto(t, IF channel[t] < NumChannels THEN "ask" ELSE "record")

(* AlertNotifier.send: the limit of the channel, then the message.         *)
AskLimit(t) ==
    /\ CheckAt(t, "ask")
    /\ IF sentToday[channel[t]] < DailyLimit
       THEN /\ counter' = [counter EXCEPT ![t] = sentToday[channel[t]]]
            /\ CheckGoto(t, "send") /\ UNCHANGED channel
       ELSE NextChannel(t) /\ UNCHANGED counter
    /\ UNCHANGED <<clock, columns, watched, logged, sentToday, seenLast, seenOn, news, arrived,
                   requestVars, pastVars>>

(* The counter is saved as one more than what was read before.             *)
Sent(t) ==
    /\ CheckAt(t, "send") /\ NextChannel(t)
    /\ arrived' = [arrived EXCEPT ![t] = @ + 1]
    /\ sentToday' = IF counter[t] = -1 THEN sentToday
                    ELSE [sentToday EXCEPT ![channel[t]] = counter[t] + 1]
    /\ UNCHANGED <<clock, columns, watched, logged, seenLast, seenOn, news, counter,
                   requestVars, pastVars>>

(* The channel is disabled or gone, it is not its hour, the send fails.    *)
NotSent(t) ==
    /\ apc[t] \in {"ask", "send"} /\ NextChannel(t)
    /\ UNCHANGED <<clock, columns, watched, logged, sentToday, seenLast, seenOn, news, counter,
                   arrived, requestVars, pastVars>>

(* A row of AlertLog for every channel.                                    *)
RecordPush(t) ==
    /\ CheckAt(t, "record") /\ CheckGoto(t, "note") /\ alertRow[t] # "none"
    /\ logged' = [logged EXCEPT ![t] = @ + arrived[t]]
    /\ UNCHANGED <<clock, columns, watched, sentToday, seenLast, seenOn, news, channel, counter,
                   arrived, requestVars, pastVars>>

(* The task has been deleted, or the database is locked: the exception     *)
(* ends the check, whatever has been sent.                                 *)
PushFails(t) ==
    /\ apc[t] \in {"ask", "record"} /\ CheckGoto(t, "idle")
    /\ \E n \in 0..arrived[t] :
          /\ apc[t] = "ask" \/ alertRow[t] = "none" => n = 0
          /\ logged' = [logged EXCEPT ![t] = @ + n]
    /\ spoilt' = spoilt \cup {t}
    /\ UNCHANGED <<clock, columns, watched, sentToday, seenLast, seenOn, news, channel, counter,
                   arrived, requestVars, pushedAt, open>>

(* A note saves the row: one that was spoilt before is right again.        *)
Mended(t) == {u \in {t} : apc[u] = "note" /\ alertRow[u] # "none"}

(* Mutant: the time of a push is saved for alerts only.                    *)
Note_AlertsOnly(t) ==
    /\ apc[t] \in {"note", "close"} /\ CheckGoto(t, "idle")
    /\ IF alertRow[t] = "none"
       THEN UNCHANGED <<lastTrigger, isAlerting>>
       ELSE /\ isAlerting' = Put(isAlerting, t, apc[t] = "note" /\ news[t] = "alert")
            /\ lastTrigger' = IF apc[t] = "note" /\ news[t] = "alert"
                              THEN [lastTrigger EXCEPT ![t] = clock] ELSE lastTrigger
    /\ spoilt' = spoilt \ Mended(t)
    /\ UNCHANGED <<clock, alertRow, watched, logged, sentToday, seenLast, seenOn, news, channel,
                   counter, arrived, requestVars, pushedAt, open>>

(* save(update_fields=...): of a row that is gone it raises, and ends the  *)
(* check all the same.                                                     *)
Note(t) ==
    /\ apc[t] \in {"note", "close"} /\ CheckGoto(t, "idle")
    /\ IF alertRow[t] = "none"
       THEN UNCHANGED <<lastTrigger, isAlerting>>
       ELSE /\ isAlerting' = Put(isAlerting, t, apc[t] = "note" /\ news[t] = "alert")
            /\ lastTrigger' = IF apc[t] = "note"
                              THEN [lastTrigger EXCEPT ![t] = clock] ELSE lastTrigger
    /\ spoilt' = spoilt \ Mended(t)
    /\ UNCHANGED <<clock, alertRow, watched, logged, sentToday, seenLast, seenOn, news, channel,
                   counter, arrived, requestVars, pushedAt, open>>

NoteFails(t) ==
    /\ apc[t] \in {"note", "close"} /\ CheckGoto(t, "idle")
    /\ spoilt' = spoilt \cup {t}
    /\ UNCHANGED <<clock, columns, watched, logged, sentToday, seenLast, seenOn, news, channel,
                   counter, arrived, requestVars, pushedAt, open>>

-----------------------------------------------------------------------------
(* Requests.                                                               *)

QAt(q, step)   == qpc[q] = step
QGoto(q, step) == qpc' = [qpc EXCEPT ![q] = step]
Dozing         == <<clock, logged, sentToday, checkVars, pushedAt, open>>

RequestLoads(q, t, op) ==
    /\ QAt(q, "idle") /\ alertRow[t] # "none"
    /\ QGoto(q, op)
    /\ qtask' = [qtask EXCEPT ![q] = t]
    /\ qrow'  = [qrow EXCEPT ![q] = alertRow[t]]
    /\ qlast' = [qlast EXCEPT ![q] = lastTrigger[t]]
    /\ qon'   = Put(qon, q, t \in isAlerting)
    /\ UNCHANGED <<Dozing, columns, watched, spoilt>>

(* put: the whole row is saved, a deleted one inserted again.  The job is  *)
(* registered anew if the task was disabled or its interval changes.       *)
EditSaves(q, enabled) ==
    LET t == qtask[q] IN
    /\ QAt(q, "edit")
    /\ \/ enabled = "off" /\ QGoto(q, "unwatch")
       \/ enabled = "on" /\ QGoto(q, "watch")
       \/ enabled = "on" /\ qrow[q] = "on" /\ QGoto(q, "idle")
    /\ alertRow'    = [alertRow EXCEPT ![t] = enabled]
    /\ lastTrigger' = [lastTrigger EXCEPT ![t] = qlast[q]]
    /\ isAlerting'  = Put(isAlerting, t, q \in qon)
    /\ spoilt' = Put(spoilt, t, t \in spoilt \/ qlast[q] # lastTrigger[t]
                                \/ ((q \in qon) # (t \in isAlerting)))
    /\ UNCHANGED <<Dozing, watched, qtask, qrow, qlast, qon>>

(* Mutant: the toggle saves the whole row.                                 *)
ToggleSaves_WholeRow(q) ==
    LET t == qtask[q] IN
    /\ QAt(q, "toggle")
    /\ IF alertRow[t] = "none" THEN QGoto(q, "idle") /\ UNCHANGED columns
       ELSE /\ alertRow' = [alertRow EXCEPT ![t] = IF qrow[q] = "on" THEN "off" ELSE "on"]
            /\ lastTrigger' = [lastTrigger EXCEPT ![t] = qlast[q]]
            /\ isAlerting'  = Put(isAlerting, t, q \in qon)
            /\ QGoto(q, IF qrow[q] = "on" THEN "unwatch" ELSE "watch")
    /\ UNCHANGED <<Dozing, watched, spoilt, qtask, qrow, qlast, qon>>

(* The toggle saves one column; of a row that is gone, it raises.          *)
ToggleSaves(q) ==
    LET t == qtask[q] IN
    /\ QAt(q, "toggle")
    /\ IF alertRow[t] = "none" THEN QGoto(q, "idle") /\ UNCHANGED alertRow
       ELSE /\ alertRow' = [alertRow EXCEPT ![t] = IF qrow[q] = "on" THEN "off" ELSE "on"]
            /\ QGoto(q, IF qrow[q] = "on" THEN "unwatch" ELSE "watch")
    /\ UNCHANGED <<Dozing, lastTrigger, isAlerting, watched, spoilt, qtask, qrow, qlast, qon>>

SetJob(q) ==
    /\ \/ QAt(q, "watch") /\ watched' = watched \cup {qtask[q]} /\ QGoto(q, "idle")
       \/ QAt(q, "unwatch") /\ watched' = watched \ {qtask[q]} /\ QGoto(q, "idle")
       \/ QAt(q, "delete") /\ watched' = watched \ {qtask[q]} /\ QGoto(q, "drop")
    /\ UNCHANGED <<Dozing, columns, spoilt, qtask, qrow, qlast, qon>>

(* task.delete: its log goes with it.                                      *)
DropRow(q) ==
    /\ QAt(q, "drop") /\ QGoto(q, "idle")
    /\ alertRow' = [alertRow EXCEPT ![qtask[q]] = "none"]
    /\ logged'   = [logged EXCEPT ![qtask[q]] = 0]
    /\ spoilt'   = spoilt \cup {qtask[q]}
    /\ UNCHANGED <<clock, lastTrigger, isAlerting, watched, sentToday, checkVars, pushedAt, open,
                   qtask, qrow, qlast, qon>>

(* AlertLogClearView: the rows older than so many days, with 0 all of them.*)
ClearLog ==
    /\ logged' = [t \in AlertTasks |-> 0]
    /\ UNCHANGED <<clock, columns, watched, sentToday, checkVars, requestVars, pastVars>>

CheckStep(t) ==
    \/ CheckLoads(t) \/ Unwatch(t) \/ Trigger(t) \/ Recover(t) \/ NothingNew(t)
    \/ AskLimit(t) \/ Sent(t) \/ NotSent(t) \/ RecordPush(t) \/ PushFails(t)
    \/ Note(t) \/ NoteFails(t)

RequestStep(q) ==
    \/ \E t \in AlertTasks : \E op \in {"edit", "toggle", "delete"} : RequestLoads(q, t, op)
    \/ \E enabled \in {"on", "off"} : EditSaves(q, enabled)
    \/ ToggleSaves(q) \/ SetJob(q) \/ DropRow(q)

AlertNext ==
    \/ Tick \/ ClearLog
    \/ \E t \in AlertTasks : CheckStep(t)
    \/ \E q \in AlertRequests : RequestStep(q)

AlertSpec == AlertInit /\ [][AlertNext]_alertVars
-----------------------------------------------------------------------------
(* Properties.                                                             *)

AlertTypeOK ==
    /\ clock \in 1..MaxTime
    /\ alertRow \in [AlertTasks -> {"on", "off", "none"}]
    /\ lastTrigger \in [AlertTasks -> Times] /\ isAlerting \subseteq AlertTasks
    /\ watched \subseteq AlertTasks
    /\ logged \in [AlertTasks -> Nat] /\ sentToday \in [Channels -> 0..DailyLimit]
    /\ apc \in [AlertTasks -> {"idle", "measure", "unwatch", "ask", "send", "record", "note", "close"}]
    /\ seenLast \in [AlertTasks -> Times] /\ seenOn \subseteq AlertTasks
    /\ news \in [AlertTasks -> {"alert", "recovery"}]
    /\ channel \in [AlertTasks -> 1..(NumChannels + 1)]
    /\ counter \in [AlertTasks -> -1..DailyLimit]
    /\ arrived \in [AlertTasks -> 0..NumChannels]
    /\ qpc \in [AlertRequests -> {"idle", "edit", "toggle", "delete", "drop", "watch", "unwatch"}]
    /\ qtask \in [AlertRequests -> AlertTasks] /\ qrow \in [AlertRequests -> {"on", "off"}]
    /\ qlast \in [AlertRequests -> Times] /\ qon \subseteq AlertRequests
    /\ pushedAt \in [AlertTasks -> Times]
    /\ open \subseteq AlertTasks /\ spoilt \subseteq AlertTasks

(* An alert that was pushed stays open: the row says so until a recovery   *)
(* is pushed or the daily limit forbids one, whatever requests do          *)
(* meanwhile.  The row loses it (spoilt) when an edit writes back the row  *)
(* it had loaded before, when the task is deleted, and when the log of the *)
(* push or its note cannot be saved; until the next push that is noted.    *)
AlertsStayOpen ==
    \A t \in open \ spoilt :
        apc[t] \in {"ask", "send", "record", "note"} \/ t \in isAlerting

(* After a push, alert or recovery, the next alert of the task waits for   *)
(* the silence to pass, unless the row has lost the time of the push in    *)
(* one of those ways: then the next check alerts at once.                  *)
SilenceKept ==
    [][\A t \in AlertTasks \ spoilt :
           apc[t] = "measure" /\ apc'[t] = "ask" /\ news'[t] = "alert" /\ pushedAt[t] # 0
               => clock >= pushedAt[t] + Silence]_alertVars

(* Tasks, not messages, are held to push_count: the last push of the day   *)
(* that is within it goes to every channel.                                *)
PushesBounded == \A t \in AlertTasks : logged[t] <= PushCount - 1 + NumChannels
=============================================================================
