------------------------------ MODULE MCPanel ------------------------------
(***************************************************************************)
(* Instances of five parts of the panel for TLC, checked side by side:     *)
(* scheduled tasks, the backups of a task, the panel upgrade, the stdio    *)
(* transport of the MCP client and the tool guardrail of an agent.  They   *)
(* share no state; a behaviour is one of one part, the others stay as they *)
(* begin.                                                                  *)
(***************************************************************************)
EXTENDS CronTasks, CronBackups, PanelUpgrade, McpStdio, MCToolGuardrail, TLC

CONSTANTS j1, j2, q1, q2, s1, s2, u1, u2, f1, f2, k1, k2, k3

TwoJobs     == {j1, j2}
TwoRequests == {q1, q2}
TwoSites    == {s1, s2}
TwoRuns     == {u1, u2}
TwoFiles    == {f1, f2}
ThreeChats  == {k1, k2, k3}

Symmetric ==
    Permutations(TwoRequests) \cup Permutations(TwoRuns) \cup Permutations(TwoJobs)

(* Bound: three archives of one site or directory, two of two sites.       *)
FewArchives == Cardinality(items) = 1 \/ made < MaxArchives

(* Bound: failures of one tool at a time.  The counters of tools are apart. *)
FewTools == Cardinality({t \in Tools : same[t] > 0}) <= 1

VARIABLE part   \* the part whose behaviour this is

Parts == {"cron", "backups", "upgrade", "stdio", "guardrail"}

(* One of the initial states of the parts that have several.               *)
CronRests    == CronInit /\ target = [q \in TwoRequests |-> j1]
BackupsBegin == BakInit /\ items # {s2}
BackupsRest  == BakInit /\ kind = "site" /\ items = TwoSites
UpgradeRests == UpgInit /\ (\A f \in TwoFiles : area[f] = "panel" /\ panel[f] = "old")
                        /\ package = TwoFiles

PanelInit ==
    /\ part \in Parts
    /\ IF part = "cron"    THEN CronInit ELSE CronRests
    /\ IF part = "backups" THEN BackupsBegin ELSE BackupsRest
    /\ IF part = "upgrade" THEN UpgInit  ELSE UpgradeRests
    /\ StdioInit
    /\ Init      \* of ToolGuardrail

PanelNext ==
    \/ /\ part = "cron" /\ CronNext
       /\ UNCHANGED <<part, bakVars, upgVars, stdioVars, vars>>
    \/ /\ part = "backups" /\ BakNext
       /\ UNCHANGED <<part, cronVars, upgVars, stdioVars, vars>>
    \/ /\ part = "upgrade" /\ UpgNext
       /\ UNCHANGED <<part, cronVars, bakVars, stdioVars, vars>>
    \/ /\ part = "stdio" /\ StdioNext
       /\ UNCHANGED <<part, cronVars, bakVars, upgVars, vars>>
    \/ /\ part = "guardrail" /\ Next
       /\ UNCHANGED <<part, cronVars, bakVars, upgVars, stdioVars>>

panelVars == <<part, cronVars, bakVars, upgVars, stdioVars, vars>>

PanelSpec == PanelInit /\ [][PanelNext]_panelVars
-----------------------------------------------------------------------------
(* Every variable of every part has its type.                              *)
PanelTypeOK ==
    /\ CronTypeOK /\ BakTypeOK /\ UpgTypeOK /\ StdioTypeOK
    /\ TypeOK
=============================================================================
