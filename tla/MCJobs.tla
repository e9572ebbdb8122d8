------------------------------- MODULE MCJobs -------------------------------
(***************************************************************************)
(* Instances of three background jobs of the panel for TLC, checked side   *)
(* by side: the transfer of files to nodes, the collection of WAF logs and *)
(* the alerts of a watched website.  They share no state; a behaviour is   *)
(* one of one part, the others stay as they begin.                         *)
(***************************************************************************)
EXTENDS MCFileTransfer, WafLogs, Alerts

CONSTANTS w1, w2, a1, q1

TwoWorkers   == {w1, w2}
OneAlertTask == {a1}
OneRequest   == {q1}

JobSymmetry == RequestSymmetry \cup Permutations(TwoWorkers)

(* Bounds: three lines in one log file, or two in two files; one message a *)
(* day through the second channel.                                         *)
FewLines    == size[1] + size[2] <= IF place[2] = "nowhere" THEN 3 ELSE 2
FewMessages == sentToday[2] <= 1

FewEvents == FewLines /\ FewMessages

VARIABLE part   \* the part whose behaviour this is

Parts == {"transfer", "waf", "alerts"}

JobsInit ==
    /\ part \in Parts
    /\ Init        \* of FileTransfer
    /\ WafInit
    /\ AlertInit

JobsNext ==
    \/ /\ part = "transfer" /\ Next
       /\ UNCHANGED <<part, wafVars, alertVars>>
    \/ /\ part = "waf" /\ WafNext
       /\ UNCHANGED <<part, vars, alertVars>>
    \/ /\ part = "alerts" /\ AlertNext
       /\ UNCHANGED <<part, vars, wafVars>>

jobsVars == <<part, vars, wafVars, alertVars>>

JobsSpec == JobsInit /\ [][JobsNext]_jobsVars
-----------------------------------------------------------------------------
(* Every variable of every part has its type.                              *)
JobsTypeOK == TypeOK /\ WafTypeOK /\ AlertTypeOK
=============================================================================
