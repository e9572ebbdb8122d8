----------------------------- MODULE MCServices -----------------------------
(***************************************************************************)
(* Instances of two services of the panel for TLC, checked side by side:   *)
(* the backups of the panel and the WAF configuration.  They share no      *)
(* state; a behaviour is one of one part, the other stays as it begins.    *)
(***************************************************************************)
EXTENDS BackupEngine, WafConfig, TLC

CONSTANTS w1, w2, r1, e1, e2

TwoWorkers == {w1, w2}
OneCaller  == {r1}
TwoEdits   == {e1, e2}

ServiceSymmetry == Permutations(TwoWorkers) \cup Permutations(TwoEdits)

(* Bound: a mishap takes the place of a save, the third save is made alone *)
(* and the dictionary holds the site's entry only while one save is made.  *)
AtWork(e) == asks[e] # "none" \/ \E t \in Syncs : t[1] = e /\ at[t] # "idle"

FewSaves ==
    /\ saves + mishaps <= MaxSaves
    /\ saves <= 2 \/ Cardinality({e \in Edits : AtWork(e)}) <= 1
    /\ siteCache = "none" \/ saves <= 1

VARIABLE part   \* the part whose behaviour this is

Parts == {"backup", "waf"}

ServicesInit ==
    /\ part \in Parts
    /\ EngInit
    /\ ConfInit

ServicesNext ==
    \/ /\ part = "backup" /\ EngNext
       /\ UNCHANGED <<part, confVars>>
    \/ /\ part = "waf" /\ ConfNext
       /\ UNCHANGED <<part, engVars>>

servicesVars == <<part, engVars, confVars>>

ServicesSpec == ServicesInit /\ [][ServicesNext]_servicesVars
-----------------------------------------------------------------------------
(* Every variable of every part has its type.                              *)
ServicesTypeOK == EngTypeOK /\ ConfTypeOK
=============================================================================
