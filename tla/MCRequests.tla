----------------------------- MODULE MCRequests -----------------------------
(***************************************************************************)
(* Instances of two parts of the panel for TLC whose threads are started   *)
(* by requests, checked side by side: the installation queue and the       *)
(* certificate orders.  They share no state; a behaviour is one of one     *)
(* part, the other stays as it begins.                                     *)
(***************************************************************************)
EXTENDS InstallQueue, CertOrders, TLC

CONSTANTS r1, nginx, redis, j1, j2, o1, o2, s1

OneRequest == {r1}
TwoApps    == {nginx, redis}
TwoJobs    == {j1, j2}
TwoOrders  == {o1, o2}
OneSite    == {s1}
SameSite   == [o \in Orders |-> s1]

\* Bounds: two calls of executeNextTask at once, and, for the orders, no copy
\* saved that was older than the file.
TwoCallers == Cardinality({x \in Threads : epc[x] # "off"}) <= 2

\* The two programs are interchangeable, and so are the two orders: it is enough
\* to begin with one of them.
FirstApp   == app[1] # redis /\ (st[1] = "none" => \A r \in Requests : rapp[r] # redis)
FirstOrder == o2 \in given => o1 \in given

Bounds == TwoCallers /\ FirstApp /\ NoLostUpdate /\ FirstOrder

VARIABLE part   \* the part whose behaviour this is

RequestsInit ==
    /\ part \in {"queue", "orders"}
    /\ Init
    /\ CertInit
    /\ part = "queue" => wish = [s \in Sites |-> FALSE]

RequestsNext ==
    \/ /\ part = "queue" /\ Next
       /\ UNCHANGED <<part, certVars>>
    \/ /\ part = "orders" /\ CertNext
       /\ UNCHANGED <<part, vars>>

RequestsSpec == RequestsInit /\ [][RequestsNext]_<<part, vars, certVars>>
-----------------------------------------------------------------------------
(* Every variable of both parts has its type.                              *)
RequestsTypeOK == TypeOK /\ CertTypeOK
=============================================================================
