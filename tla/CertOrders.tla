----------------------------- MODULE CertOrders -----------------------------
(***************************************************************************)
(* The certificate orders of the panel: letsencryptTool                    *)
(* (utils/security/letsencrypt_cert.py), the requests that start, renew,   *)
(* delete and deploy an order (ssl_cert_views.py, site_manage.py) and the  *)
(* nightly command renewSSL.                                               *)
(*                                                                         *)
(* All orders of a provider are kept in one JSON file.  A thread that      *)
(* applies or renews reads the file when it starts and from then on saves  *)
(* its own copy whole, after every step; requests do the same.  The        *)
(* authority that issues certificates, the site's web server and the user  *)
(* are the environment: each may refuse at any step.                       *)
(***************************************************************************)
EXTENDS Naturals, FiniteSets

CONSTANTS
    Jobs,      \* threads, requests and the command, as many as run at once
    Orders,    \* order numbers, each used for one application
    NoOrder,   \* no order
    Sites,     \* sites
    SiteOf,    \* the site an order is for
    MaxAsks    \* bound: how often the user or the command asks for something,
               \* or a thread is ended in the middle

ASSUME CertAssumption ==
    SiteOf \in [Orders -> Sites] /\ NoOrder \notin Orders /\ MaxAsks \in Nat

VARIABLES
    orderFile, \* the orders in the file
    given,     \* the order numbers given out
    dir,       \* dir[o]: the certificate in the directory of an order
    siteCert,  \* siteCert[s]: the order its certificate is from, and the age
    force,     \* force[s]: plain HTTP is redirected to HTTPS
    chal,      \* chal[s]: the jobs whose verification file is in place
    job,       \* what a job does
    jobAt,     \* where it is
    order,     \* order[j]: its order
    mem,       \* mem[j]: its copy of the file
    forced,    \* forced[j]: it has found the redirection on, and put it off
    nightly,   \* what the command has still to renew
    wants,     \* how often something was asked for, or a thread ended in the middle
    wish,      \* wish[s]: the redirection as the user has set it
    outdated,  \* outdated[j]: another has saved the file since the copy was made
    clash,     \* such a copy has been saved
    renewed,   \* the sites with a renewal that succeeded
    cut,       \* the sites with an order that was removed while it was renewed
    killed     \* the orders whose thread was ended in the middle

toolVars == <<job, jobAt, order, mem, forced>>
bookVars == <<orderFile, outdated, clash, cut>>
siteVars == <<dir, siteCert, force, chal>>
restVars == <<given, nightly, wish, renewed, wants, killed>>
certVars == <<toolVars, bookVars, siteVars, restVars>>

JobKinds == {"none", "apply", "renew", "nightly", "delete"}
Steps == {"idle", "asked", "drop", "start", "check", "order", "clear", "place",
          "prove", "fetch", "load", "install", "keep", "done", "fail", "close"}
Ages == {"none", "due", "fresh", "own"}

OrderRows == [over : BOOLEAN, deploy : BOOLEAN, url : BOOLEAN,
              expiry : {"none", "due", "fresh"},
              renew : {"", "pending", "success", "failed"}]

NoOrders == [o \in {} |-> [over |-> FALSE]]
With(b, o, r) == [x \in DOMAIN b \cup {o} |-> IF x = o THEN r ELSE b[x]]
Without(b, os) == [x \in DOMAIN b \ os |-> b[x]]

Site(j)    == SiteOf[order[j]]
Renews(j)  == job[j] \in {"renew", "nightly"}
HasCopy(j) == jobAt[j] \notin {"idle", "start"}
AllIdle    == \A j \in Jobs : jobAt[j] = "idle"

CertInit ==
    /\ orderFile = NoOrders /\ given = {} /\ nightly = {} /\ wants = 0
    /\ dir = [o \in Orders |-> "none"]
    /\ siteCert = [s \in Sites |-> <<NoOrder, "none">>]
    /\ wish \in [Sites -> BOOLEAN] /\ force = wish
    /\ chal = [s \in Sites |-> {}]
    /\ job = [j \in Jobs |-> "none"] /\ jobAt = [j \in Jobs |-> "idle"]
    /\ order = [j \in Jobs |-> NoOrder] /\ mem = [j \in Jobs |-> NoOrders]
    /\ forced = [j \in Jobs |-> FALSE]
    /\ outdated = [j \in Jobs |-> FALSE] /\ clash = FALSE
    /\ renewed = {} /\ cut = {} /\ killed = {}
-----------------------------------------------------------------------------
(* save_to_config_file, and the WriteFile of the requests: the copy        *)
(* replaces the file.                                                      *)
Save(j, b) ==
    /\ orderFile' = b
    /\ outdated' = [i \in Jobs |->
                      i # j /\ (outdated[i] \/ (HasCopy(i) /\ b # orderFile))]
    /\ clash' = (clash \/ (outdated[j] /\ b # orderFile))
    /\ LET gone == DOMAIN orderFile \ DOMAIN b
       IN  cut' = cut \cup {Site(i) : i \in {k \in Jobs : Renews(k) /\ order[k] \in gone}}

(* The file is read into the copy.                                         *)
Read(j, next) ==
    /\ mem' = [mem EXCEPT ![j] = orderFile]
    /\ outdated' = [outdated EXCEPT ![j] = FALSE]
    /\ jobAt' = [jobAt EXCEPT ![j] = next]
    /\ UNCHANGED <<orderFile, clash, cut>>

GoTo(j, next) ==
    /\ jobAt' = [jobAt EXCEPT ![j] = next]
    /\ UNCHANGED <<job, order, forced>>

(* The thread or the request is over.                                      *)
Over(j) ==
    /\ job'  = [job  EXCEPT ![j] = "none"]
    /\ jobAt'    = [jobAt    EXCEPT ![j] = "idle"]
    /\ order' = [order EXCEPT ![j] = NoOrder]
    /\ mem'   = [mem   EXCEPT ![j] = NoOrders]
    /\ forced' = [forced EXCEPT ![j] = FALSE]

Ask == wants < MaxAsks /\ wants' = wants + 1

TakeJob(j, k, o) ==
    /\ jobAt[j] = "idle"
    /\ job'  = [job  EXCEPT ![j] = k]
    /\ order' = [order EXCEPT ![j] = o]
    /\ UNCHANGED forced

(* The tool saves its copy, with this row for its order, and goes on.      *)
SaveOrder(j, r, next) ==
    LET b == With(mem[j], order[j], r)
    IN  /\ mem' = [mem EXCEPT ![j] = b]
        /\ Save(j, b)
        /\ GoTo(j, next)
-----------------------------------------------------------------------------
(* apply_cert, apply_cert_letsencrypt: a new number and a thread.          *)
RequestApply(j, o) ==
    /\ o \notin given
    /\ Ask /\ TakeJob(j, "apply", o)
    /\ given' = given \cup {o}
    /\ jobAt' = [jobAt EXCEPT ![j] = "start"]
    /\ UNCHANGED <<mem, bookVars, siteVars, nightly, wish, renewed, killed>>

(* renew_cert, renew_cert_letsencrypt: refused while the certificate has   *)
(* more than thirty days; renew_status is reset in the file.               *)
RequestRenew(j, o) ==
    /\ o \in DOMAIN orderFile /\ orderFile[o].expiry # "fresh"
    /\ Ask /\ TakeJob(j, "renew", o)
    /\ Read(j, "asked")
    /\ UNCHANGED <<siteVars, given, nightly, wish, renewed, killed>>

WriteAsked(j) ==
    /\ jobAt[j] = "asked"
    /\ Save(j, [mem[j] EXCEPT ![order[j]].renew = ""])
    /\ mem' = [mem EXCEPT ![j] = NoOrders]
    /\ GoTo(j, "start")
    /\ UNCHANGED <<siteVars, restVars>>

(* delete_cert: the directory, then the row.                               *)
RequestDelete(j, o) ==
    /\ o \in DOMAIN orderFile
    /\ Ask /\ TakeJob(j, "delete", o)
    /\ Read(j, "drop")
    /\ dir' = [dir EXCEPT ![o] = "none"]
    /\ UNCHANGED <<siteCert, force, chal, given, nightly, wish, renewed, killed>>

DropOrder(j) ==
    /\ jobAt[j] = "drop"
    /\ Save(j, Without(mem[j], {order[j]}))
    /\ Over(j)
    /\ UNCHANGED <<siteVars, restVars>>

(* renewSSL: the orders with a cert_timeout of thirty days or less, one    *)
(* after the other.                                                        *)
NightlyList ==
    /\ nightly = {}
    /\ nightly' = {o \in DOMAIN orderFile : orderFile[o].expiry = "due"}
    /\ nightly' # {} /\ Ask
    /\ UNCHANGED <<toolVars, bookVars, siteVars, given, wish, renewed, killed>>

NightlyTake(j, o) ==
    /\ o \in nightly /\ \A i \in Jobs : job[i] # "nightly"
    /\ TakeJob(j, "nightly", o)
    /\ nightly' = nightly \ {o}
    /\ jobAt' = [jobAt EXCEPT ![j] = "start"]
    /\ UNCHANGED <<mem, bookVars, siteVars, given, wish, renewed, wants, killed>>

(* letsencryptTool.__init__.                                               *)
StartTool(j) ==
    /\ jobAt[j] = "start"
    /\ Read(j, IF Renews(j) THEN "check" ELSE "order")
    /\ UNCHANGED <<job, order, forced, siteVars, restVars>>

(* renew_certificate, before the order: the site must have a certificate   *)
(* of the provider; a redirection to HTTPS is put off for the time being.  *)
Check(j) ==
    /\ jobAt[j] = "check"
    /\ order[j] \in DOMAIN mem[j]
    /\ siteCert[Site(j)][1] # NoOrder
    /\ forced' = [forced EXCEPT ![j] = force[Site(j)]]
    /\ force'  = [force  EXCEPT ![Site(j)] = FALSE]
    /\ jobAt' = [jobAt EXCEPT ![j] = "order"]
    /\ UNCHANGED <<job, order, mem, bookVars, dir, siteCert, chal, restVars>>

(* create_order and save_order: the answer of the authority replaces the   *)
(* whole row of the order; of the old one a renewal keeps save_path and    *)
(* certificate_url, and fails where there is none.                         *)
CreateOrder(j) ==
    /\ jobAt[j] = "order"
    /\ Renews(j) => mem[j][order[j]].url
    /\ SaveOrder(j, [over |-> Renews(j), deploy |-> Renews(j), url |-> Renews(j),
                   expiry |-> "none", renew |-> IF Renews(j) THEN "pending" ELSE ""],
               "clear")
    /\ UNCHANGED <<siteVars, restVars>>

(* get_authorization_info: the directory of the verification files is      *)
(* emptied, the own file is put there.                                     *)
ClearFiles(j) ==
    /\ jobAt[j] = "clear"
    /\ chal' = [chal EXCEPT ![Site(j)] = {}]
    /\ GoTo(j, "place")
    /\ UNCHANGED <<mem, bookVars, dir, siteCert, force, restVars>>

PlaceFile(j) ==
    /\ jobAt[j] = "place"
    /\ chal' = [chal EXCEPT ![Site(j)] = @ \cup {j}]
    /\ SaveOrder(j, mem[j][order[j]], "prove")
    /\ UNCHANGED <<dir, siteCert, force, restVars>>

(* All domains are still valid from an earlier order: no file is needed.   *)
AlreadyValid(j) ==
    /\ jobAt[j] = "place"
    /\ SaveOrder(j, mem[j][order[j]], "fetch")
    /\ UNCHANGED <<siteVars, restVars>>

(* domain_validation: the authority asks the site for the file.             *)
Validated(j) ==
    /\ jobAt[j] = "prove" /\ j \in chal[Site(j)]
    /\ GoTo(j, "fetch")
    /\ UNCHANGED <<mem, bookVars, siteVars, restVars>>

(* get_certificate: a key is made and saved, then the certificate's url.   *)
GetCertificate(j) ==
    /\ jobAt[j] = "fetch"
    /\ \/ SaveOrder(j, [mem[j][order[j]] EXCEPT !.url = TRUE], "load")
       \/ SaveOrder(j, mem[j][order[j]], "fail")
    /\ UNCHANGED <<siteVars, restVars>>

(* download_certificate: cert_timeout is saved, then the files are         *)
(* written, which may fail.                                                *)
Download(j) ==
    /\ jobAt[j] = "load"
    /\ LET r == [mem[j][order[j]] EXCEPT !.expiry = "fresh"]
       IN  \/ SaveOrder(j, r, "install") /\ dir' = [dir EXCEPT ![order[j]] = "fresh"]
           \/ SaveOrder(j, r, "fail") /\ UNCHANGED dir
    /\ UNCHANGED <<siteCert, force, chal, restVars>>

(* applied_callback(ok=True): the file is read again and the certificate   *)
(* in the directory of the order is handed to the web server.              *)
InstallCert(j) ==
    /\ jobAt[j] = "install"
    /\ order[j] \in DOMAIN orderFile /\ dir[order[j]] # "none"
    /\ siteCert' = [siteCert EXCEPT ![Site(j)] = <<order[j], dir[order[j]]>>]
    /\ Read(j, "keep")
    /\ UNCHANGED <<job, order, forced, dir, force, chal, restVars>>

InstallFails(j) ==
    /\ jobAt[j] = "install"
    /\ Read(j, "fail")
    /\ UNCHANGED <<job, order, forced, siteVars, restVars>>

(* The order is deployed and over; other orders of the site are removed.   *)
Keep(j) ==
    /\ jobAt[j] = "keep"
    /\ LET others == {x \in DOMAIN mem[j] : x # order[j] /\ SiteOf[x] = Site(j)}
           b == [Without(mem[j], others) EXCEPT ![order[j]].over = TRUE,
                                                ![order[j]].deploy = TRUE]
       IN  /\ Save(j, b)
           /\ IF Renews(j)
              THEN mem' = [mem EXCEPT ![j] = b] /\ GoTo(j, "done")
              ELSE Over(j)
    /\ UNCHANGED <<siteVars, restVars>>

(* The end of renew_certificate.  The redirection stays off.               *)
RenewDone(j) ==
    /\ jobAt[j] = "done"
    /\ Save(j, [mem[j] EXCEPT ![order[j]].renew = "success"])
    /\ renewed' = renewed \cup {Site(j)}
    /\ Over(j)
    /\ UNCHANGED <<siteVars, given, nightly, wish, wants, killed>>

(* Any step may raise: the authority or the site's set-up refuses, or what *)
(* the step needs is not there.                                            *)
StepFails(j) ==
    /\ jobAt[j] \in {"check", "order", "clear", "place", "prove", "load"}
    /\ GoTo(j, "fail")
    /\ UNCHANGED <<mem, bookVars, siteVars, restVars>>

(* applied_callback(ok=False): the file is read again; an order that is    *)
(* not in it ends the thread with a KeyError.                              *)
FailApply(j) ==
    /\ jobAt[j] = "fail" /\ ~Renews(j)
    /\ IF order[j] \in DOMAIN orderFile
       THEN Read(j, "close") /\ UNCHANGED <<job, order, forced>>
       ELSE /\ Over(j)
            /\ outdated' = [outdated EXCEPT ![j] = FALSE]
            /\ UNCHANGED <<orderFile, clash, cut>>
    /\ UNCHANGED <<siteVars, restVars>>

CloseApply(j) ==
    /\ jobAt[j] = "close"
    /\ Save(j, [mem[j] EXCEPT ![order[j]].over = TRUE, ![order[j]].deploy = FALSE])
    /\ Over(j)
    /\ UNCHANGED <<siteVars, restVars>>

(* Mutant: the redirection is forgotten.                                   *)
FailRenew_NoRestore(j) ==
    /\ jobAt[j] = "fail" /\ Renews(j) /\ order[j] \in DOMAIN mem[j]
    /\ Save(j, [mem[j] EXCEPT ![order[j]].renew = "failed"])
    /\ Over(j)
    /\ UNCHANGED <<siteVars, restVars>>

(* The handler of renew_certificate: the status is saved, the redirection  *)
(* restored.  An order that is not in the copy ends the handler before.    *)
FailRenew(j) ==
    /\ jobAt[j] = "fail" /\ Renews(j) /\ order[j] \in DOMAIN mem[j]
    /\ Save(j, [mem[j] EXCEPT ![order[j]].renew = "failed"])
    /\ force' = [force EXCEPT ![Site(j)] = @ \/ forced[j]]
    /\ Over(j)
    /\ UNCHANGED <<dir, siteCert, chal, restVars>>

LoseRenew(j) ==
    /\ jobAt[j] = "fail" /\ Renews(j) /\ order[j] \notin DOMAIN mem[j]
    /\ Over(j)
    /\ outdated' = [outdated EXCEPT ![j] = FALSE]
    /\ UNCHANGED <<orderFile, clash, cut, siteVars, restVars>>

(* The process of a job dies, or its handler itself raises: the file       *)
(* cannot be written, the web server cannot be configured.                 *)
Die(j) ==
    /\ jobAt[j] # "idle"
    /\ Ask /\ Over(j)
    /\ outdated' = [outdated EXCEPT ![j] = FALSE]
    /\ killed' = IF job[j] = "delete" THEN killed ELSE killed \cup {order[j]}
    /\ UNCHANGED <<orderFile, clash, cut, siteVars, given, nightly, wish, renewed>>
-----------------------------------------------------------------------------
(* deploy_cert: the certificate of an order is handed to the web server.   *)
Deploy(o) ==
    /\ o \in DOMAIN orderFile /\ dir[o] # "none"
    /\ Ask /\ siteCert' = [siteCert EXCEPT ![SiteOf[o]] = <<o, dir[o]>>]
    /\ UNCHANGED <<toolVars, bookVars, dir, force, chal, given, nightly, wish, renewed, killed>>

(* apply_selfsigned_cert, apply_cert_selfsigned.                           *)
SelfSign(s) ==
    /\ Ask /\ siteCert' = [siteCert EXCEPT ![s] = <<NoOrder, "own">>]
    /\ UNCHANGED <<toolVars, bookVars, dir, force, chal, given, nightly, wish, renewed, killed>>

(* Sixty days and more go by while nobody works on an order.               *)
Aged(a) == IF a = "fresh" THEN "due" ELSE a

Age ==
    /\ AllIdle /\ nightly = {}
    /\ orderFile' = [o \in DOMAIN orderFile |-> [orderFile[o] EXCEPT !.expiry = Aged(@)]]
    /\ dir'  = [o \in Orders |-> Aged(dir[o])]
    /\ siteCert' = [s \in Sites |-> <<siteCert[s][1], Aged(siteCert[s][2])>>]
    /\ UNCHANGED <<toolVars, outdated, clash, cut, force, chal, restVars>>

ToolStep(j) ==
    \/ WriteAsked(j) \/ DropOrder(j) \/ StartTool(j) \/ Check(j) \/ CreateOrder(j)
    \/ ClearFiles(j) \/ PlaceFile(j) \/ AlreadyValid(j) \/ Validated(j)
    \/ GetCertificate(j) \/ Download(j) \/ InstallCert(j) \/ InstallFails(j) \/ Keep(j)
    \/ RenewDone(j) \/ StepFails(j) \/ FailApply(j) \/ CloseApply(j)
    \/ FailRenew(j) \/ LoseRenew(j) \/ Die(j)

CertNext ==
    \/ \E j \in Jobs : ToolStep(j)
    \/ \E j \in Jobs, o \in Orders :
         RequestApply(j, o) \/ RequestRenew(j, o) \/ RequestDelete(j, o) \/ NightlyTake(j, o)
    \/ NightlyList
    \/ \E o \in Orders : Deploy(o)
    \/ \E s \in Sites : SelfSign(s)
    \/ Age

CertSpec == CertInit /\ [][CertNext]_certVars
-----------------------------------------------------------------------------
IsBook(b) == DOMAIN b \subseteq Orders /\ \A o \in DOMAIN b : b[o] \in OrderRows

(* Every variable has its type.                                            *)
CertTypeOK ==
    /\ IsBook(orderFile) /\ given \subseteq Orders /\ nightly \subseteq Orders
    /\ dir \in [Orders -> Ages]
    /\ siteCert \in [Sites -> (Orders \cup {NoOrder}) \X Ages]
    /\ force \in [Sites -> BOOLEAN] /\ wish \in [Sites -> BOOLEAN]
    /\ chal \in [Sites -> SUBSET Jobs]
    /\ job \in [Jobs -> JobKinds] /\ jobAt \in [Jobs -> Steps]
    /\ order \in [Jobs -> Orders \cup {NoOrder}]
    /\ \A j \in Jobs : IsBook(mem[j])
    /\ forced \in [Jobs -> BOOLEAN] /\ outdated \in [Jobs -> BOOLEAN] /\ clash \in BOOLEAN
    /\ wants \in 0..MaxAsks /\ renewed \subseteq Sites /\ cut \subseteq Sites
    /\ killed \subseteq Orders

(* The sites of the orders whose thread was ended in the middle.           *)
KilledSites == {SiteOf[o] : o \in killed}

(* Whatever step of an application or a renewal fails, it is brought to an *)
(* end: as long as nobody saved a copy that was older than the file, every *)
(* order is over once no job is at work, no renewal is pending (the page   *)
(* would poll for ever), and a site redirects to HTTPS as the user has set *)
(* it, unless a renewal of it has succeeded or lost its order under way.   *)
(* Nobody takes up an order whose thread was ended in the middle: such an  *)
(* order may stay open and pending, and the redirection of its site off.   *)
JobsSettle ==
    AllIdle /\ ~clash =>
        /\ \A o \in DOMAIN orderFile \ killed :
              orderFile[o].over /\ orderFile[o].renew # "pending"
        /\ \A s \in Sites \ (renewed \cup cut \cup KilledSites) : force[s] = wish[s]

(* Renewal is tried for a site whose certificate has thirty days or less:  *)
(* the order the site's certificate came from is then one renewSSL takes   *)
(* up.  The code does not keep it: a renewal that fails has already        *)
(* replaced the row and its cert_timeout.                                  *)
DueIsSeen ==
    AllIdle /\ ~clash =>
        \A o \in DOMAIN orderFile \ killed :
            siteCert[SiteOf[o]] = <<o, "due">> => orderFile[o].expiry = "due"

(* A copy that is older than the file is never saved over it.  The code    *)
(* does not keep it; orders are lost by it.                                *)
NoLostUpdate == ~clash
=============================================================================
