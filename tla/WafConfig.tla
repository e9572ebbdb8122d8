----------------------------- MODULE WafConfig -----------------------------
(***************************************************************************)
(* How a WAF setting reaches the nginx workers.  A request of the panel    *)
(* saves a row of the database (apps/syswaf/views/waf_views.py); the save  *)
(* starts a thread that writes the row to a file and reloads nginx         *)
(* (signals.py, services.py), and a request for the global configuration   *)
(* writes the files itself as well.  A request for a site adds or deletes  *)
(* the file that makes nginx call the WAF for it (set_site_waf); one that  *)
(* deletes the row of a site deletes its file and has everything written   *)
(* anew.  The workers read the files through a dictionary they share       *)
(* (utils/waf/lua/waf_init.lua).                                           *)
(*                                                                         *)
(* There is one site.  Of a configuration only the status is kept, "on"    *)
(* for observe and protect: the other fields travel with it.  Lists and    *)
(* rules have files of their own that are written the same way.            *)
(***************************************************************************)
EXTENDS Naturals, FiniteSets

CONSTANTS
    Edits,      \* concurrent requests of the panel
    MaxSaves,   \* bound: saves
    MaxMishaps  \* bound: failures and crashes

ASSUME WafConfigAssumption == MaxSaves \in Nat /\ MaxMishaps \in Nat

Settings  == {"off", "on"}
EditKinds == {"global", "site", "basic", "delete"}
Syncs     == Edits \X {"own", "signal"}   \* threads: of a request, and of its save
ConfParts == {"module", "hook"}

VARIABLES
    globalRow, siteRow,    \* waf_status in the database; siteRow = "none": no row
    globalFile, siteFile,  \* config.json and sites/site_<id>.json
    conf,      \* on disk: "module", the include of nginx_waf.conf; "hook", the site's waf.conf
    running,   \* what of conf nginx has loaded
    globalCache, siteCache,   \* entries of the shared dictionary
    memory,    \* the workers' own copy of the global status
    asks,      \* asks[r]: "none", "loaded", "saved"; of a deletion "unhooked", "removed"
    editKind, old, new,   \* of a request: what it saves, the status loaded, the status to save
    at,        \* at[t]: where a synchronisation stands
    snap,      \* snap[t]: the status it has read
    todo,      \* todo[t]: parts of sync_all it has left: 2, the sites; 1, nginx.conf
    raced,     \* history: what was overtaken, failed or saved without being passed on
    saves, mishaps

confRows  == <<globalRow, siteRow>>
confFiles == <<globalFile, siteFile>>
served    == <<running, globalCache, siteCache, memory>>
edits     == <<asks, editKind, old, new>>
syncVars  == <<at, snap, todo>>
confVars  == <<confRows, confFiles, conf, served, edits, syncVars, raced, saves, mishaps>>

(* Everything is off and has been written.                                 *)
ConfInit ==
    /\ globalRow = "off" /\ siteRow = "off" /\ globalFile = "off" /\ siteFile = "off"
    /\ conf = {} /\ running = {}
    /\ globalCache = "none" /\ siteCache = "none" /\ memory = "none"
    /\ asks = [r \in Edits |-> "none"] /\ editKind = [r \in Edits |-> "global"]
    /\ old = [r \in Edits |-> "off"] /\ new = [r \in Edits |-> "off"]
    /\ at = [t \in Syncs |-> "idle"] /\ snap = [t \in Syncs |-> "off"]
    /\ todo = [t \in Syncs |-> 0]
    /\ raced = {} /\ saves = 0 /\ mishaps = 0

GlobalHeld == {"global open", "global write", "include", "module"}
SiteHeld   == {"site open", "site write", "site remove"}

(* Threads at work on a copy of a row.                                     *)
Copies(held) == {t \in Syncs : at[t] \in held}

(* The row named name is saved with status v: an older copy may overwrite  *)
(* it in the files.  A save with no copy under way sets the files right.   *)
RacedAfter(name, held, v) ==
    IF Copies(held) = {} THEN raced \ {name}
    ELSE IF \A t \in Copies(held) : snap[t] = v THEN raced
    ELSE raced \cup {name}

Mishap == mishaps < MaxMishaps /\ mishaps' = mishaps + 1

(* A request is inside the transaction of a deletion, which other requests *)
(* do not see yet and which lets nobody else write to the database.        *)
Deleting == \E r \in Edits : asks[r] = "removed"

-----------------------------------------------------------------------------
(* Requests.                                                               *)

Row(k) == IF k = "global" THEN globalRow ELSE siteRow

(* Bound: the next request of r waits for the threads of the last one.     *)
Begin(r, k, v) ==
    /\ asks[r] = "none" /\ at[<<r, "own">>] = "idle" /\ at[<<r, "signal">>] = "idle"
    /\ saves < MaxSaves
    /\ saves' = saves + 1
    /\ editKind' = [editKind EXCEPT ![r] = k]
    /\ new' = [new EXCEPT ![r] = v]

(* Requests for the site overlap: what one of them does to its hook need   *)
(* not be what its row says in the end.                                    *)
Overlapping(k) ==
    IF k # "global" /\ \E q \in Edits : asks[q] # "none" /\ editKind[q] # "global"
    THEN {"hook"} ELSE {}

(* get_object: the whole row is loaded.  A request that sets another field *)
(* will save the status it has loaded.                                     *)
LoadRow(r, k, v) ==
    /\ Begin(r, k, v)
    /\ Row(k) # "none"
    /\ k = "delete" => v = "off"   \* nothing is saved
    /\ asks' = [asks EXCEPT ![r] = "loaded"]
    /\ old' = [old EXCEPT ![r] = Row(k)]
    /\ raced' = raced \cup Overlapping(k)
    /\ UNCHANGED <<confRows, confFiles, conf, served, syncVars, mishaps>>

(* create, or the get_or_create every other request for sites begins with, *)
(* which makes a missing row with the WAF off; then on_site_config_save.   *)
CreateSite(r, v) ==
    /\ Begin(r, "site", v)
    /\ siteRow = "none" /\ ~Deleting
    /\ siteRow' = v
    /\ asks' = [asks EXCEPT ![r] = "saved"]
    /\ old' = [old EXCEPT ![r] = "off"]
    /\ at' = [at EXCEPT ![<<r, "signal">>] = "site read"]
    /\ raced' = RacedAfter("site", SiteHeld, v) \cup Overlapping("site")
    /\ UNCHANGED <<globalRow, confFiles, conf, served, snap, todo, mishaps>>

(* The row of the global configuration, and on_global_config_save.         *)
SaveGlobal(r) ==
    /\ asks[r] = "loaded" /\ editKind[r] = "global" /\ ~Deleting
    /\ globalRow' = new[r]
    /\ asks' = [asks EXCEPT ![r] = "none"]
    /\ at' = [at EXCEPT ![<<r, "own">>] = "global read", ![<<r, "signal">>] = "global read"]
    /\ raced' = RacedAfter("global", GlobalHeld, new[r])
    /\ UNCHANGED <<siteRow, confFiles, conf, served, editKind, old, new, snap, todo, saves,
                   mishaps>>

(* The row of a site, made anew when it was deleted in between, and        *)
(* on_site_config_save.                                                    *)
SaveSite(r) ==
    /\ asks[r] = "loaded" /\ editKind[r] \in {"site", "basic"} /\ ~Deleting
    /\ siteRow' = new[r]
    /\ asks' = [asks EXCEPT ![r] = IF editKind[r] = "site" THEN "saved" ELSE "none"]
    /\ at' = [at EXCEPT ![<<r, "signal">>] = "site read"]
    /\ raced' = RacedAfter("site", SiteHeld, new[r])
                    \cup (IF editKind[r] = "basic" /\ new[r] # siteRow THEN {"hook"} ELSE {})
    /\ UNCHANGED <<globalRow, confFiles, conf, served, editKind, old, new, snap, todo, saves,
                   mishaps>>

(* batch_update: QuerySet.update sends no signal, so that nothing is       *)
(* written, and the hook is left as it is.                                 *)
BatchUpdate(v) ==
    /\ siteRow # "none" /\ v # siteRow /\ ~Deleting
    /\ saves < MaxSaves
    /\ saves' = saves + 1
    /\ siteRow' = v
    /\ raced' = raced \cup {"site", "hook"}
    /\ UNCHANGED <<globalRow, confFiles, conf, served, edits, syncVars, mishaps>>

\* Mutant: the old status is taken from the object that was just saved.
SetHook_ComparesLate(r) ==
    /\ asks[r] = "saved"
    /\ asks' = [asks EXCEPT ![r] = "none"]
    /\ UNCHANGED <<confRows, confFiles, conf, served, editKind, old, new, syncVars, raced, saves,
                   mishaps>>

(* set_status, update and create: the hook is set when the status changed  *)
(* between off and on.                                                     *)
SetHook(r) ==
    /\ asks[r] = "saved"
    /\ asks' = [asks EXCEPT ![r] = "none"]
    /\ conf' = IF old[r] = new[r] THEN conf
               ELSE IF new[r] = "on" THEN conf \cup {"hook"} ELSE conf \ {"hook"}
    /\ UNCHANGED <<confRows, confFiles, served, editKind, old, new, syncVars, raced, saves,
                   mishaps>>

(* The file cannot be written or deleted: the request ends in an exception *)
(* and the row stays as it was saved.                                      *)
SetHookFails(r) ==
    /\ asks[r] = "saved" /\ old[r] # new[r] /\ Mishap
    /\ asks' = [asks EXCEPT ![r] = "none"]
    /\ raced' = raced \cup {"hook"}
    /\ UNCHANGED <<confRows, confFiles, conf, served, editKind, old, new, syncVars, saves>>

(* destroy, 1: the hook is taken away.                                     *)
Unhook(r) ==
    /\ asks[r] = "loaded" /\ editKind[r] = "delete"
    /\ asks' = [asks EXCEPT ![r] = "unhooked"]
    /\ conf' = conf \ {"hook"}
    /\ UNCHANGED <<confRows, confFiles, served, editKind, old, new, syncVars, raced, saves,
                   mishaps>>

(* 2: the transaction of the deletion.  on_site_config_delete runs inside  *)
(* it: it deletes the file, whose failure is caught, and starts a thread   *)
(* that does sync_all.  A row that is no longer there sends no signal.     *)
DropRow(r) ==
    /\ asks[r] = "unhooked" /\ ~Deleting
    /\ IF siteRow = "none"
       THEN /\ asks' = [asks EXCEPT ![r] = "none"]
            /\ UNCHANGED <<siteFile, at, todo, raced, mishaps>>
       ELSE /\ asks' = [asks EXCEPT ![r] = "removed"]
            /\ at' = [at EXCEPT ![<<r, "signal">>] = "global read"]
            /\ todo' = [todo EXCEPT ![<<r, "signal">>] = 2]
            /\ \/ /\ siteFile' = "none" /\ UNCHANGED mishaps
                  /\ raced' = IF Copies(SiteHeld) = {} THEN raced ELSE raced \cup {"site"}
               \/ /\ UNCHANGED siteFile /\ Mishap
                  /\ raced' = raced \cup {"site"}
    /\ UNCHANGED <<confRows, globalFile, conf, served, editKind, old, new, snap, saves>>

(* 3: its commit.                                                          *)
CommitDelete(r) ==
    /\ asks[r] = "removed"
    /\ siteRow' = "none"
    /\ asks' = [asks EXCEPT ![r] = "none"]
    /\ UNCHANGED <<globalRow, confFiles, conf, served, editKind, old, new, syncVars, raced, saves,
                   mishaps>>

(* A deletion ends in an exception: the row stays.                         *)
DeleteFails(r) ==
    /\ asks[r] # "none" /\ editKind[r] = "delete" /\ Mishap
    /\ asks' = [asks EXCEPT ![r] = "none"]
    /\ raced' = raced \cup {"site", "hook"}
    /\ UNCHANGED <<confRows, confFiles, conf, served, editKind, old, new, syncVars, saves>>

-----------------------------------------------------------------------------
(* Synchronisation: one thread t.                                          *)

Move(t, s) == at' = [at EXCEPT ![t] = s]

(* The thread of the signal ends with a reload of nginx.                   *)
AfterWrites(t) == IF t[2] = "signal" THEN "reload" ELSE "idle"

(* A part of sync_all is done, or the only one of another thread.          *)
Rest(t) ==
    /\ Move(t, IF todo[t] = 2 THEN "sites read"
               ELSE IF todo[t] = 1 THEN "module read" ELSE AfterWrites(t))
    /\ todo' = [todo EXCEPT ![t] = IF @ = 0 THEN 0 ELSE @ - 1]

(* sync_global_config and generate_nginx_waf_config read the row first.    *)
ReadGlobal(t) ==
    /\ \/ at[t] = "global read" /\ Move(t, "global open")
       \/ at[t] = "module read" /\ Move(t, "module")
    /\ snap' = [snap EXCEPT ![t] = globalRow]
    /\ UNCHANGED <<confRows, confFiles, conf, served, edits, todo, raced, saves, mishaps>>

(* So does sync_site_config.  For the site of a save whose row is gone it  *)
(* deletes the file; going through all sites it finds none.                *)
ReadSite(t) ==
    /\ \/ /\ at[t] = "site read" /\ UNCHANGED todo
          /\ Move(t, IF siteRow = "none" THEN "site remove" ELSE "site open")
          /\ snap' = [snap EXCEPT ![t] = siteRow]
       \/ /\ at[t] = "sites read" /\ siteRow # "none"
          /\ Move(t, "site open") /\ UNCHANGED todo
          /\ snap' = [snap EXCEPT ![t] = siteRow]
       \/ /\ at[t] = "sites read" /\ siteRow = "none"
          /\ Rest(t) /\ UNCHANGED snap
    /\ raced' = IF Deleting THEN raced \cup {"site"} ELSE raced
    /\ UNCHANGED <<confRows, confFiles, conf, served, edits, saves, mishaps>>

(* open(..., 'w') empties the file.                                        *)
OpenFile(t) ==
    /\ \/ /\ at[t] = "global open" /\ Move(t, "global write")
          /\ globalFile' = "empty" /\ UNCHANGED siteFile
       \/ /\ at[t] = "site open" /\ Move(t, "site write")
          /\ siteFile' = "empty" /\ UNCHANGED globalFile
    /\ UNCHANGED <<confRows, conf, served, edits, snap, todo, raced, saves, mishaps>>

DropFile(t) ==
    /\ at[t] = "site remove" /\ Rest(t)
    /\ siteFile' = "none"
    /\ UNCHANGED <<confRows, globalFile, conf, served, edits, snap, raced, saves, mishaps>>

(* What a file holds after s was written over it from its beginning: when  *)
(* another thread has filled it since it was opened, perhaps the longer    *)
(* tail of the other text; nothing when it was deleted since.              *)
Overwritten(content, s) ==
    IF content = "none" THEN {"none"}
    ELSE IF content \in {"empty", s} THEN {s} ELSE {s, "broken"}

WriteFile(t) ==
    /\ \/ /\ at[t] = "global write" /\ Move(t, "include")
          /\ globalFile' \in Overwritten(globalFile, snap[t]) /\ UNCHANGED <<siteFile, todo>>
       \/ /\ at[t] = "site write" /\ Rest(t)
          /\ siteFile' \in Overwritten(siteFile, snap[t]) /\ UNCHANGED globalFile
    /\ UNCHANGED <<confRows, conf, served, edits, snap, raced, saves, mishaps>>

(* What follows _update_nginx_main_config: the sites when the WAF is on.   *)
AfterInclude(t) ==
    IF at[t] = "include" /\ snap[t] = "on" THEN Move(t, "sites read") /\ UNCHANGED todo ELSE Rest(t)

\* Mutant: the text that is to be taken out of nginx.conf never matches.
Include_NotRemoved(t) ==
    /\ at[t] \in {"include", "module"} /\ AfterInclude(t)
    /\ conf' = IF snap[t] = "on" THEN conf \cup {"module"} ELSE conf
    /\ UNCHANGED <<confRows, confFiles, served, edits, snap, raced, saves, mishaps>>

(* _update_nginx_main_config.                                              *)
Include(t) ==
    /\ at[t] \in {"include", "module"} /\ AfterInclude(t)
    /\ conf' = IF snap[t] = "on" THEN conf \cup {"module"} ELSE conf \ {"module"}
    /\ UNCHANGED <<confRows, confFiles, served, edits, snap, raced, saves, mishaps>>

(* nginx.conf cannot be read or written: the result is not looked at.      *)
IncludeFails(t) ==
    /\ at[t] \in {"include", "module"} /\ AfterInclude(t) /\ Mishap
    /\ raced' = raced \cup {"global"}
    /\ UNCHANGED <<confRows, confFiles, conf, served, edits, snap, saves>>

(* The write or the removal of a file fails, as on a full disk.  The error *)
(* is caught and the result not looked at: the rest is done all the same.  *)
WriteFails(t) ==
    /\ at[t] \in {"global write", "site write", "site remove"} /\ Mishap
    /\ Rest(t)
    /\ raced' = raced \cup {IF at[t] = "global write" THEN "global" ELSE "site"}
    /\ UNCHANGED <<confRows, confFiles, conf, served, edits, snap, saves>>

-----------------------------------------------------------------------------
(* nginx.                                                                  *)

(* load_global_config, load_site_config: the dictionary, else the file.    *)
Loaded(cache, content) ==
    IF cache # "none" THEN cache ELSE IF content \in Settings THEN content ELSE "none"

(* New workers start with nothing (global_config = {}) and run init_worker *)
(* when the module is loaded.  The dictionary survives a reload as long as *)
(* the configuration declares it.                                          *)
Reload(t) ==
    /\ at[t] = "reload" /\ Move(t, "idle")
    /\ running' = conf
    /\ LET kept == {"module"} \subseteq running \cap conf
           entry == IF kept THEN globalCache ELSE "none"
       IN  /\ memory' = IF "module" \in conf THEN Loaded(entry, globalFile) ELSE "none"
           /\ globalCache' = memory'
           /\ siteCache' = IF kept THEN siteCache ELSE "none"
    /\ raced' = raced \ {"reload"}
    /\ UNCHANGED <<confRows, confFiles, conf, edits, snap, todo, saves, mishaps>>

(* nginx -t or the reload fails: the result is not looked at.              *)
ReloadFails(t) ==
    /\ at[t] = "reload" /\ Mishap
    /\ Move(t, "idle")
    /\ raced' = raced \cup {"reload"}
    /\ UNCHANGED <<confRows, confFiles, conf, served, edits, snap, todo, saves>>

(* check: the status of the site decides; one that has no readable file    *)
(* has the global one.  Only when it is on, init loads the global one anew.*)
CheckVisit ==
    /\ running = ConfParts
    /\ siteCache' = Loaded(siteCache, siteFile)
    /\ LET applied == IF siteCache' # "none" THEN siteCache' ELSE memory
           global  == Loaded(globalCache, globalFile)
       IN  IF applied = "on" /\ global # "none"
           THEN memory' = global /\ globalCache' = global
           ELSE UNCHANGED <<memory, globalCache>>
    /\ UNCHANGED <<confRows, confFiles, conf, running, edits, syncVars, raced, saves, mishaps>>

(* An entry is 60 seconds old.                                             *)
Expire ==
    /\ \/ globalCache # "none" /\ globalCache' = "none" /\ UNCHANGED siteCache
       \/ siteCache # "none" /\ siteCache' = "none" /\ UNCHANGED globalCache
    /\ UNCHANGED <<confRows, confFiles, conf, running, memory, edits, syncVars, raced, saves,
                   mishaps>>

(* The panel dies.                                                         *)
ConfCrash ==
    /\ Mishap
    /\ asks' = [r \in Edits |-> "none"]
    /\ at' = [t \in Syncs |-> "idle"] /\ todo' = [t \in Syncs |-> 0]
    /\ raced' = {"global", "site", "hook", "reload"}
    /\ UNCHANGED <<confRows, confFiles, conf, served, editKind, old, new, snap, saves>>

ThreadStep(t) ==
    \/ ReadGlobal(t) \/ ReadSite(t) \/ OpenFile(t) \/ WriteFile(t) \/ DropFile(t)
    \/ Include(t) \/ Reload(t)

ThreadFails(t) == WriteFails(t) \/ IncludeFails(t) \/ ReloadFails(t)

DeleteStep(r) == Unhook(r) \/ DropRow(r) \/ CommitDelete(r) \/ DeleteFails(r)

ConfNext ==
    \/ \E r \in Edits :
          \/ \E k \in EditKinds, v \in Settings : LoadRow(r, k, v)
          \/ \E v \in Settings : CreateSite(r, v)
          \/ SaveGlobal(r) \/ SaveSite(r) \/ SetHook(r) \/ SetHookFails(r) \/ DeleteStep(r)
    \/ \E v \in Settings : BatchUpdate(v)
    \/ \E t \in Syncs : ThreadStep(t) \/ ThreadFails(t)
    \/ CheckVisit \/ Expire \/ ConfCrash

ConfSpec == ConfInit /\ [][ConfNext]_confVars
-----------------------------------------------------------------------------
(* Properties.                                                             *)

ConfTypeOK ==
    /\ globalRow \in Settings /\ siteRow \in Settings \cup {"none"}
    /\ globalFile \in Settings \cup {"empty", "broken"}
    /\ siteFile \in Settings \cup {"empty", "broken", "none"}
    /\ conf \subseteq ConfParts /\ running \subseteq ConfParts
    /\ globalCache \in Settings \cup {"none"} /\ siteCache \in Settings \cup {"none"}
    /\ memory \in Settings \cup {"none"}
    /\ asks \in [Edits -> {"none", "loaded", "saved", "unhooked", "removed"}]
    /\ editKind \in [Edits -> EditKinds]
    /\ old \in [Edits -> Settings] /\ new \in [Edits -> Settings]
    /\ at \in [Syncs -> {"idle", "global read", "module read", "site read", "sites read", "reload"}
                           \cup GlobalHeld \cup SiteHeld]
    /\ snap \in [Syncs -> Settings \cup {"none"}] /\ todo \in [Syncs -> 0..2]
    /\ raced \subseteq {"global", "site", "hook", "reload"}
    /\ saves \in 0..MaxSaves /\ mishaps \in 0..MaxMishaps

Quiet == (\A r \in Edits : asks[r] = "none") /\ (\A t \in Syncs : at[t] = "idle")

(* The files and nginx follow the database, except for a row that was      *)
(* saved while an older copy of it was under way, that batch_update has    *)
(* changed, whose deletion met a thread that had read it, or after a step  *)
(* failed; the next save that has the files to itself repairs them.        *)
FilesFollow ==
    /\ "global" \notin raced => /\ globalFile = globalRow
                                /\ "module" \in conf <=> globalRow = "on"
    /\ "site" \notin raced => siteFile = siteRow
    /\ {"global", "reload"} \cap raced = {} => ("module" \in running <=> "module" \in conf)

(* nginx is told to call the WAF for the site if and only if it is on for  *)
(* it, unless requests for it overlapped, one of those that save the row   *)
(* alone changed the status, or the hook could not be set.                 *)
HookFollows == "hook" \notin raced => ("hook" \in conf <=> siteRow = "on")

(* When nobody is at work, what was saved, made or deleted is what nginx   *)
(* has been told, however a request, the threads the saves started and     *)
(* those of other requests interleave, but for what is in raced: a save or *)
(* deletion that met an older copy of its row, requests for one site that  *)
(* overlapped, a request that saves the row of a site and not its hook     *)
(* (save_basic, batch_update), a step that failed, a crash.                *)
ConfFollowsRows == Quiet => FilesFollow /\ HookFollows

(* NOT KEPT BY THE CODE.  Every site has a switch of its own: nginx never  *)
(* calls the WAF for a site without the module it lies in.                 *)
HookHasModule == "hook" \in running => "module" \in running

(* Not kept by the code.  A reload clears what the workers have cached     *)
(* (signals.py:62): the status they then apply to the site is not another  *)
(* one than the file has.                                                  *)
ReloadIsFresh ==
    [][\A t \in Syncs : Reload(t) /\ siteFile \in Settings
            => siteCache' \in {"none", siteFile}]_confVars

(* Not kept by the code.  When nobody is at work and nothing has failed, a *)
(* site that is on is protected.                                           *)
SiteIsProtected ==
    Quiet /\ raced = {} /\ siteRow = "on" => "hook" \in running
=============================================================================
