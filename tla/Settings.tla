----------------------------- MODULE Settings -----------------------------
(***************************************************************************)
(* The settings of the aquarium board: what an older firmware left in      *)
(* flash is moved once to new name spaces at boot; the server's            *)
(* configuration is kept in flash, in a RAM cache of it and, applied, in   *)
(* the controller. Two tasks write it, the automation task with the        *)
(* server's answers and the web server with the edits of a page, each in   *)
(* several steps. A maintenance page edits the flash itself.               *)
(* (nvs_manager.cpp, config.cpp, automatism_sync.cpp, web_server.cpp)      *)
(***************************************************************************)
EXTENDS Integers, FiniteSets

CONSTANTS Long,        \* old entries whose new name passes 15 characters
          MaxEdits,    \* edits of the page, of the server, of the inspector
          Inspector,   \* built with the maintenance page (DANGEROUS_ENDPOINTS)
          MaxResets, MaxFaults

Names == {"thr", "freq"}               \* two settings of the document
None == [n \in Names |-> 3]            \* no value
Default == [n \in Names |-> 0]
OldDoc == [n \in Names |-> 2]          \* what the older firmware left
Keys == {"json", "flag"} \cup Long     \* the document, a feeding flag

VARIABLES flash,   \* old and new name spaces, and the mark of the migration
          boot,    \* step of the start, old entries still to look at
          cache,   \* s_remoteJsonCache, None when it is not valid
          ram,     \* the settings that the controller uses
          slot,    \* s_deferredRemoteJson, None when the queue is empty
          auto, web, \* the two tasks: step and document
          srv,     \* the configuration on the server
          left,    \* edits, resets and faults still to come
          newer, failed \* ghosts: keys written since by this firmware, or
                   \* erased; old entries whose copy failed
svars == <<flash, boot, cache, ram, slot, auto, web, srv, left, newer, failed>>

Idle == [step |-> "idle", doc |-> None]
tasks == <<slot, auto, web>>
ghosts == <<newer, failed>>
Up == boot.step = "run"

(* Preferences, nvs_set: the flash after a write, which may fail *)
Written(f, k, d, ok) == IF ok THEN [f EXCEPT !.new[k] = d] ELSE f
Faults(ok) == left' = [left EXCEPT !.faults = IF ok THEN @ ELSE @ - 1]
Fails == IF left.faults > 0 THEN BOOLEAN ELSE {TRUE}

Start(f) == IF f.done THEN [step |-> "load", todo |-> {}]
                      ELSE [step |-> "migrate", todo |-> Keys]

(* A board whose older firmware has used the entries, or a new board *)
Init ==
    /\ \E d \in {None, OldDoc} :
         flash = [old |-> [k \in Keys |-> d], new |-> [k \in Keys |-> None], done |-> FALSE]
    /\ boot = Start(flash)
    /\ cache = None /\ ram = Default /\ slot = None
    /\ auto = Idle /\ web = Idle
    /\ srv = Default
    /\ left = [edits |-> MaxEdits, resets |-> MaxResets, faults |-> MaxFaults]
    /\ newer = {} /\ failed = {}

-----------------------------------------------------------------------------
\* Mutant: a value that is there already is migrated again.
keyExistsNot(f, k) == FALSE

(* keyExists *)
keyExists(f, k) == f.new[k] # None

(* migrateFromOldSystem: one entry of an old name space *)
Migrate(k, ok) ==
    /\ boot.step = "migrate" /\ k \in boot.todo
    /\ boot' = [boot EXCEPT !.todo = @ \ {k}]
    /\ LET copies == flash.old[k] # None /\ k \notin Long /\ ~keyExists(flash, k)
       IN  /\ ok \/ copies
           /\ flash' = IF copies THEN Written(flash, k, flash.old[k], ok) ELSE flash
           /\ failed' = IF ok THEN failed ELSE failed \cup {k}
    /\ Faults(ok)
    /\ UNCHANGED <<cache, ram, tasks, srv, newer>>

(* The mark comes after the last entry, whatever was not copied *)
Migrated == boot.todo = {}

MarkDone(ok) ==
    /\ boot.step = "migrate" /\ Migrated
    /\ flash' = [flash EXCEPT !.done = ok]
    /\ boot' = [step |-> "load", todo |-> {}]
    /\ Faults(ok)
    /\ UNCHANGED <<cache, ram, tasks, srv, ghosts>>

(* loadString, loadBool, loadInt: a key that is not there reads as its default *)
Loaded(f, k, default) == IF f.new[k] = None THEN default ELSE f.new[k]

(* loadConfigFromNVS, loadRemoteVars, restoreRemoteConfigFromCache *)
Load ==
    /\ boot.step = "load"
    /\ boot' = [boot EXCEPT !.step = "run"]
    /\ cache' = flash.new["json"]
    /\ ram' = Loaded(flash, "json", Default)
    /\ UNCHANGED <<flash, tasks, srv, left, ghosts>>

-----------------------------------------------------------------------------
(* fetchRemoteState: the server's answer, or none *)
PollGot ==
    /\ Up /\ auto.step = "idle" /\ slot = None
    /\ auto' = [step |-> "got", doc |-> srv]
    /\ UNCHANGED <<flash, boot, cache, ram, slot, web, srv, left, ghosts>>

\* Mutant: an answer that the cache holds already is not applied.
AppliedIfNew(d) == IF d = cache THEN ram ELSE d

(* applyRemoteGpioConfig, applyConfigFromJson *)
Applied(d) == d

(* processFetchedRemoteConfig: the answer is queued to be saved, applied *)
PollApply ==
    /\ Up /\ auto.step = "got"
    /\ slot' = auto.doc
    /\ ram' = Applied(auto.doc)
    /\ auto' = Idle
    /\ UNCHANGED <<flash, boot, cache, web, srv, left, ghosts>>

(* loadRemoteVarsIntoDoc: no answer, the cached document is applied again *)
PollFallback ==
    /\ Up /\ auto.step = "idle" /\ cache # None
    /\ ram' = cache
    /\ UNCHANGED <<flash, boot, cache, tasks, srv, left, ghosts>>

(* processDeferredRemoteVarsSave *)
TakeSlot ==
    /\ Up /\ auto.step = "idle" /\ slot # None
    /\ auto' = [step |-> "check", doc |-> slot]
    /\ slot' = None
    /\ UNCHANGED <<flash, boot, cache, ram, web, srv, left, ghosts>>

-----------------------------------------------------------------------------
(* handleDbVarsUpdate, toggleEmailNotifications: one setting of the cached *)
(* document is changed                                                     *)
Edit(n, v) ==
    /\ Up /\ web.step = "idle" /\ left.edits > 0
    /\ LET base == IF cache = None THEN Default ELSE cache
       IN  base[n] # v /\ web' = [step |-> "check", doc |-> [base EXCEPT ![n] = v]]
    /\ left' = [left EXCEPT !.edits = @ - 1]
    /\ UNCHANGED <<flash, boot, cache, ram, slot, auto, srv, ghosts>>

(* The edit is applied at once and posted if the link is up, once *)
EditApplied(sent) ==
    /\ Up /\ web.step = "apply"
    /\ ram' = web.doc
    /\ srv' = IF sent THEN web.doc ELSE srv
    /\ web' = Idle
    /\ UNCHANGED <<flash, boot, cache, slot, auto, left, ghosts>>

(* saveRemoteVars, for the document of a task: a document equal to the     *)
(* cache is not written                                                    *)
Checked(t, end) == IF t.doc = cache THEN [t EXCEPT !.step = end] ELSE [t EXCEPT !.step = "nvs"]

SaveCheck ==
    /\ Up /\ UNCHANGED <<flash, boot, cache, ram, slot, srv, left, ghosts>>
    /\ \/ auto.step = "check" /\ auto' = Checked(auto, "idle") /\ UNCHANGED web
       \/ web.step = "check" /\ web' = Checked(web, "apply") /\ UNCHANGED auto

SaveNvs(ok) ==
    /\ Up /\ Faults(ok)
    /\ \E t \in {auto, web} :
         /\ t.step = "nvs"
         /\ flash' = Written(flash, "json", t.doc, ok)
         /\ \/ t = auto /\ auto' = [auto EXCEPT !.step = "cache"] /\ UNCHANGED web
            \/ t = web /\ web' = [web EXCEPT !.step = "cache"] /\ UNCHANGED auto
    /\ newer' = IF ok THEN newer \cup {"json"} ELSE newer
    /\ UNCHANGED <<boot, cache, ram, slot, srv, failed>>

SaveCache ==
    /\ Up /\ UNCHANGED <<flash, boot, ram, slot, srv, left, ghosts>>
    /\ \/ auto.step = "cache" /\ cache' = auto.doc /\ auto' = Idle /\ UNCHANGED web
       \/ web.step = "cache" /\ cache' = web.doc /\ web' = [web EXCEPT !.step = "apply"] /\ UNCHANGED auto

(* saveBool, saveInt, saveFloat, saveULong: written if it has changed *)
SaveTyped(d, ok) ==
    /\ Up /\ flash.new["flag"] # d
    /\ flash' = Written(flash, "flag", d, ok)
    /\ newer' = IF ok THEN newer \cup {"flag"} ELSE newer
    /\ Faults(ok)
    /\ UNCHANGED <<boot, cache, ram, tasks, srv, failed>>

-----------------------------------------------------------------------------
(* The inspector writes the flash and applies the document; the RAM cache *)
(* is left as it is                                                       *)
InspectorSet(d) ==
    /\ Inspector /\ Up /\ left.edits > 0 /\ web.step = "idle"
    /\ flash' = Written(flash, "json", d, TRUE)
    /\ ram' = d
    /\ left' = [left EXCEPT !.edits = @ - 1]
    /\ newer' = newer \cup {"json"}
    /\ UNCHANGED <<boot, cache, tasks, srv, failed>>

(* /nvs/erase of a key, /nvs/erase_ns of the name space of the mark *)
InspectorErase ==
    /\ Inspector /\ Up /\ left.edits > 0 /\ web.step = "idle"
    /\ left' = [left EXCEPT !.edits = @ - 1]
    /\ \/ \E k \in Keys \ Long : /\ flash' = [flash EXCEPT !.new[k] = None]
                                 /\ newer' = newer \ {k} /\ failed' = failed \cup {k}
       \/ flash' = [flash EXCEPT !.done = FALSE] /\ UNCHANGED ghosts
    /\ UNCHANGED <<boot, cache, ram, tasks, srv>>

ServerEdit(d) ==
    /\ left.edits > 0 /\ d # srv
    /\ srv' = d
    /\ left' = [left EXCEPT !.edits = @ - 1]
    /\ UNCHANGED <<flash, boot, cache, ram, tasks, ghosts>>

Reset ==
    /\ left.resets > 0
    /\ left' = [left EXCEPT !.resets = @ - 1]
    /\ boot' = Start(flash)
    /\ cache' = None /\ ram' = Default /\ slot' = None /\ auto' = Idle /\ web' = Idle
    /\ UNCHANGED <<flash, srv, ghosts>>

Next ==
    \/ \E k \in Keys, ok \in Fails : Migrate(k, ok)
    \/ \E ok \in Fails : MarkDone(ok)
    \/ Load
    \/ PollGot \/ PollApply \/ PollFallback \/ TakeSlot
    \/ \E n \in Names, v \in 0..1 : Edit(n, v)
    \/ \E sent \in BOOLEAN : EditApplied(sent)
    \/ SaveCheck \/ SaveCache
    \/ \E ok \in Fails : SaveNvs(ok)
    \/ \E d \in {Default}, ok \in Fails : SaveTyped(d, ok)
    \/ \E d \in {Default} : InspectorSet(d)
    \/ InspectorErase
    \/ \E n \in Names : ServerEdit([srv EXCEPT ![n] = 1])
    \/ Reset

\* The two tasks and the start go on, without a fault, and the server answers
\* sooner or later.
Steps ==
    \/ \E k \in Keys : Migrate(k, TRUE)
    \/ MarkDone(TRUE) \/ Load
    \/ PollApply \/ TakeSlot
    \/ \E sent \in BOOLEAN : EditApplied(sent)
    \/ SaveCheck \/ SaveNvs(TRUE) \/ SaveCache
Spec == Init /\ [][Next]_svars /\ WF_svars(Steps) /\ SF_svars(PollGot)
-----------------------------------------------------------------------------
(* What the older firmware left is there under its new name once the       *)
(* migration is marked as done, and it never comes back over a value that  *)
(* this firmware has written, whatever resets and failed marks come        *)
(* between.                                                                *)
OldIsMoved ==
    \A k \in Keys \ Long :
        /\ flash.done /\ flash.old[k] # None /\ k \notin failed => flash.new[k] # None
        /\ k \in newer => flash.new[k] # OldDoc

(* The controller ends with the server's settings, whatever saves crossed, *)
(* failed or were skipped, and whatever the inspector did to the flash.    *)
Settles == <>[](ram = srv)

=============================================================================
