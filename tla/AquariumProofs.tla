----------------------------- MODULE AquariumProofs -----------------------------
(***************************************************************************)
(* What the parts of Aquarium and of AquaSleep do for every value of their *)
(* bounds.  A setting the older firmware left is moved before its copy is  *)
(* erased; a latch stands for a mail delivered or in the queue, and the    *)
(* mails about an overfull aquarium are a cooldown apart; a wake restores  *)
(* the actuators as they were; NTP's trust covers a right clock only.      *)
(***************************************************************************)
EXTENDS Aquarium, AquaSleep, Sequences, TLAPS

-----------------------------------------------------------------------------
(* The settings (Settings).                                                 *)


Documents == [Names -> 0..2]
Fresh == Documents \ {OldDoc}

TaskSteps == {"idle", "got", "check", "nvs", "cache", "apply"}
TaskOK(t) == /\ t \in [step : TaskSteps, doc : Fresh \cup {None}]
             /\ t.step # "idle" => t.doc \in Fresh

FlashOK == flash \in [old : [Keys -> {None, OldDoc}],
                      new : [Keys -> Documents \cup {None}], done : BOOLEAN]
StateOK ==
    /\ FlashOK
    /\ boot \in [step : {"migrate", "load", "run"}, todo : SUBSET Keys]
    /\ cache \in Documents \cup {None}
    /\ slot \in Fresh \cup {None}
    /\ TaskOK(auto) /\ TaskOK(web)
    /\ srv \in Fresh
    /\ newer \subseteq Keys

(* An entry that this firmware has written holds a document of its own. *)
NewerFresh == \A k \in newer : flash.new[k] \in Fresh

(* An entry the migration has passed is in place, unless its copy failed. *)
Passed(k) == flash.done \/ (boot.step = "migrate" /\ k \notin boot.todo)
InPlace == \A k \in Keys \ Long :
               Passed(k) /\ flash.old[k] # None /\ k \notin failed => flash.new[k] # None

SInv == StateOK /\ NewerFresh /\ InPlace

-----------------------------------------------------------------------------
(* The documents: none is the absent value, and a document with a setting  *)
(* below 2 is not the old one.                                             *)
LEMMA DocumentFacts ==
    /\ OldDoc \in Documents /\ OldDoc # None /\ None \notin Documents
    /\ Default \in Fresh
<1>1. OldDoc \in Documents /\ Default \in Documents
  BY SMT DEF OldDoc, Default, Documents
<1>2. \A d : d \in Documents => d["thr"] \in 0..2 BY SMT DEF Documents, Names
<1>3. None["thr"] = 3 /\ OldDoc["thr"] = 2 /\ Default["thr"] = 0
  BY SMT DEF None, OldDoc, Default, Names
<1>. QED BY <1>1, <1>2, <1>3, SMT DEF Fresh

(* One setting changed by the page: the document is not the old one. *)
LEMMA EditedFresh ==
    ASSUME NEW d \in Documents, NEW n \in Names, NEW v \in 0..1
    PROVE  [d EXCEPT ![n] = v] \in Fresh
<1>1. [d EXCEPT ![n] = v] \in Documents BY SMT DEF Documents
<1>2. [d EXCEPT ![n] = v][n] = v BY SMT DEF Documents
<1>3. OldDoc[n] = 2 BY SMT DEF OldDoc
<1>4. v # 2 BY SMT
<1>5. [d EXCEPT ![n] = v] # OldDoc BY <1>2, <1>3, <1>4, Zenon
<1>. QED BY <1>1, <1>5 DEF Fresh

LEMMA KeyFacts == "json" \in Keys /\ "flag" \in Keys
BY DEF Keys

(* A write of a fresh document keeps the flash and its entries well. *)
LEMMA WriteKeeps ==
    ASSUME SInv, NEW k \in Keys, NEW d \in Fresh, NEW ok \in BOOLEAN,
           flash' = Written(flash, k, d, ok),
           newer' = IF ok THEN newer \cup {k} ELSE newer,
           UNCHANGED <<boot, failed>>
    PROVE  FlashOK' /\ newer' \subseteq Keys /\ NewerFresh' /\ InPlace'
<1>0. d \in Documents /\ d # None BY DocumentFacts DEF Fresh
<1>. USE DEF SInv, StateOK
<1>1. CASE ok
  <2>1. flash' = [flash EXCEPT !.new[k] = d] /\ newer' = newer \cup {k} BY <1>1 DEF Written
  <2>2. FlashOK' BY <2>1, <1>0 DEF FlashOK
  <2>3. \A j \in Keys : flash'.new[j] = IF j = k THEN d ELSE flash.new[j]
    BY <2>1 DEF FlashOK
  <2>4. flash'.old = flash.old /\ flash'.done = flash.done BY <2>1 DEF FlashOK
  <2>5. NewerFresh' BY <2>1, <2>3 DEF NewerFresh
  <2>6. InPlace' BY <2>3, <2>4, <1>0 DEF InPlace, Passed
  <2>. QED BY <2>1, <2>2, <2>5, <2>6
<1>2. CASE ~ok
  <2>1. flash' = flash /\ newer' = newer BY <1>2 DEF Written
  <2>. QED BY <2>1 DEF FlashOK, NewerFresh, InPlace, Passed
<1>. QED BY <1>1, <1>2

(* A step that leaves the flash and the start alone. *)
LEMMA FlashUnchanged ==
    ASSUME SInv, UNCHANGED <<flash, boot, newer, failed>>
    PROVE  FlashOK' /\ newer' \subseteq Keys /\ NewerFresh' /\ InPlace'
BY DEF SInv, StateOK, FlashOK, NewerFresh, InPlace, Passed

-----------------------------------------------------------------------------
LEMMA InitInv == Init => SInv
<1>. SUFFICES ASSUME Init PROVE SInv OBVIOUS
<1>1. PICK d \in {None, OldDoc} :
        flash = [old |-> [k \in Keys |-> d], new |-> [k \in Keys |-> None], done |-> FALSE]
  BY DEF Init
<1>2. FlashOK BY <1>1 DEF FlashOK
<1>3. flash.done = FALSE BY <1>1
<1>4. boot = [step |-> "migrate", todo |-> Keys] BY <1>3 DEF Init, Start
<1>5. TaskOK(Idle) BY DEF TaskOK, Idle, TaskSteps
<1>6. StateOK
  <2>1. boot \in [step : {"migrate", "load", "run"}, todo : SUBSET Keys] BY <1>4
  <2>2. cache = None /\ slot = None /\ auto = Idle /\ web = Idle /\ newer = {}
        /\ srv = Default
    BY DEF Init
  <2>3. srv \in Fresh BY <2>2, DocumentFacts
  <2>. QED BY <1>2, <1>5, <2>1, <2>2, <2>3 DEF StateOK
<1>7. NewerFresh BY DEF Init, NewerFresh
<1>8. InPlace BY <1>3, <1>4 DEF InPlace, Passed
<1>. QED BY <1>6, <1>7, <1>8 DEF SInv

(* One entry of the migration: only an absent entry is written, so that no *)
(* entry of this firmware is; and the entry passed is in place or failed.  *)
LEMMA MigrateInv ==
    ASSUME SInv, NEW k \in Keys, NEW ok \in BOOLEAN, Migrate(k, ok)
    PROVE  SInv'
<1>. USE DEF SInv, StateOK
<1>. DEFINE copies == flash.old[k] # None /\ k \notin Long /\ ~keyExists(flash, k)
<1>1. /\ boot.step = "migrate" /\ k \in boot.todo
      /\ boot' = [boot EXCEPT !.todo = @ \ {k}]
      /\ ok \/ copies
      /\ flash' = IF copies THEN Written(flash, k, flash.old[k], ok) ELSE flash
      /\ failed' = IF ok THEN failed ELSE failed \cup {k}
      /\ UNCHANGED <<cache, ram, slot, auto, web, srv, newer>>
  BY DEF Migrate, tasks
<1>2. boot' \in [step : {"migrate", "load", "run"}, todo : SUBSET Keys]
      /\ boot'.step = "migrate" /\ boot'.todo = boot.todo \ {k}
  BY <1>1
<1>3. CASE copies /\ ok
  <2>1. flash.old[k] = OldDoc BY <1>3 DEF FlashOK
  <2>2. flash' = [flash EXCEPT !.new[k] = OldDoc] BY <1>1, <1>3, <2>1 DEF Written
  <2>3. \A j \in Keys : flash'.new[j] = IF j = k THEN OldDoc ELSE flash.new[j]
    BY <2>2 DEF FlashOK
  <2>4. flash'.old = flash.old /\ flash'.done = flash.done BY <2>2 DEF FlashOK
  <2>5. FlashOK' BY <2>2, DocumentFacts DEF FlashOK
  <2>6. k \notin newer BY <1>3, DocumentFacts DEF NewerFresh, keyExists, Fresh
  <2>7. NewerFresh' BY <1>1, <2>3, <2>6 DEF NewerFresh
  <2>8. InPlace' BY <1>1, <1>2, <1>3, <2>3, <2>4, DocumentFacts DEF InPlace, Passed
  <2>. QED BY <1>1, <1>2, <2>5, <2>7, <2>8
<1>4. CASE ~(copies /\ ok)
  <2>1. flash' = flash BY <1>1, <1>4 DEF Written
  <2>2. k \notin Long /\ flash.old[k] # None /\ k \notin failed' => flash.new[k] # None
    BY <1>1, <1>4 DEF keyExists
  <2>3. FlashOK' BY <2>1 DEF FlashOK
  <2>4. NewerFresh' BY <1>1, <2>1 DEF NewerFresh
  <2>5. InPlace' BY <1>1, <1>2, <2>1, <2>2 DEF InPlace, Passed
  <2>. QED BY <1>1, <1>2, <2>3, <2>4, <2>5
<1>. QED BY <1>3, <1>4

(* The mark: every entry has been passed. *)
LEMMA MarkInv == ASSUME SInv, NEW ok \in BOOLEAN, MarkDone(ok) PROVE SInv'
<1>. USE DEF SInv, StateOK
<1>1. /\ boot.step = "migrate" /\ boot.todo = {}
      /\ flash' = [flash EXCEPT !.done = ok]
      /\ boot' = [step |-> "load", todo |-> {}]
      /\ UNCHANGED <<cache, ram, slot, auto, web, srv, newer, failed>>
  BY DEF MarkDone, Migrated, tasks, ghosts
<1>2. flash'.old = flash.old /\ flash'.new = flash.new /\ FlashOK' BY <1>1 DEF FlashOK
<1>3. NewerFresh' BY <1>1, <1>2 DEF NewerFresh
<1>4. \A k \in Keys : Passed(k) BY <1>1 DEF Passed
<1>5. InPlace' BY <1>1, <1>2, <1>4 DEF InPlace
<1>. QED BY <1>1, <1>2, <1>3, <1>5

(* The start again: the migration has all its entries before it, or is     *)
(* marked as done.                                                         *)
LEMMA ResetInv == ASSUME SInv, Reset PROVE SInv'
<1>. USE DEF SInv, StateOK
<1>1. /\ boot' = Start(flash)
      /\ cache' = None /\ slot' = None /\ auto' = Idle /\ web' = Idle
      /\ UNCHANGED <<flash, srv, newer, failed>>
  BY DEF Reset, ghosts
<1>2. boot' = IF flash.done THEN [step |-> "load", todo |-> {}]
                            ELSE [step |-> "migrate", todo |-> Keys]
  BY <1>1 DEF Start
<1>3. boot' \in [step : {"migrate", "load", "run"}, todo : SUBSET Keys] BY <1>2
<1>4. TaskOK(auto)' /\ TaskOK(web)' BY <1>1 DEF TaskOK, Idle, TaskSteps
<1>5. FlashOK' /\ NewerFresh' BY <1>1 DEF FlashOK, NewerFresh
<1>6. InPlace' BY <1>1, <1>2 DEF InPlace, Passed
<1>. QED BY <1>1, <1>3, <1>4, <1>5, <1>6

(* The end of the start *)
LEMMA LoadInv == ASSUME SInv, Load PROVE SInv'
<1>. USE DEF SInv, StateOK
<1>1. /\ boot.step = "load" /\ boot' = [boot EXCEPT !.step = "run"]
      /\ cache' = flash.new["json"]
      /\ UNCHANGED <<flash, slot, auto, web, srv, newer, failed>>
  BY DEF Load, tasks, ghosts
<1>2. cache' \in Documents \cup {None} BY <1>1, KeyFacts DEF FlashOK
<1>3. boot' \in [step : {"migrate", "load", "run"}, todo : SUBSET Keys] /\ boot'.step = "run"
  BY <1>1
<1>4. FlashOK' /\ NewerFresh' BY <1>1 DEF FlashOK, NewerFresh
<1>5. InPlace' BY <1>1, <1>3 DEF InPlace, Passed
<1>. QED BY <1>1, <1>2, <1>3, <1>4, <1>5 DEF TaskOK

-----------------------------------------------------------------------------
(* The steps of the two tasks that leave the flash alone. *)
LEMMA QuietInv ==
    ASSUME SInv, PollGot \/ PollApply \/ PollFallback \/ TakeSlot
                 \/ SaveCheck \/ SaveCache
                 \/ \E sent \in BOOLEAN : EditApplied(sent)
    PROVE  SInv'
<1>. USE DEF SInv, StateOK
<1>1. CASE PollGot
  <2>1. srv \in Fresh OBVIOUS
  <2>2. auto' = [step |-> "got", doc |-> srv]
        /\ UNCHANGED <<flash, boot, cache, slot, web, srv, newer, failed>>
    BY <1>1 DEF PollGot, ghosts
  <2>3. TaskOK(auto)' /\ TaskOK(web)' BY <2>1, <2>2 DEF TaskOK, TaskSteps
  <2>. QED BY <2>2, <2>3, FlashUnchanged
<1>2. CASE PollApply
  <2>1. auto.step = "got" /\ slot' = auto.doc /\ auto' = Idle
        /\ UNCHANGED <<flash, boot, cache, web, srv, newer, failed>>
    BY <1>2 DEF PollApply, ghosts
  <2>2. slot' \in Fresh BY <2>1 DEF TaskOK
  <2>3. TaskOK(auto)' /\ TaskOK(web)' BY <2>1 DEF TaskOK, TaskSteps, Idle
  <2>. QED BY <2>1, <2>2, <2>3, FlashUnchanged
<1>3. CASE PollFallback
  <2>1. UNCHANGED <<flash, boot, cache, slot, auto, web, srv, newer, failed>>
    BY <1>3 DEF PollFallback, tasks, ghosts
  <2>. QED BY <2>1, FlashUnchanged DEF TaskOK
<1>4. CASE TakeSlot
  <2>1. slot # None /\ auto' = [step |-> "check", doc |-> slot] /\ slot' = None
        /\ UNCHANGED <<flash, boot, cache, web, srv, newer, failed>>
    BY <1>4 DEF TakeSlot, ghosts
  <2>2. slot \in Fresh BY <2>1
  <2>3. TaskOK(auto)' /\ TaskOK(web)' BY <2>1, <2>2 DEF TaskOK, TaskSteps
  <2>. QED BY <2>1, <2>3, FlashUnchanged
<1>5. CASE SaveCheck
  <2>1. UNCHANGED <<flash, boot, cache, slot, srv, newer, failed>> BY <1>5 DEF SaveCheck, ghosts
  <2>2. ASSUME NEW t, NEW end \in {"idle", "apply"}, TaskOK(t), t.step # "idle"
        PROVE  TaskOK(Checked(t, end))
    BY <2>2 DEF TaskOK, TaskSteps, Checked
  <2>3. TaskOK(auto') /\ TaskOK(web') BY <1>5, <2>2 DEF SaveCheck
  <2>. QED BY <2>1, <2>3, FlashUnchanged DEF TaskOK
<1>6. CASE SaveCache
  <2>1. UNCHANGED <<flash, boot, slot, srv, newer, failed>> BY <1>6 DEF SaveCache, ghosts
  <2>2. CASE auto.step = "cache" /\ cache' = auto.doc /\ auto' = Idle /\ UNCHANGED web
    <3>1. cache' \in Documents BY <2>2 DEF TaskOK, Fresh
    <3>2. TaskOK(auto)' /\ TaskOK(web)' BY <2>2 DEF TaskOK, TaskSteps, Idle
    <3>. QED BY <2>1, <3>1, <3>2, FlashUnchanged
  <2>3. CASE web.step = "cache" /\ cache' = web.doc /\ web' = [web EXCEPT !.step = "apply"]
             /\ UNCHANGED auto
    <3>1. cache' \in Documents BY <2>3 DEF TaskOK, Fresh
    <3>2. TaskOK(auto)' /\ TaskOK(web)' BY <2>3 DEF TaskOK, TaskSteps
    <3>. QED BY <2>1, <3>1, <3>2, FlashUnchanged
  <2>. QED BY <1>6, <2>2, <2>3 DEF SaveCache
<1>7. CASE \E sent \in BOOLEAN : EditApplied(sent)
  <2>1. PICK sent \in BOOLEAN : EditApplied(sent) BY <1>7
  <2>2. web.step = "apply" /\ srv' = (IF sent THEN web.doc ELSE srv) /\ web' = Idle
        /\ UNCHANGED <<flash, boot, cache, slot, auto, newer, failed>>
    BY <2>1 DEF EditApplied, ghosts
  <2>3. srv' \in Fresh BY <2>2 DEF TaskOK
  <2>4. TaskOK(auto)' /\ TaskOK(web)' BY <2>2 DEF TaskOK, TaskSteps, Idle
  <2>. QED BY <2>2, <2>3, <2>4, FlashUnchanged
<1>. QED BY <1>1, <1>2, <1>3, <1>4, <1>5, <1>6, <1>7

(* The page's edits, the server's, and the answer that is queued next *)
LEMMA EditInv ==
    ASSUME SInv, NEW n \in Names, NEW v \in 0..1, Edit(n, v)
    PROVE  SInv'
<1>. USE DEF SInv, StateOK
<1>. DEFINE base == IF cache = None THEN Default ELSE cache
<1>1. web' = [step |-> "check", doc |-> [base EXCEPT ![n] = v]]
      /\ UNCHANGED <<flash, boot, cache, slot, auto, srv, newer, failed>>
  BY DEF Edit, ghosts
<1>2. base \in Documents BY DocumentFacts DEF Fresh
<1>3. [base EXCEPT ![n] = v] \in Fresh BY <1>2, EditedFresh
<1>4. TaskOK(web)' /\ TaskOK(auto)' BY <1>1, <1>3 DEF TaskOK, TaskSteps
<1>. QED BY <1>1, <1>4, FlashUnchanged

LEMMA ServerEditInv ==
    ASSUME SInv, NEW n \in Names, ServerEdit([srv EXCEPT ![n] = 1])
    PROVE  SInv'
<1>. USE DEF SInv, StateOK
<1>1. srv' = [srv EXCEPT ![n] = 1]
      /\ UNCHANGED <<flash, boot, cache, slot, auto, web, newer, failed>>
  BY DEF ServerEdit, tasks, ghosts
<1>2. srv \in Documents /\ 1 \in 0..1 BY SMT DEF Fresh
<1>3. srv' \in Fresh BY <1>1, <1>2, EditedFresh
<1>. QED BY <1>1, <1>3, FlashUnchanged DEF TaskOK

-----------------------------------------------------------------------------
(* The steps that write the flash while the board runs *)
LEMMA SaveNvsInv == ASSUME SInv, NEW ok \in BOOLEAN, SaveNvs(ok) PROVE SInv'
<1>. USE DEF SInv, StateOK
<1>1. PICK t \in {auto, web} :
        /\ t.step = "nvs"
        /\ flash' = Written(flash, "json", t.doc, ok)
        /\ \/ t = auto /\ auto' = [auto EXCEPT !.step = "cache"] /\ UNCHANGED web
           \/ t = web /\ web' = [web EXCEPT !.step = "cache"] /\ UNCHANGED auto
  BY DEF SaveNvs
<1>2. newer' = (IF ok THEN newer \cup {"json"} ELSE newer)
      /\ UNCHANGED <<boot, cache, slot, srv, failed>>
  BY DEF SaveNvs
<1>3. t.doc \in Fresh BY <1>1 DEF TaskOK
<1>4. TaskOK(auto)' /\ TaskOK(web)' BY <1>1 DEF TaskOK, TaskSteps
<1>5. FlashOK' /\ newer' \subseteq Keys /\ NewerFresh' /\ InPlace'
  BY <1>1, <1>2, <1>3, KeyFacts, WriteKeeps
<1>. QED BY <1>2, <1>4, <1>5

LEMMA SaveTypedInv == ASSUME SInv, NEW ok \in BOOLEAN, SaveTyped(Default, ok) PROVE SInv'
<1>. USE DEF SInv, StateOK
<1>1. /\ flash' = Written(flash, "flag", Default, ok)
      /\ newer' = (IF ok THEN newer \cup {"flag"} ELSE newer)
      /\ UNCHANGED <<boot, cache, slot, auto, web, srv, failed>>
  BY DEF SaveTyped, tasks
<1>2. FlashOK' /\ newer' \subseteq Keys /\ NewerFresh' /\ InPlace'
  BY <1>1, DocumentFacts, KeyFacts, WriteKeeps
<1>. QED BY <1>1, <1>2 DEF TaskOK

LEMMA InspectorSetInv == ASSUME SInv, InspectorSet(Default) PROVE SInv'
<1>. USE DEF SInv, StateOK
<1>1. /\ flash' = Written(flash, "json", Default, TRUE)
      /\ newer' = newer \cup {"json"}
      /\ UNCHANGED <<boot, cache, slot, auto, web, srv, failed>>
  BY DEF InspectorSet, tasks
<1>2. FlashOK' /\ newer' \subseteq Keys /\ NewerFresh' /\ InPlace'
  BY <1>1, DocumentFacts, KeyFacts, WriteKeeps
<1>. QED BY <1>1, <1>2 DEF TaskOK

(* An entry erased counts as failed; the mark erased takes nothing away. *)
LEMMA InspectorEraseInv == ASSUME SInv, InspectorErase PROVE SInv'
<1>. USE DEF SInv, StateOK
<1>1. UNCHANGED <<boot, cache, slot, auto, web, srv>> BY DEF InspectorErase, tasks
<1>2. ASSUME NEW k \in Keys \ Long, flash' = [flash EXCEPT !.new[k] = None],
             newer' = newer \ {k}, failed' = failed \cup {k}
      PROVE  FlashOK' /\ newer' \subseteq Keys /\ NewerFresh' /\ InPlace'
  <2>1. FlashOK' BY <1>2 DEF FlashOK
  <2>2. \A j \in Keys : flash'.new[j] = IF j = k THEN None ELSE flash.new[j]
    BY <1>2 DEF FlashOK
  <2>3. flash'.old = flash.old /\ flash'.done = flash.done BY <1>2 DEF FlashOK
  <2>4. NewerFresh' BY <1>2, <2>2 DEF NewerFresh
  <2>5. InPlace' BY <1>1, <1>2, <2>2, <2>3 DEF InPlace, Passed
  <2>. QED BY <1>2, <2>1, <2>4, <2>5
<1>3. ASSUME flash' = [flash EXCEPT !.done = FALSE], UNCHANGED <<newer, failed>>
      PROVE  FlashOK' /\ newer' \subseteq Keys /\ NewerFresh' /\ InPlace'
  <2>1. FlashOK' /\ flash'.old = flash.old /\ flash'.new = flash.new /\ flash'.done = FALSE
    BY <1>3 DEF FlashOK
  <2>. QED BY <1>1, <1>3, <2>1 DEF NewerFresh, InPlace, Passed
<1>4. FlashOK' /\ newer' \subseteq Keys /\ NewerFresh' /\ InPlace'
  BY <1>2, <1>3 DEF InspectorErase, ghosts
<1>. QED BY <1>1, <1>4 DEF TaskOK

-----------------------------------------------------------------------------
LEMMA NextInv == SInv /\ [Next]_svars => SInv'
<1>. SUFFICES ASSUME SInv, [Next]_svars PROVE SInv' OBVIOUS
<1>1. \A ok \in Fails : ok \in BOOLEAN BY DEF Fails
<1>2. CASE \E k \in Keys, ok \in Fails : Migrate(k, ok) BY <1>1, <1>2, MigrateInv
<1>3. CASE \E ok \in Fails : MarkDone(ok) BY <1>1, <1>3, MarkInv
<1>4. CASE Load BY <1>4, LoadInv
<1>5. CASE PollGot \/ PollApply \/ PollFallback \/ TakeSlot \/ SaveCheck \/ SaveCache
           \/ \E sent \in BOOLEAN : EditApplied(sent)
  BY <1>5, QuietInv
<1>6. CASE \E n \in Names, v \in 0..1 : Edit(n, v) BY <1>6, EditInv
<1>7. CASE \E ok \in Fails : SaveNvs(ok) BY <1>1, <1>7, SaveNvsInv
<1>8. CASE \E d \in {Default}, ok \in Fails : SaveTyped(d, ok) BY <1>1, <1>8, SaveTypedInv
<1>9. CASE \E d \in {Default} : InspectorSet(d) BY <1>9, InspectorSetInv
<1>10. CASE InspectorErase BY <1>10, InspectorEraseInv
<1>11. CASE \E n \in Names : ServerEdit([srv EXCEPT ![n] = 1]) BY <1>11, ServerEditInv
<1>12. CASE Reset BY <1>12, ResetInv
<1>13. CASE UNCHANGED svars
  BY <1>13 DEF svars, SInv, StateOK, FlashOK, TaskOK, NewerFresh, InPlace, Passed
<1>. QED
  BY <1>2, <1>3, <1>4, <1>5, <1>6, <1>7, <1>8, <1>9, <1>10, <1>11, <1>12, <1>13 DEF Next

(* What an older firmware left is in place once the migration is marked as *)
(* done, and never comes back over what this firmware wrote, for any set   *)
(* of entries, edits, resets and failed writes (migrateFromOldSystem,      *)
(* saveRemoteVars).                                                        *)
THEOREM OldIsMovedCorrect == Spec => []OldIsMoved
<1>1. SInv => OldIsMoved
  BY DEF SInv, NewerFresh, InPlace, Passed, OldIsMoved, Fresh
<1>. QED BY <1>1, InitInv, NextInv, PTL DEF Spec

-----------------------------------------------------------------------------
(* The light sleep (SleepCycle).                                            *)

(* From the save to the restoration, the snapshot that was saved is the     *)
(* pending one, and only what was commanded since runs.                     *)
RestInv ==
    /\ seen \in [on : SUBSET Acts, told : SUBSET Acts, saved : BOOLEAN]
    /\ snap \in [pending : BOOLEAN, on : SUBSET Acts]
    /\ acts \in SUBSET Acts
    /\ seen.saved /\ pc \in {"quiesce", "asleep", "restore"}
         => snap.pending /\ snap.on = seen.on /\ acts \subseteq seen.told
    /\ Rest!RestoredOwn

LEMMA RestInit == Rest!Init => RestInv
BY DEF Rest!Init, Rest!Seen0, RestInv, Rest!RestoredOwn

LEMMA VisitKeeps ==
    ASSUME RestInv, Rest!Visit
    PROVE  RestInv'
<1>1. /\ seen \in [on : SUBSET Acts, told : SUBSET Acts, saved : BOOLEAN]
      /\ snap \in [pending : BOOLEAN, on : SUBSET Acts] /\ acts \in SUBSET Acts
      /\ seen.saved /\ pc \in {"quiesce", "asleep", "restore"}
           => snap.pending /\ snap.on = seen.on /\ acts \subseteq seen.told
      /\ pc = "reconnect" /\ seen.saved => acts \ seen.told = seen.on \ seen.told
  BY DEF RestInv, Rest!RestoredOwn
<1>2. pc' = pc /\ snap' = snap
  BY DEF Rest!Visit
<1>3. CASE acts' = acts /\ seen' = seen
  BY <1>1, <1>2, <1>3 DEF RestInv, Rest!RestoredOwn
<1>4. ASSUME NEW a \in Acts, acts' = IF a \in acts THEN acts \ {a} ELSE acts \cup {a},
             seen' = [seen EXCEPT !.told = @ \cup {a}]
      PROVE  RestInv'
  <2>1. /\ seen' \in [on : SUBSET Acts, told : SUBSET Acts, saved : BOOLEAN]
        /\ seen'.on = seen.on /\ seen'.saved = seen.saved /\ seen'.told = seen.told \cup {a}
    BY <1>1, <1>4
  <2>2. acts' \in SUBSET Acts /\ acts' \ {a} = acts \ {a}
    BY <1>1, <1>4
  <2>3. acts \subseteq seen.told => acts' \subseteq seen'.told
    BY <2>1, <2>2
  <2>4. acts \ seen.told = seen.on \ seen.told => acts' \ seen'.told = seen'.on \ seen'.told
    BY <2>1, <2>2
  <2> QED BY <1>1, <1>2, <2>1, <2>2, <2>3, <2>4 DEF RestInv, Rest!RestoredOwn
<1> QED BY <1>3, <1>4 DEF Rest!Visit

LEMMA RestStep ==
    ASSUME RestInv, [Rest!Next]_restVars
    PROVE  RestInv'
<1>1. /\ seen \in [on : SUBSET Acts, told : SUBSET Acts, saved : BOOLEAN]
      /\ snap \in [pending : BOOLEAN, on : SUBSET Acts] /\ acts \in SUBSET Acts
      /\ seen.saved /\ pc \in {"quiesce", "asleep", "restore"}
           => snap.pending /\ snap.on = seen.on /\ acts \subseteq seen.told
      /\ pc = "reconnect" /\ seen.saved => acts \ seen.told = seen.on \ seen.told
  BY DEF RestInv, Rest!RestoredOwn
<1>2. CASE Rest!Prepare
  <2>1. PICK saved \in BOOLEAN :
           /\ snap' = IF saved THEN [pending |-> TRUE, on |-> acts] ELSE snap
           /\ seen' = [on |-> acts, told |-> {}, saved |-> saved]
    BY <1>2 DEF Rest!Prepare, Rest!Captured
  <2>2. acts' = {} /\ pc' = "quiesce"
    BY <1>2 DEF Rest!Prepare
  <2>3. CASE saved
    BY <1>1, <2>1, <2>2, <2>3 DEF RestInv, Rest!RestoredOwn
  <2>4. CASE ~saved
    BY <1>1, <2>1, <2>2, <2>4 DEF RestInv, Rest!RestoredOwn
  <2> QED BY <2>3, <2>4
<1>3. CASE Rest!Restore
  <2>1. /\ pc = "restore" /\ pc' = "reconnect" /\ seen' = seen
        /\ acts' = IF snap.pending THEN acts \cup snap.on ELSE acts
        /\ snap' = [snap EXCEPT !.pending = FALSE]
    BY <1>3 DEF Rest!Restore
  <2>2. snap' \in [pending : BOOLEAN, on : SUBSET Acts] /\ acts' \in SUBSET Acts
    BY <1>1, <2>1
  <2>3. seen.saved => acts' \ seen.told = seen.on \ seen.told
    <3> SUFFICES ASSUME seen.saved PROVE acts' \ seen.told = seen.on \ seen.told
      OBVIOUS
    <3>1. acts' = acts \cup seen.on /\ acts \subseteq seen.told
      BY <1>1, <2>1
    <3> QED BY <3>1
  <2> QED BY <1>1, <2>1, <2>2, <2>3 DEF RestInv, Rest!RestoredOwn
<1>4. CASE Rest!Visit
  BY <1>4, VisitKeeps
<1>5. CASE Rest!Reset
  <2>1. pc' = "idle" /\ acts' = {} /\ seen' = Rest!Seen0 /\ snap' = snap
    BY <1>5 DEF Rest!Reset
  <2> QED BY <1>1, <2>1 DEF RestInv, Rest!RestoredOwn, Rest!Seen0
<1>6. CASE Rest!Quiesce \/ Rest!LightSleep
  <2>1. /\ acts' = acts /\ snap' = snap /\ seen' = seen
        /\ pc \in {"quiesce", "asleep"} /\ pc' \in {"asleep", "restore"}
    BY <1>6 DEF Rest!Quiesce, Rest!LightSleep
  <2> QED BY <1>1, <2>1 DEF RestInv, Rest!RestoredOwn
<1>7. CASE Rest!Evaluate \/ Rest!Enter \/ Rest!Reconnect \/ Rest!Fetch \/ Rest!Woken
  <2>1. /\ acts' = acts /\ snap' = snap /\ seen' = seen
        /\ pc' \in {"idle", "decided", "prepare", "fetch", "woken"}
    BY <1>7 DEF Rest!Evaluate, Rest!Enter, Rest!Reconnect, Rest!Fetch, Rest!Woken
  <2> QED BY <1>1, <2>1 DEF RestInv, Rest!RestoredOwn
<1>8. CASE Rest!SendPost \/ Rest!Work \/ Rest!Tick \/ UNCHANGED restVars
  <2>1. acts' = acts /\ snap' = snap /\ seen' = seen /\ pc' = pc
    BY <1>8 DEF Rest!SendPost, Rest!Work, Rest!Tick, restVars
  <2> QED BY <1>1, <2>1 DEF RestInv, Rest!RestoredOwn
<1> QED BY <1>2, <1>3, <1>4, <1>5, <1>6, <1>7, <1>8 DEF Rest!Next, Rest!Cycle

-----------------------------------------------------------------------------
(* The clock (Clock).                                                       *)

(* A clock that SNTP set and that is trusted since is right: a light sleep  *)
(* gives back all it takes, and a refused time takes the trust with it.     *)
TimeInv ==
    /\ off \in Time!Offsets /\ before \in Time!Offsets \cup {Time!None}
    /\ trust \in [ntp : BOOLEAN, srv : Nat] /\ sntp \in BOOLEAN
    /\ trust.ntp /\ sntp => off = 0

LEMMA ClipFacts ==
    ASSUME NEW n \in Int
    PROVE  /\ Time!Clip(n) \in Time!Offsets
           /\ n \in Time!Offsets => Time!Clip(n) = n
<1>1. Far \in Nat
  BY ClockAssumption
<1> QED BY <1>1 DEF Time!Clip, Time!Offsets

LEMMA TimeInit == Time!Init => TimeInv
<1> SUFFICES ASSUME Time!Init PROVE TimeInv
  OBVIOUS
<1>1. trust = [ntp |-> FALSE, srv |-> 0] /\ off \in Time!Offsets /\ before = Time!None /\ sntp = FALSE
  BY DEF Time!Init
<1> QED BY <1>1 DEF TimeInv

LEMMA TimeStep ==
    ASSUME TimeInv, [Time!Next]_timeVars
    PROVE  TimeInv'
<1>1. /\ off \in Time!Offsets /\ before \in Time!Offsets \cup {Time!None}
      /\ trust \in [ntp : BOOLEAN, srv : Nat] /\ sntp \in BOOLEAN
      /\ trust.ntp /\ sntp => off = 0
  BY DEF TimeInv
<1>2. /\ Far \in Nat /\ Time!Offsets \subseteq Int /\ 0 \in Time!Offsets /\ Time!None \in Int
      /\ off \in Int /\ before \in Int
  BY <1>1, ClockAssumption DEF Time!Offsets, Time!None
<1>3. ASSUME NEW done \in BOOLEAN, Time!Accept(done), before' = Time!None,
             off' = 0 \/ (~done /\ off' = off)
      PROVE  TimeInv'
  <2>1. trust' = [trust EXCEPT !.ntp = TRUE] /\ sntp' = done
    BY <1>3 DEF Time!Accept
  <2>2. trust' \in [ntp : BOOLEAN, srv : Nat]
    BY <1>1, <2>1
  <2> QED BY <1>1, <1>2, <1>3, <2>1, <2>2 DEF TimeInv, Time!Offsets, Time!None
<1>4. ASSUME Time!Reject, before' = Time!None
      PROVE  TimeInv'
  <2>1. /\ off' = Time!Clip(before - Time!Wait) /\ trust' = [trust EXCEPT !.ntp = FALSE]
        /\ sntp' = sntp
    BY <1>4 DEF Time!Reject, Time!Restored
  <2>2. off' \in Time!Offsets
    BY <1>2, <2>1, ClipFacts DEF Time!Wait
  <2>3. trust' \in [ntp : BOOLEAN, srv : Nat] /\ trust'.ntp = FALSE
    BY <1>1, <2>1
  <2> QED BY <1>1, <1>4, <2>1, <2>2, <2>3 DEF TimeInv, Time!Offsets, Time!None
<1>5. CASE Time!Completed
  <2>1. before' = Time!None /\ ((off' = 0 /\ Time!Accept(TRUE)) \/ Time!Reject)
    BY <1>5 DEF Time!Completed
  <2> QED BY <1>3, <1>4, <2>1
<1>6. CASE Time!TimedOut
  <2>1. before' = Time!None /\ ((off' = off /\ Time!Accept(FALSE)) \/ Time!Reject)
    BY <1>6 DEF Time!TimedOut
  <2> QED BY <1>3, <1>4, <2>1
<1>7. CASE Time!ServerTime
  <2>1. /\ ~trust.ntp /\ off' \in {0, off} /\ trust' = [trust EXCEPT !.srv = 1]
        /\ before' = before /\ sntp' = sntp
    BY <1>7 DEF Time!ServerTime, Time!Trusted
  <2>2. trust' \in [ntp : BOOLEAN, srv : Nat] /\ ~trust'.ntp
    BY <1>1, <2>1
  <2> QED BY <1>1, <1>2, <2>1, <2>2 DEF TimeInv, Time!Offsets, Time!None
<1>8. CASE Time!Age
  <2>1. off' = off /\ before' = before /\ sntp' = sntp
    BY <1>8 DEF Time!Age
  <2>2. trust' \in [ntp : BOOLEAN, srv : Nat] /\ trust'.ntp = trust.ntp
    <3>1. CASE trust' = trust
      BY <1>1, <3>1
    <3>2. CASE trust' = [trust EXCEPT !.srv = IF @ > TrustAge THEN 0 ELSE @ + 1]
      <4>1. (IF trust.srv > TrustAge THEN 0 ELSE trust.srv + 1) \in Nat
        BY <1>1
      <4> QED BY <1>1, <3>2, <4>1
    <3> QED BY <1>8, <3>1, <3>2 DEF Time!Age
  <2> QED BY <1>1, <2>1, <2>2 DEF TimeInv, Time!Offsets, Time!None
<1>9. CASE Time!Sleep
  <2>1. PICK slept \in 1 .. 2 : \E advanced \in {0, slept} :
           /\ off' = Time!Clip(off - slept + advanced + Time!Correction(slept, advanced))
           /\ before' = IF before = Time!None THEN Time!None ELSE Time!Clip(before - slept)
    BY <1>9 DEF Time!Sleep
  <2>2. PICK advanced \in {0, slept} :
           /\ off' = Time!Clip(off - slept + advanced + Time!Correction(slept, advanced))
           /\ before' = IF before = Time!None THEN Time!None ELSE Time!Clip(before - slept)
    BY <2>1
  <2>3. off - slept + advanced + Time!Correction(slept, advanced) = off
    BY <1>2 DEF Time!Correction
  <2>4. off' = off
    BY <1>1, <1>2, <2>2, <2>3, ClipFacts
  <2>5. before' \in Time!Offsets \cup {Time!None}
    <3>1. Time!Clip(before - slept) \in Time!Offsets
      BY <1>2, ClipFacts
    <3> QED BY <2>2, <3>1
  <2>6. trust' = trust /\ sntp' = sntp
    BY <1>9 DEF Time!Sleep
  <2> QED BY <1>1, <2>4, <2>5, <2>6 DEF TimeInv, Time!Offsets, Time!None
<1>10. CASE Time!Reset
  <2>1. /\ off' \in Time!Offsets /\ before' = Time!None /\ sntp' = FALSE
        /\ trust' = [ntp |-> FALSE, srv |-> 0]
    BY <1>10 DEF Time!Reset
  <2> QED BY <2>1 DEF TimeInv, Time!Offsets, Time!None
<1>11. CASE Time!Start \/ Time!Background
  <2>1. /\ off' \in {0, off} /\ before' \in {before, off} /\ trust' = trust /\ sntp' = sntp
    BY <1>11 DEF Time!Start, Time!Background
  <2> QED BY <1>1, <1>2, <2>1 DEF TimeInv, Time!Offsets, Time!None
<1>12. CASE Time!Network \/ UNCHANGED timeVars
  <2>1. off' = off /\ before' = before /\ trust' = trust /\ sntp' = sntp
    BY <1>12 DEF Time!Network, timeVars
  <2> QED BY <1>1, <2>1 DEF TimeInv, Time!Offsets, Time!None
<1> QED BY <1>5, <1>6, <1>7, <1>8, <1>9, <1>10, <1>11, <1>12 DEF Time!Next, Time!Step

-----------------------------------------------------------------------------
(* The alerts (Alerts).                                                     *)

Mails == [of : Alert!Kinds, fail : BOOLEAN, tries : Nat]
Latches == [Alert!Kinds -> BOOLEAN]
Mailers == [queue : Seq(Mails), wait : BOOLEAN, failover : BOOLEAN, sent : Nat]
FloodAges == [enter : Nat \cup {Alert!None}, above : Nat \cup {Alert!None},
              last : Nat \cup {Alert!None}]
Cycles == [queue : Seq(Mails), sent : Nat, latch : Latches, flood : FloodAges, told : Latches]

(* Only a mail about the tank puts a latch up again when it is given up.    *)
TakesDown(queue) == \A i \in 1 .. Len(queue) : queue[i].fail => queue[i].of = "tank"

Carried(queue, k) == \E i \in 1 .. Len(queue) : queue[i].of = k /\ ~queue[i].fail

Told(queue, up, said) == \A k \in {"aqua", "flood"} : up[k] => said[k] \/ Carried(queue, k)

AlertInv ==
    /\ mailer \in Mailers /\ latch \in Latches /\ told \in Latches
    /\ flood \in FloodAges
    /\ TakesDown(mailer.queue)
    /\ Told(mailer.queue, latch, told)

(* The same of a cycle of handleAlerts under way.                           *)
CycleOK(c) == c \in Cycles /\ TakesDown(c.queue) /\ Told(c.queue, c.latch, c.told)

LEMMA AppendFacts ==
    ASSUME NEW q \in Seq(Mails), NEW m \in Mails
    PROVE  /\ Append(q, m) \in Seq(Mails) /\ Len(Append(q, m)) = Len(q) + 1
           /\ Append(q, m)[Len(q) + 1] = m
           /\ \A i \in 1 .. Len(q) : Append(q, m)[i] = q[i]
           /\ Len(q) \in Nat
OBVIOUS

LEMMA CycleOf ==
    ASSUME NEW q \in Seq(Mails), NEW n \in Nat, NEW l \in Latches, NEW f \in FloodAges,
           NEW t \in Latches
    PROVE  [queue |-> q, sent |-> n, latch |-> l, flood |-> f, told |-> t] \in Cycles
BY DEF Cycles

(* A request puts its mail in the queue with the latch, or does nothing.    *)
LEMMA AskedKeeps ==
    ASSUME NEW c, CycleOK(c), NEW k \in Alert!Kinds, NEW value \in BOOLEAN,
           NEW back \in BOOLEAN, back => k = "tank", back \/ value
    PROVE  /\ CycleOK(Alert!Asked(c, k, value, back))
           /\ Alert!Asked(c, k, value, back).flood = c.flood
<1> DEFINE r == Alert!Asked(c, k, value, back)
           m == [of |-> k, fail |-> back, tries |-> 0]
<1>1. c \in Cycles /\ TakesDown(c.queue) /\ Told(c.queue, c.latch, c.told)
  BY DEF CycleOK
<1>2. CASE r = c
  BY <1>2
<1>3. CASE r # c
  <2>1. r = [c EXCEPT !.queue = Append(@, m), !.sent = @ + 1,
                      !.latch[k] = value, !.told[k] = @ /\ ~value]
    BY <1>3 DEF Alert!Asked
  <2> HIDE DEF r
  <2>2. /\ c.queue \in Seq(Mails) /\ c.sent \in Nat /\ c.latch \in Latches
        /\ c.flood \in FloodAges /\ c.told \in Latches
    BY <1>1 DEF Cycles
  <2>3. /\ r.queue = Append(c.queue, m) /\ r.sent = c.sent + 1
        /\ r.latch = [c.latch EXCEPT ![k] = value]
        /\ r.told = [c.told EXCEPT ![k] = c.told[k] /\ ~value]
        /\ r.flood = c.flood
        /\ r = [queue |-> r.queue, sent |-> r.sent, latch |-> r.latch, flood |-> r.flood,
                told |-> r.told]
    BY <1>1, <2>1 DEF Cycles
  <2>4. m \in Mails
    BY DEF Mails
  <2>5. /\ r.queue \in Seq(Mails) /\ Len(r.queue) = Len(c.queue) + 1
        /\ r.queue[Len(c.queue) + 1] = m
        /\ \A i \in 1 .. Len(c.queue) : r.queue[i] = c.queue[i]
        /\ Len(c.queue) \in Nat
    BY <2>2, <2>3, <2>4, AppendFacts
  <2>6. (c.told[k] /\ ~value) \in BOOLEAN
    OBVIOUS
  <2>7. r.latch \in Latches /\ r.told \in Latches
    BY <2>2, <2>3, <2>6 DEF Latches
  <2>8. r \in Cycles
    <3>1. r.sent \in Nat
      BY <2>2, <2>3
    <3>2. [queue |-> r.queue, sent |-> r.sent, latch |-> r.latch, flood |-> r.flood,
           told |-> r.told] \in Cycles
      BY <2>2, <2>3, <2>5, <2>7, <3>1, CycleOf
    <3> QED BY <2>3, <3>2
  <2>9. TakesDown(r.queue)
    <3> SUFFICES ASSUME NEW i \in 1 .. Len(r.queue), r.queue[i].fail
                 PROVE  r.queue[i].of = "tank"
      BY DEF TakesDown
    <3>1. CASE i = Len(c.queue) + 1
      BY <2>5, <3>1
    <3>2. CASE i # Len(c.queue) + 1
      <4>1. i \in 1 .. Len(c.queue)
        BY <2>5, <3>2
      <4> QED BY <1>1, <2>5, <4>1 DEF TakesDown
    <3> QED BY <3>1, <3>2
  <2>10. Told(r.queue, r.latch, r.told)
    <3> SUFFICES ASSUME NEW j \in {"aqua", "flood"}, r.latch[j]
                 PROVE  r.told[j] \/ Carried(r.queue, j)
      BY DEF Told
    <3>0. j \in Alert!Kinds
      BY DEF Alert!Kinds
    <3>1. CASE j = k
      <4>1. value /\ ~back
        BY <2>2, <2>3, <3>1
      <4>2. m.of = j /\ ~m.fail
        BY <3>1, <4>1
      <4>3. Len(c.queue) + 1 \in 1 .. Len(r.queue)
        BY <2>5
      <4> QED BY <2>5, <4>2, <4>3 DEF Carried
    <3>2. CASE j # k
      <4>1. r.latch[j] = c.latch[j] /\ r.told[j] = c.told[j]
        BY <2>2, <2>3, <3>0, <3>2 DEF Latches
      <4>2. Carried(c.queue, j) => Carried(r.queue, j)
        BY <2>5 DEF Carried
      <4> QED BY <1>1, <4>1, <4>2 DEF Told
    <3> QED BY <3>1, <3>2
  <2> QED BY <2>3, <2>8, <2>9, <2>10 DEF CycleOK, r
<1> QED BY <1>2, <1>3

LEMMA FallKeeps ==
    ASSUME NEW c, CycleOK(c), NEW k \in Alert!Kinds
    PROVE  /\ CycleOK([c EXCEPT !.latch[k] = FALSE])
           /\ [c EXCEPT !.latch[k] = FALSE].flood = c.flood
<1> DEFINE r == [c EXCEPT !.latch[k] = FALSE]
<1>1. c \in Cycles /\ TakesDown(c.queue) /\ Told(c.queue, c.latch, c.told)
  BY DEF CycleOK
<1>2. r \in Cycles
  BY <1>1 DEF Cycles, Latches
<1>3. r.queue = c.queue /\ r.told = c.told /\ r.flood = c.flood
  BY <1>1 DEF Cycles
<1>4. \A j \in Alert!Kinds : r.latch[j] => c.latch[j]
  <2>1. c.latch \in Latches /\ r.latch = [c.latch EXCEPT ![k] = FALSE]
    BY <1>1 DEF Cycles
  <2> HIDE DEF r
  <2> QED BY <2>1 DEF Latches
<1> HIDE DEF r
<1>5. Told(r.queue, r.latch, r.told)
  BY <1>1, <1>3, <1>4 DEF Told, Alert!Kinds
<1>6. CycleOK(r) /\ r.flood = c.flood
  BY <1>1, <1>2, <1>3, <1>5 DEF CycleOK
<1> QED BY <1>6 DEF r

LEMMA AquaLowKeeps ==
    ASSUME NEW c, CycleOK(c)
    PROVE  CycleOK(Alert!AquaLow(c)) /\ Alert!AquaLow(c).flood = c.flood
<1> DEFINE r == IF level.aqua = "low" /\ ~c.latch.aqua
                THEN Alert!Asked(c, "aqua", TRUE, FALSE) ELSE c
<1>1. CycleOK(r) /\ r.flood = c.flood
  <2>1. CASE level.aqua = "low" /\ ~c.latch.aqua
    <3>1. /\ CycleOK(Alert!Asked(c, "aqua", TRUE, FALSE))
          /\ Alert!Asked(c, "aqua", TRUE, FALSE).flood = c.flood
      BY AskedKeeps DEF Alert!Kinds
    <3> QED BY <2>1, <3>1
  <2>2. CASE ~(level.aqua = "low" /\ ~c.latch.aqua)
    BY <2>2
  <2> QED BY <2>1, <2>2
<1>2. Alert!AquaLow(c) = IF level.aqua # "low" THEN [r EXCEPT !.latch.aqua = FALSE] ELSE r
  BY DEF Alert!AquaLow
<1> HIDE DEF r
<1>3. CASE level.aqua = "low"
  BY <1>1, <1>2, <1>3
<1>4. CASE level.aqua # "low"
  <2>1. Alert!AquaLow(c) = [r EXCEPT !.latch["aqua"] = FALSE]
    BY <1>2, <1>4
  <2>2. /\ CycleOK([r EXCEPT !.latch["aqua"] = FALSE])
        /\ [r EXCEPT !.latch["aqua"] = FALSE].flood = r.flood
    BY <1>1, FallKeeps DEF Alert!Kinds
  <2> QED BY <1>1, <2>1, <2>2
<1> QED BY <1>3, <1>4

LEMMA TankLowKeeps ==
    ASSUME NEW c, CycleOK(c)
    PROVE  CycleOK(Alert!TankLow(c)) /\ Alert!TankLow(c).flood = c.flood
<1>1. /\ CycleOK(Alert!Asked(c, "tank", TRUE, FALSE))
      /\ Alert!Asked(c, "tank", TRUE, FALSE).flood = c.flood
  BY AskedKeeps DEF Alert!Kinds
<1>2. /\ CycleOK(Alert!Asked(c, "tank", FALSE, TRUE))
      /\ Alert!Asked(c, "tank", FALSE, TRUE).flood = c.flood
  BY AskedKeeps DEF Alert!Kinds
<1>3. Alert!TankLow(c) \in {Alert!Asked(c, "tank", TRUE, FALSE),
                            Alert!Asked(c, "tank", FALSE, TRUE), c}
  BY DEF Alert!TankLow
<1> QED BY <1>1, <1>2, <1>3

(* Other ages of the overfull alert leave the rest of a cycle as it is.     *)
LEMMA AgedKeeps ==
    ASSUME NEW c, CycleOK(c), NEW e \in Cycles,
           e.queue = c.queue, e.latch = c.latch, e.told = c.told
    PROVE  CycleOK(e)
BY DEF CycleOK

LEMMA SinceFacts ==
    ASSUME NEW c \in Cycles
    PROVE  /\ Alert!None \in Nat \cup {Alert!None}
           /\ Alert!Since(c.flood.enter) \in Nat \cup {Alert!None}
           /\ Alert!Since(c.flood.above) \in Nat \cup {Alert!None}
<1>1. c.flood.enter \in Nat \cup {Alert!None} /\ c.flood.above \in Nat \cup {Alert!None}
  BY DEF Cycles, FloodAges
<1> QED BY <1>1 DEF Alert!Since, Alert!None

(* Whatever the aquarium does, the last mail is the same, or it is of now   *)
(* and the one before had cooled down.                                      *)
LEMMA OverfullKeeps ==
    ASSUME NEW c, CycleOK(c)
    PROVE  /\ CycleOK(Alert!Overfull(c))
           /\ \/ Alert!Overfull(c).flood.last = c.flood.last
              \/ Alert!Overfull(c).flood.last = 0 /\ Alert!Cooled(c.flood.last)
<1> DEFINE R == Alert!Overfull(c)
<1>1. c \in Cycles
  BY DEF CycleOK
<1>2. /\ Alert!None \in Nat \cup {Alert!None}
      /\ Alert!Since(c.flood.enter) \in Nat \cup {Alert!None}
      /\ Alert!Since(c.flood.above) \in Nat \cup {Alert!None}
  BY <1>1, SinceFacts
<1>3. CASE level.aqua = "over"
  <2> DEFINE e == [c EXCEPT !.flood.enter = Alert!Since(@), !.flood.above = Alert!None]
             r == Alert!Asked(e, "flood", TRUE, FALSE)
  <2>1. R \in {e, r} \/ (R = [r EXCEPT !.flood.last = 0] /\ Alert!Cooled(c.flood.last))
    BY <1>3 DEF Alert!Overfull
  <2>2. e = [c EXCEPT !.flood.enter = Alert!Since(c.flood.enter), !.flood.above = Alert!None]
    OBVIOUS
  <2> HIDE DEF e, R
  <2>3. /\ e \in Cycles /\ e.queue = c.queue /\ e.latch = c.latch /\ e.told = c.told
        /\ e.flood.last = c.flood.last
    <3>1. e \in Cycles
      BY <1>1, <1>2, <2>2 DEF Cycles, FloodAges
    <3>2. e.queue = c.queue /\ e.latch = c.latch /\ e.told = c.told
      BY <1>1, <2>2 DEF Cycles
    <3>3. e.flood.last = c.flood.last
      BY <1>1, <2>2 DEF Cycles, FloodAges
    <3> QED BY <3>1, <3>2, <3>3
  <2>4. CycleOK(e)
    BY <2>3, AgedKeeps
  <2>5. CycleOK(r) /\ r.flood = e.flood
    BY <2>4, AskedKeeps DEF Alert!Kinds
  <2> HIDE DEF r
  <2>6. CASE R \in {e, r}
    BY <2>3, <2>4, <2>5, <2>6 DEF R
  <2>7. CASE R = [r EXCEPT !.flood.last = 0] /\ Alert!Cooled(c.flood.last)
    <3>1. r \in Cycles
      BY <2>5 DEF CycleOK
    <3>2. R \in Cycles /\ R.queue = r.queue /\ R.latch = r.latch /\ R.told = r.told
      BY <2>7, <3>1 DEF Cycles, FloodAges
    <3>3. R.flood.last = 0
      BY <2>7, <3>1 DEF Cycles, FloodAges
    <3>4. CycleOK(R)
      BY <2>5, <3>2, AgedKeeps
    <3> QED BY <2>7, <3>3, <3>4 DEF R
  <2> QED BY <2>1, <2>6, <2>7
<1>4. CASE level.aqua # "over"
  <2> DEFINE e == [c EXCEPT !.flood.enter = Alert!None]
             d == [e EXCEPT !.flood.above = Alert!None]
  <2>1. /\ e \in Cycles /\ e.queue = c.queue /\ e.latch = c.latch /\ e.told = c.told
        /\ e.flood.last = c.flood.last /\ e.flood.above = c.flood.above
    <3>1. e \in Cycles
      BY <1>1, <1>2 DEF Cycles, FloodAges
    <3>2. e.queue = c.queue /\ e.latch = c.latch /\ e.told = c.told
      BY <1>1 DEF Cycles
    <3>3. e.flood.last = c.flood.last /\ e.flood.above = c.flood.above
      BY <1>1 DEF Cycles, FloodAges
    <3> QED BY <3>1, <3>2, <3>3
  <2>2. \/ R = d \/ R = [d EXCEPT !.latch["flood"] = FALSE]
        \/ R = [e EXCEPT !.flood.above = Alert!Since(c.flood.above)]
    <3>1. CASE level.aqua = "high"
      BY <1>4, <3>1 DEF Alert!Overfull
    <3>2. CASE level.aqua # "high" /\ Alert!Since(c.flood.above) >= Stable
      <4>1. R = [e EXCEPT !.flood.above = Alert!None, !.latch.flood = FALSE]
        BY <1>4, <3>2 DEF Alert!Overfull
      <4>2. [e EXCEPT !.flood.above = Alert!None, !.latch.flood = FALSE]
              = [d EXCEPT !.latch["flood"] = FALSE]
        BY <2>1 DEF Cycles, FloodAges
      <4> QED BY <4>1, <4>2
    <3>3. CASE level.aqua # "high" /\ ~(Alert!Since(c.flood.above) >= Stable)
      <4>1. R = [e EXCEPT !.flood.above = Alert!Since(@)]
        BY <1>4, <3>3 DEF Alert!Overfull
      <4> HIDE DEF e, R
      <4> QED BY <2>1, <4>1
    <3> QED BY <3>1, <3>2, <3>3
  <2> HIDE DEF e, R
  <2>3. CycleOK(e)
    BY <2>1, AgedKeeps
  <2>4. CycleOK(d) /\ d.flood.last = c.flood.last
    <3>1. d \in Cycles
      BY <1>2, <2>1 DEF Cycles, FloodAges
    <3>2. d.queue = e.queue /\ d.latch = e.latch /\ d.told = e.told
      BY <2>1 DEF Cycles
    <3>3. d.flood.last = e.flood.last
      BY <2>1 DEF Cycles, FloodAges
    <3> HIDE DEF d
    <3> QED BY <2>1, <2>3, <3>1, <3>2, <3>3, AgedKeeps
  <2>5. CASE R = d
    BY <2>4, <2>5 DEF R
  <2>6. CASE R = [d EXCEPT !.latch["flood"] = FALSE]
    <3> HIDE DEF d
    <3>1. CycleOK(R) /\ R.flood = d.flood
      BY <2>4, <2>6, FallKeeps DEF Alert!Kinds
    <3> QED BY <2>4, <3>1 DEF R
  <2>7. CASE R = [e EXCEPT !.flood.above = Alert!Since(c.flood.above)]
    <3>1. R \in Cycles
      BY <1>2, <2>1, <2>7 DEF Cycles, FloodAges
    <3>2. R.queue = e.queue /\ R.latch = e.latch /\ R.told = e.told
      BY <2>1, <2>7 DEF Cycles
    <3>3. R.flood.last = e.flood.last
      BY <2>1, <2>7 DEF Cycles, FloodAges
    <3>4. CycleOK(R)
      BY <2>3, <3>1, <3>2, AgedKeeps
    <3> QED BY <2>1, <3>3, <3>4 DEF R
  <2> QED BY <2>2, <2>5, <2>6, <2>7
<1> QED BY <1>3, <1>4

(* A mail about an overfull aquarium follows the last one by a cooldown.    *)
Spaced == flood'.last = 0 /\ flood.last # 0 /\ flood.last # Alert!None
              => flood.last >= Cooldown

LEMMA AlertInit == Alert!Init => AlertInv
<1> SUFFICES ASSUME Alert!Init PROVE AlertInv
  OBVIOUS
<1>1. /\ mailer = [queue |-> <<>>, wait |-> FALSE, failover |-> FALSE, sent |-> 0]
      /\ latch = [k \in Alert!Kinds |-> FALSE] /\ told = [k \in Alert!Kinds |-> FALSE]
      /\ flood = [enter |-> Alert!None, above |-> Alert!None, last |-> Alert!None]
  BY DEF Alert!Init, Alert!Booted
<1>2. mailer \in Mailers /\ latch \in Latches /\ told \in Latches
  BY <1>1 DEF Mailers, Latches
<1>3. flood \in FloodAges
  BY <1>1 DEF FloodAges
<1>4. TakesDown(mailer.queue) /\ Told(mailer.queue, latch, told)
  BY <1>1 DEF TakesDown, Told, Alert!Kinds
<1> QED BY <1>2, <1>3, <1>4 DEF AlertInv

LEMMA UpdateKeeps ==
    ASSUME AlertInv, Alert!Update
    PROVE  AlertInv' /\ Spaced
<1>1. /\ mailer \in Mailers /\ latch \in Latches /\ told \in Latches /\ flood \in FloodAges
      /\ TakesDown(mailer.queue) /\ Told(mailer.queue, latch, told)
  BY DEF AlertInv
<1>2. mailer.queue \in Seq(Mails) /\ mailer.sent \in Nat
  BY <1>1 DEF Mailers
<1> DEFINE c == [queue |-> mailer.queue,
                 sent |-> IF mailer.failover /\ ~(~net.covers) THEN 0 ELSE mailer.sent,
                 latch |-> latch, flood |-> flood, told |-> told]
           r == IF ~net.covers /\ ~grace
                THEN Alert!TankLow(Alert!Overfull(Alert!AquaLow(c))) ELSE c
<1>3. /\ mailer' = [mailer EXCEPT !.queue = r.queue, !.sent = r.sent,
                                  !.failover = ~net.covers]
      /\ latch' = r.latch /\ flood' = r.flood /\ told' = r.told
  BY DEF Alert!Update
<1>4. CycleOK(c) /\ c.flood = flood
  <2>1. (IF mailer.failover /\ ~(~net.covers) THEN 0 ELSE mailer.sent) \in Nat
    BY <1>2
  <2>2. c \in Cycles
    BY <1>1, <1>2, <2>1, CycleOf
  <2>3. c.queue = mailer.queue /\ c.latch = latch /\ c.told = told
    OBVIOUS
  <2> HIDE DEF c
  <2>4. CycleOK(c)
    BY <1>1, <2>2, <2>3 DEF CycleOK
  <2> QED BY <2>4 DEF c
<1> HIDE DEF c
<1>5. CycleOK(r) /\ (r.flood.last = flood.last
                       \/ (r.flood.last = 0 /\ Alert!Cooled(flood.last)))
  <2>1. CASE ~net.covers /\ ~grace
    <3>1. CycleOK(Alert!AquaLow(c)) /\ Alert!AquaLow(c).flood = flood
      BY <1>4, AquaLowKeeps
    <3> DEFINE o == Alert!Overfull(Alert!AquaLow(c))
    <3>2. CycleOK(o) /\ (o.flood.last = flood.last
                           \/ (o.flood.last = 0 /\ Alert!Cooled(flood.last)))
      BY <3>1, OverfullKeeps
    <3> HIDE DEF o
    <3>3. CycleOK(Alert!TankLow(o)) /\ Alert!TankLow(o).flood = o.flood
      BY <3>2, TankLowKeeps
    <3> QED BY <2>1, <3>2, <3>3 DEF o
  <2>2. CASE ~(~net.covers /\ ~grace)
    BY <1>4, <2>2
  <2> QED BY <2>1, <2>2
<1> HIDE DEF r
<1>6. r \in Cycles /\ TakesDown(r.queue) /\ Told(r.queue, r.latch, r.told)
  BY <1>5 DEF CycleOK
<1>7. /\ r.queue \in Seq(Mails) /\ r.sent \in Nat /\ r.latch \in Latches
      /\ r.flood \in FloodAges /\ r.told \in Latches
  BY <1>6 DEF Cycles
<1>8. mailer' \in Mailers /\ mailer'.queue = r.queue
  <2>1. (~net.covers) \in BOOLEAN
    OBVIOUS
  <2> QED BY <1>1, <1>3, <1>7, <2>1 DEF Mailers
<1>9. AlertInv'
  BY <1>3, <1>6, <1>7, <1>8 DEF AlertInv
<1>10. Spaced
  BY <1>3, <1>5 DEF Spaced, Alert!Cooled
<1> QED BY <1>9, <1>10

LEMMA TailFacts ==
    ASSUME NEW q \in Seq(Mails), q # <<>>, TakesDown(q)
    PROVE  /\ q[1] \in Mails /\ (q[1].fail => q[1].of = "tank")
           /\ Tail(q) \in Seq(Mails) /\ TakesDown(Tail(q))
           /\ \A k : Carried(q, k) => Carried(Tail(q), k) \/ (q[1].of = k /\ ~q[1].fail)
<1>1. /\ Len(q) \in Nat /\ Len(q) # 0 /\ q[1] \in Mails /\ 1 \in 1 .. Len(q)
      /\ Tail(q) \in Seq(Mails) /\ Len(Tail(q)) = Len(q) - 1
      /\ \A i \in 1 .. Len(q) - 1 : Tail(q)[i] = q[i + 1]
  OBVIOUS
<1>2. q[1].fail => q[1].of = "tank"
  BY <1>1 DEF TakesDown
<1>3. TakesDown(Tail(q))
  <2> SUFFICES ASSUME NEW i \in 1 .. Len(Tail(q)), Tail(q)[i].fail
               PROVE  Tail(q)[i].of = "tank"
    BY DEF TakesDown
  <2>1. i + 1 \in 1 .. Len(q) /\ Tail(q)[i] = q[i + 1]
    BY <1>1
  <2> QED BY <2>1 DEF TakesDown
<1>4. ASSUME NEW k, Carried(q, k), ~(q[1].of = k /\ ~q[1].fail)
      PROVE  Carried(Tail(q), k)
  <2>1. PICK i \in 1 .. Len(q) : q[i].of = k /\ ~q[i].fail
    BY <1>4 DEF Carried
  <2>2. PICK j \in Int : j = i - 1
    OBVIOUS
  <2>3. i # 1
    BY <1>4, <2>1
  <2>4. j \in 1 .. Len(Tail(q)) /\ j \in 1 .. Len(q) - 1 /\ j + 1 = i
    BY <1>1, <2>2, <2>3
  <2>5. Tail(q)[j] = q[i]
    BY <1>1, <2>4
  <2> QED BY <2>1, <2>4, <2>5 DEF Carried
<1> QED BY <1>1, <1>2, <1>3, <1>4

(* What a failed attempt changes of the first mail is its count.            *)
LEMMA RetryFacts ==
    ASSUME NEW q \in Seq(Mails), q # <<>>, NEW m,
           m = [q[1] EXCEPT !.tries = q[1].tries + 1], NEW r, r = [q EXCEPT ![1] = m]
    PROVE  /\ r \in Seq(Mails) /\ Len(r) = Len(q)
           /\ \A i \in 1 .. Len(q) : r[i].of = q[i].of /\ r[i].fail = q[i].fail
<1>1. Len(q) \in Nat /\ Len(q) # 0 /\ q[1] \in Mails
  OBVIOUS
<1>2. m \in Mails /\ m.of = q[1].of /\ m.fail = q[1].fail
  BY <1>1 DEF Mails
<1> HIDE DEF Mails
<1>3. r \in Seq(Mails) /\ Len(r) = Len(q)
  BY <1>1, <1>2
<1>4. \A i \in 1 .. Len(q) : r[i] = IF i = 1 THEN m ELSE q[i]
  BY <1>1
<1> QED BY <1>2, <1>3, <1>4

LEMMA MailKeeps ==
    ASSUME AlertInv, Alert!Mail
    PROVE  AlertInv' /\ flood' = flood
<1> DEFINE q == mailer.queue
<1>1. /\ mailer \in Mailers /\ latch \in Latches /\ told \in Latches /\ flood \in FloodAges
      /\ TakesDown(q) /\ Told(q, latch, told) /\ q \in Seq(Mails)
  BY DEF AlertInv, Mailers
<1>2. CASE Alert!NoMail
  BY <1>1, <1>2 DEF Alert!NoMail, AlertInv
<1>3. CASE Alert!Delivered
  <2>1. /\ q # <<>> /\ mailer' = [mailer EXCEPT !.queue = Tail(q)]
        /\ told' = [told EXCEPT ![q[1].of] = told[q[1].of] \/ ~q[1].fail]
        /\ latch' = latch /\ flood' = flood
    BY <1>3 DEF Alert!Delivered, Alert!Attempt, Alert!First
  <2>2. /\ q[1] \in Mails /\ Tail(q) \in Seq(Mails) /\ TakesDown(Tail(q))
        /\ \A k : Carried(q, k) => Carried(Tail(q), k) \/ (q[1].of = k /\ ~q[1].fail)
    BY <1>1, <2>1, TailFacts
  <2>3. mailer' \in Mailers /\ mailer'.queue = Tail(q)
    BY <1>1, <2>1, <2>2 DEF Mailers
  <2>4. q[1].of \in Alert!Kinds /\ (told[q[1].of] \/ ~q[1].fail) \in BOOLEAN
    BY <2>2 DEF Mails
  <2>5. told' \in Latches
    BY <1>1, <2>1, <2>4 DEF Latches
  <2>6. Told(Tail(q), latch, told')
    <3> SUFFICES ASSUME NEW k \in {"aqua", "flood"}, latch[k]
                 PROVE  told'[k] \/ Carried(Tail(q), k)
      BY DEF Told
    <3>1. k \in Alert!Kinds /\ (told[k] \/ Carried(q, k))
      BY <1>1 DEF Told, Alert!Kinds
    <3>2. told'[k] = IF k = q[1].of THEN told[k] \/ ~q[1].fail ELSE told[k]
      BY <1>1, <2>1, <2>4, <3>1 DEF Latches
    <3> QED BY <2>2, <3>1, <3>2
  <2> QED BY <1>1, <2>1, <2>2, <2>3, <2>5, <2>6 DEF AlertInv
<1>4. CASE Alert!Failed /\ mailer.queue[1].tries < 2
  <2>1. /\ q # <<>> /\ latch' = latch /\ flood' = flood /\ told' = told
        /\ mailer' = [mailer EXCEPT !.queue[1].tries = @ + 1, !.wait = TRUE]
    BY <1>4 DEF Alert!Failed, Alert!Attempt, Alert!First
  <2> DEFINE m == [q[1] EXCEPT !.tries = q[1].tries + 1]
             r == [q EXCEPT ![1] = m]
  <2>2. /\ mailer'.queue = r /\ m = [q[1] EXCEPT !.tries = q[1].tries + 1]
        /\ r = [q EXCEPT ![1] = m]
    BY <1>1, <2>1 DEF Mailers
  <2> HIDE DEF r, m
  <2>3. /\ r \in Seq(Mails) /\ Len(r) = Len(q) /\ Len(q) \in Nat
        /\ \A i \in 1 .. Len(q) : r[i].of = q[i].of /\ r[i].fail = q[i].fail
    BY <1>1, <2>1, <2>2, RetryFacts
  <2> HIDE DEF q
  <2>4. mailer' = [mailer EXCEPT !.queue = r, !.wait = TRUE]
    BY <2>1 DEF q, r, m
  <2>5. mailer' \in Mailers
    BY <1>1, <2>3, <2>4 DEF Mailers
  <2>6. TakesDown(r) /\ \A k : Carried(q, k) => Carried(r, k)
    BY <1>1, <2>3 DEF TakesDown, Carried
  <2>7. Told(r, latch, told)
    BY <1>1, <2>6 DEF Told
  <2> QED BY <1>1, <2>1, <2>2, <2>5, <2>6, <2>7 DEF AlertInv, q
<1>5. CASE Alert!Failed /\ ~(mailer.queue[1].tries < 2)
  <2>1. /\ q # <<>> /\ flood' = flood /\ told' = told
        /\ mailer' = [mailer EXCEPT !.queue = Tail(q), !.wait = TRUE]
        /\ latch' = [latch EXCEPT ![q[1].of] = q[1].fail]
    BY <1>5 DEF Alert!Failed, Alert!Attempt, Alert!First, Alert!GivenUp
  <2>2. /\ q[1] \in Mails /\ Tail(q) \in Seq(Mails) /\ TakesDown(Tail(q))
        /\ (q[1].fail => q[1].of = "tank")
        /\ \A k : Carried(q, k) => Carried(Tail(q), k) \/ (q[1].of = k /\ ~q[1].fail)
    BY <1>1, <2>1, TailFacts
  <2>3. mailer' \in Mailers /\ mailer'.queue = Tail(q)
    BY <1>1, <2>1, <2>2 DEF Mailers
  <2>4. q[1].of \in Alert!Kinds /\ q[1].fail \in BOOLEAN
    BY <2>2 DEF Mails
  <2>5. latch' \in Latches
    BY <1>1, <2>1, <2>4 DEF Latches
  <2>6. Told(Tail(q), latch', told)
    <3> SUFFICES ASSUME NEW k \in {"aqua", "flood"}, latch'[k]
                 PROVE  told[k] \/ Carried(Tail(q), k)
      BY DEF Told
    <3>1. k \in Alert!Kinds /\ k # "tank"
      BY DEF Alert!Kinds
    <3>2. latch'[k] = IF k = q[1].of THEN q[1].fail ELSE latch[k]
      BY <1>1, <2>1, <2>4, <3>1 DEF Latches
    <3>3. k # q[1].of /\ latch[k]
      BY <2>2, <3>1, <3>2
    <3>4. told[k] \/ Carried(q, k)
      BY <1>1, <3>3 DEF Told
    <3> QED BY <2>2, <3>3, <3>4
  <2> QED BY <1>1, <2>1, <2>2, <2>3, <2>5, <2>6 DEF AlertInv
<1> QED BY <1>2, <1>3, <1>4, <1>5 DEF Alert!Mail, Alert!Failed

LEMMA OlderFacts ==
    ASSUME NEW age \in Nat \cup {Alert!None}
    PROVE  /\ Alert!Older(age) \in Nat \cup {Alert!None}
           /\ Alert!Older(age) = 0 => age = 0
<1>1. Alert!Old \in Nat
  BY AlertAssumption DEF Alert!Old
<1> QED BY <1>1 DEF Alert!Older, Alert!None

LEMMA AlertStep ==
    ASSUME AlertInv, [Alert!Next]_alertVars
    PROVE  AlertInv' /\ Spaced
<1>1. /\ mailer \in Mailers /\ latch \in Latches /\ told \in Latches /\ flood \in FloodAges
      /\ TakesDown(mailer.queue) /\ Told(mailer.queue, latch, told)
  BY DEF AlertInv
<1>2. CASE Alert!Update
  BY <1>2, UpdateKeeps
<1>3. CASE Alert!Mail
  BY <1>3, MailKeeps DEF Spaced
<1>4. CASE Alert!Tick
  <2>1. /\ flood' = [f \in DOMAIN flood |-> Alert!Older(flood[f])]
        /\ mailer' = [mailer EXCEPT !.wait = FALSE] /\ latch' = latch /\ told' = told
    BY <1>4 DEF Alert!Tick
  <2>2. mailer' \in Mailers /\ mailer'.queue = mailer.queue
    BY <1>1, <2>1 DEF Mailers
  <2>3. /\ DOMAIN flood = {"enter", "above", "last"}
        /\ flood.enter \in Nat \cup {Alert!None} /\ flood.above \in Nat \cup {Alert!None}
        /\ flood.last \in Nat \cup {Alert!None}
    BY <1>1 DEF FloodAges
  <2>4. /\ flood'.enter = Alert!Older(flood.enter) /\ flood'.above = Alert!Older(flood.above)
        /\ flood'.last = Alert!Older(flood.last)
        /\ flood' = [enter |-> Alert!Older(flood.enter), above |-> Alert!Older(flood.above),
                     last |-> Alert!Older(flood.last)]
    BY <2>1, <2>3
  <2>5. flood' \in FloodAges
    BY <2>3, <2>4, OlderFacts DEF FloodAges
  <2>6. flood'.last = 0 => flood.last = 0
    BY <2>3, <2>4, OlderFacts
  <2> QED BY <1>1, <2>1, <2>2, <2>5, <2>6 DEF AlertInv, Spaced
<1>5. CASE Alert!Move \/ UNCHANGED alertVars
  <2>1. mailer' = mailer /\ latch' = latch /\ told' = told /\ flood' = flood
    BY <1>5 DEF Alert!Move, alertVars
  <2> QED BY <1>1, <2>1 DEF AlertInv, Spaced
<1>6. CASE Alert!Reset
  <2>1. /\ mailer' = [queue |-> <<>>, wait |-> FALSE, failover |-> FALSE, sent |-> 0]
        /\ latch' = [k \in Alert!Kinds |-> FALSE] /\ told' = [k \in Alert!Kinds |-> FALSE]
        /\ flood' = [flood EXCEPT !.enter = Alert!None, !.above = Alert!None]
    BY <1>6 DEF Alert!Reset
  <2>2. mailer' \in Mailers /\ latch' \in Latches /\ told' \in Latches
    BY <2>1 DEF Mailers, Latches
  <2>3. flood' \in FloodAges /\ flood'.last = flood.last
    BY <1>1, <2>1 DEF FloodAges
  <2>4. TakesDown(mailer'.queue) /\ Told(mailer'.queue, latch', told')
    BY <2>1 DEF TakesDown, Told, Alert!Kinds
  <2> QED BY <2>2, <2>3, <2>4 DEF AlertInv, Spaced
<1> QED BY <1>2, <1>3, <1>4, <1>5, <1>6 DEF Alert!Next

-----------------------------------------------------------------------------
(* In the runs of Aquarium and of AquaSleep.                                *)

AquariumInv == SInv /\ AlertInv

LEMMA AquariumStep ==
    ASSUME AquariumInv, [ANext]_avars
    PROVE  AquariumInv' /\ Spaced
<1>1. [Next]_svars /\ [Alert!Next]_alertVars
  BY DEF ANext, avars, svars, alertVars
<1>2. SInv'
  BY <1>1, NextInv DEF AquariumInv
<1>3. AlertInv' /\ Spaced
  BY <1>1, AlertStep DEF AquariumInv
<1> QED BY <1>2, <1>3 DEF AquariumInv

(* The settings and the alerts keep their invariants in the run.            *)
THEOREM AquariumInvariant == ASpec => []AquariumInv
<1>1. AInit => AquariumInv
  BY InitInv, AlertInit DEF AInit, AquariumInv
<1>2. AquariumInv /\ [ANext]_avars => AquariumInv'
  BY AquariumStep
<1> QED BY <1>1, <1>2, PTL DEF ASpec

(* A latch that is up stands for a mail that was delivered or is still in   *)
(* the queue, for any size of the queue, any budget and any sequence of     *)
(* levels, outages, failed sessions and resets (automatism_display.cpp,     *)
(* mailer_queue.cpp, level_alert_orchestrator.h).                           *)
THEOREM LatchesTold == ASpec => []Alert!LatchIsTold
<1>1. AquariumInv => Alert!LatchIsTold
  <2> SUFFICES ASSUME AquariumInv PROVE Alert!LatchIsTold
    OBVIOUS
  <2>1. mailer.queue \in Seq(Mails) /\ Told(mailer.queue, latch, told)
    BY DEF AquariumInv, AlertInv, Mailers
  <2>2. DOMAIN mailer.queue = 1 .. Len(mailer.queue)
    BY <2>1
  <2>3. \A k \in {"aqua", "flood"} : Carried(mailer.queue, k) => Alert!Queued(k)
    BY <2>2 DEF Carried, Alert!Queued
  <2> QED BY <2>1, <2>3 DEF Told, Alert!LatchIsTold
<1> QED BY <1>1, AquariumInvariant, PTL

(* Two mails about an overfull aquarium are a cooldown apart, across resets *)
(* too, for any debounce, stability and cooldown (flood_alert.h,            *)
(* flood_orchestrator.h).                                                   *)
THEOREM FloodMailsSpaced == ASpec => Alert!FloodSpaced
<1>1. AquariumInv /\ [ANext]_avars => [Spaced]_(Alert!lvars)
  BY AquariumStep
<1> QED BY <1>1, AquariumInvariant, PTL DEF ASpec, Alert!FloodSpaced, Spaced

SleepInv == RestInv /\ TimeInv

LEMMA SleepInvariant == DSpec => []SleepInv
<1>1. DInit => SleepInv
  BY RestInit, TimeInit DEF DInit, SleepInv
<1>2. SleepInv /\ [DNext]_dvars => SleepInv'
  <2> SUFFICES ASSUME SleepInv, [DNext]_dvars PROVE SleepInv'
    OBVIOUS
  <2>1. [Rest!Next]_restVars /\ [Time!Next]_timeVars
    BY DEF DNext, dvars, restVars, timeVars
  <2>2. RestInv'
    BY <2>1, RestStep DEF SleepInv
  <2>3. TimeInv'
    BY <2>1, TimeStep DEF SleepInv
  <2> QED BY <2>2, <2>3 DEF SleepInv
<1> QED BY <1>1, <1>2, PTL DEF DSpec

(* A wake leaves the actuators as the sleep found them, but for those       *)
(* commanded meanwhile, unless the flash refused the snapshot: for any set  *)
(* of actuators, any timeouts and any resets (automatism_sleep.cpp,         *)
(* automatism.cpp).                                                         *)
THEOREM WakeRestores == DSpec => []Rest!RestoredOwn
<1>1. SleepInv => Rest!RestoredOwn
  BY DEF SleepInv, RestInv
<1> QED BY <1>1, SleepInvariant, PTL

(* A clock SNTP has set and that NTP's trust covers stays in the window of  *)
(* the server, for any window, thresholds and sequence of sleeps and failed *)
(* synchronisations (power.cpp, n3_sleep_clock.h).                          *)
THEOREM TrustIsClose == DSpec => []Time!NtpTrustClose
<1>1. SleepInv => Time!NtpTrustClose
  BY ClockAssumption DEF SleepInv, TimeInv, Time!NtpTrustClose, Time!Abs
<1> QED BY <1>1, SleepInvariant, PTL
=============================================================================
