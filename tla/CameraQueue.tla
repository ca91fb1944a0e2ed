---------------------------- MODULE CameraQueue ----------------------------
(***************************************************************************)
(* The photos of the camera node: each wake takes one, queues it on the SD *)
(* card under the number after the counters in flash, or uploads it when   *)
(* there is no card, and drains the queue to the server.                   *)
(* (uploadphotosserver: main.cpp, camera_sync.cpp; n3_sf_seq.h,            *)
(* n3_store_forward.cpp, n3_upload.cpp)                                    *)
(***************************************************************************)
EXTENDS Naturals, FiniteSets

CONSTANTS MaxPhotos, MaxResets, MaxFaults,  \* bounds: photos, resets, failed scans
          PerWake,  \* SYNC_MAX_UPLOADS_PER_WAKE
          Rejects   \* SYNC_ITEM_MAX_REJECTS

VARIABLES pc,     \* where setup() is
          nvs,    \* pic_count and up_cursor
          card,   \* the files: number, photo (0: another card's), whole
          cur,    \* the photo in hand: a file
          todo,   \* files of the drain that are not yet handled, left: its plan
          rej,    \* s_headRejects, in RTC memory
          env,    \* net: the server answers; sd: the card mounts; cold: not
                  \* woken from a deep sleep; resets, faults
          seen    \* ghost: photos taken, sent, skipped; the card failed
cvars == <<pc, nvs, card, cur, todo, rej, env, seen>>

Photos == 1..MaxPhotos
Bigger(a, b) == IF a > b THEN a ELSE b
NoFile == [n |-> 0, id |-> 0, whole |-> TRUE]
Rej0 == [n |-> 0, count |-> 0]

(* n3SfSeqPending, n3SfSeqIsPending *)
Pending == IF nvs.count > nvs.cursor THEN nvs.count - nvs.cursor ELSE 0
InQueue(f) == f.n > nvs.cursor /\ f.n <= nvs.count

(* A new card or another node's, counters fresh or as an older version     *)
(* left them; the server refuses some photos for good.                     *)
Init == /\ pc = "off"
        /\ nvs \in {[count |-> 0, cursor |-> 0], [count |-> 0, cursor |-> 1]}
        /\ card \in {{}, {[n |-> 2, id |-> 0, whole |-> TRUE]}}
        /\ cur = NoFile /\ todo = [files |-> {}, left |-> 0] /\ rej = Rej0
        /\ env \in [net : BOOLEAN, sd : BOOLEAN, cold : {TRUE},
                    resets : {0}, faults : {0}, bad : {{}, {1}}]
        /\ seen = [taken |-> 0, sent |-> {}, skipped |-> {}, failed |-> FALSE]

CardFailed == seen' = [seen EXCEPT !.failed = TRUE]

-----------------------------------------------------------------------------
(* The card *)

MaxStored == IF card = {} THEN 0 ELSE CHOOSE n \in {f.n : f \in card} :
                                         \A f \in card : f.n <= n
Known == Bigger(nvs.count, nvs.cursor)

(* n3SfSeqReconcile: an orphan joins the queue, another card does not *)
Reconciled == [count |-> Bigger(MaxStored, Known),
               cursor |-> IF MaxStored > Known + 1 THEN MaxStored ELSE nvs.cursor]

(* initSdIfEnabled; cameraSyncReconcileWithSd writes the counter, then the *)
(* cursor                                                                  *)
Mount ==
    /\ pc = "off"
    /\ IF env.sd /\ env.cold
       THEN nvs' = [nvs EXCEPT !.count = Reconciled.count]
            /\ todo' = [todo EXCEPT !.left = Reconciled.cursor] /\ pc' = "reconcile"
       ELSE pc' = (IF env.sd THEN "card" ELSE "nocard") /\ UNCHANGED <<nvs, todo>>
    /\ IF env.sd THEN UNCHANGED seen ELSE CardFailed
    /\ UNCHANGED <<card, cur, rej, env>>

Reconcile ==
    /\ pc = "reconcile"
    /\ nvs' = [nvs EXCEPT !.cursor = todo.left]
    /\ todo' = [todo EXCEPT !.left = 0]
    /\ pc' = "card"
    /\ UNCHANGED <<card, cur, rej, env, seen>>

\* Mutant: the number after the counter, whatever the cursor.
NextOfCount == nvs.count + 1

(* cameraSyncPeekNextPictureNumber *)
NextNumber == Bigger(nvs.count, nvs.cursor) + 1

(* capturePhoto; the camera may fail, or it is night *)
Capture ==
    /\ pc \in {"card", "nocard"}
    /\ \/ /\ seen.taken < MaxPhotos
          /\ pc = "card" \/ env.net
          /\ seen' = [seen EXCEPT !.taken = @ + 1]
          /\ cur' = [n |-> NextNumber, id |-> seen'.taken, whole |-> TRUE]
          /\ pc' = IF pc = "card" THEN "write" ELSE "direct"
       \/ pc' = (IF pc = "card" THEN "drain" ELSE "done") /\ UNCHANGED <<cur, seen>>
    /\ UNCHANGED <<nvs, card, todo, rej, env>>

(* The file is written, in part or not at all: then the card is given up   *)
(* for this wake.                                                          *)
Write ==
    /\ pc = "write"
    /\ \/ card' = card \cup {cur} /\ pc' = "written" /\ UNCHANGED seen
       \/ /\ card' \in {card, card \cup {[cur EXCEPT !.whole = FALSE]}}
          /\ CardFailed /\ pc' = "direct"
    /\ UNCHANGED <<nvs, cur, todo, rej, env>>

(* cameraSyncCommitWrittenCount *)
Engage ==
    /\ pc = "written"
    /\ nvs' = [nvs EXCEPT !.count = Bigger(@, cur.n)]
    /\ pc' = "drain" /\ cur' = NoFile
    /\ UNCHANGED <<card, todo, rej, env, seen>>

-----------------------------------------------------------------------------
(* Without a card: cameraUploadJpegBuffer, then                            *)
(* cameraSyncMarkDirectUploadConfirmed: the counter, then the cursor       *)

Direct ==
    /\ pc = "direct"
    /\ IF env.net /\ cur.id \notin env.bad
       THEN /\ seen' = [seen EXCEPT !.sent = @ \cup {cur.id}]
            /\ nvs' = [nvs EXCEPT !.count = Bigger(@, cur.n)]
            /\ pc' = "confirm" /\ UNCHANGED cur
       ELSE pc' = "done" /\ cur' = NoFile /\ UNCHANGED <<nvs, seen>>
    /\ UNCHANGED <<card, todo, rej, env>>

Confirm ==
    /\ pc = "confirm"
    /\ nvs' = [nvs EXCEPT !.cursor = Bigger(@, cur.n)]
    /\ pc' = "done" /\ cur' = NoFile
    /\ UNCHANGED <<card, todo, rej, env, seen>>

-----------------------------------------------------------------------------
(* The drain *)

Queue == {f \in card : InQueue(f)}

(* cameraSyncDrain up to the session: a directory that is not read is as   *)
(* empty, and an empty queue moves the cursor to the counter               *)
Scan ==
    /\ pc = "drain"
    /\ IF ~env.net \/ Pending = 0
       THEN pc' = "done" /\ UNCHANGED <<nvs, todo, env, seen>>
       ELSE \/ /\ Queue # {}
               /\ todo' = [files |-> Queue, left |-> PerWake]
               /\ pc' = "send" /\ UNCHANGED <<nvs, env, seen>>
            \/ /\ Queue = {} \/ env.faults < MaxFaults
               /\ env' = IF Queue = {} THEN env ELSE [env EXCEPT !.faults = @ + 1]
               /\ IF Queue = {} THEN UNCHANGED seen ELSE CardFailed
               /\ nvs' = [nvs EXCEPT !.cursor = nvs.count]
               /\ pc' = "done" /\ UNCHANGED todo
    /\ UNCHANGED <<card, cur, rej>>

Heads == {f \in todo.files : \A g \in todo.files : f.n <= g.n}
Refused(f) == ~f.whole \/ f.id \in env.bad

(* n3SfRejectShouldSkip *)
Rejected(f) == [n |-> f.n, count |-> IF rej.n = f.n THEN rej.count + 1 ELSE 1]
Skip(f) == Refused(f) /\ Rejected(f).count >= Rejects

(* HardFail, or stop: the photo stays at the head for the next wake *)
GivesUp(f) == env.net /\ Skip(f)

(* n3SfDrain, drainSendOne: one photo *)
Send ==
    /\ pc = "send"
    /\ \E f \in Heads :
          /\ todo' = [files |-> todo.files \ {f}, left |-> todo.left - 1]
          /\ \/ /\ env.net /\ ~Refused(f)
                /\ seen' = [seen EXCEPT !.sent = @ \cup {f.id}]
                /\ rej' = Rej0 /\ cur' = f /\ pc' = "acked"
             \/ /\ GivesUp(f)
                /\ seen' = [seen EXCEPT !.skipped = @ \cup IF Refused(f) THEN {f.id} ELSE {}]
                /\ rej' = Rej0 /\ cur' = f /\ pc' = "acked"
             \/ /\ ~env.net \/ Refused(f)
                /\ ~GivesUp(f)
                /\ rej' = IF env.net THEN Rejected(f) ELSE rej
                /\ pc' = "done" /\ UNCHANGED <<cur, seen>>
    /\ UNCHANGED <<nvs, card, env>>

(* SdCursorBackend::commit, then the next photo *)
Commit ==
    /\ pc = "acked"
    /\ nvs' = [nvs EXCEPT !.cursor = cur.n]
    /\ pc' = IF todo.files = {} \/ todo.left = 0 THEN "done" ELSE "send"
    /\ cur' = NoFile
    /\ UNCHANGED <<card, todo, rej, env, seen>>

-----------------------------------------------------------------------------
RejKept == rej

(* loop: the deep sleep *)
DeepSleep ==
    /\ pc = "done"
    /\ pc' = "off" /\ env' = [env EXCEPT !.cold = FALSE]
    /\ rej' = RejKept /\ todo' = [files |-> {}, left |-> 0]
    /\ UNCHANGED <<nvs, card, cur, seen>>

(* A reset; while a file is written, part of it may be on the card.  *)
Reset ==
    /\ env.resets < MaxResets /\ pc # "off"
    /\ env' = [env EXCEPT !.resets = @ + 1, !.cold = TRUE]
    /\ card' \in {card} \cup IF pc = "write" THEN {card \cup {[cur EXCEPT !.whole = FALSE]}} ELSE {}
    /\ pc' = "off" /\ cur' = NoFile /\ rej' = Rej0
    /\ todo' = [files |-> {}, left |-> 0]
    /\ UNCHANGED <<nvs, seen>>

World ==
    /\ \/ env' = [env EXCEPT !.net = ~@]
       \/ pc = "off" /\ env' = [env EXCEPT !.sd = ~@]
    /\ UNCHANGED <<pc, nvs, card, cur, todo, rej, seen>>

Setup == \/ Mount \/ Reconcile \/ Capture \/ Write \/ Engage \/ Direct \/ Confirm
         \/ Scan \/ Send \/ Commit \/ DeepSleep
Next == Setup \/ Reset \/ World

(* setup() and loop() run, and the timer wakes the board. *)
Spec == Init /\ [][Next]_cvars /\ WF_cvars(Setup)

-----------------------------------------------------------------------------

(* A photo that is written is not yet acknowledged by its number: what     *)
(* n3SfSeqNext is for, whatever counters the card and the flash were left  *)
(* with.                                                                   *)
BornPending == pc = "written" => cur.n > nvs.cursor

(* The photos on the card, engaged, that the server has neither taken nor  *)
(* refused for good                                                        *)
Undelivered == {f \in card : /\ f.id \in Photos /\ f.whole /\ f.n <= nvs.count
                             /\ f.id \notin seen.sent \cup seen.skipped}

(* camera_sync.h:12: the cursor is the last photo the server confirmed.    *)
BacklogKept == \A f \in Undelivered : InQueue(f)

(* It is so as long as the card is mounted and read at every wake, through *)
(* resets, refusals and failing answers.                                   *)
KeptWhileMounted == ~seen.failed => BacklogKept

(* When the server answers and the card mounts from some time on, the      *)
(* queue ends empty: a photo that is always refused does not hold it.      *)
BacklogDrains == <>[](env.net /\ env.sd) => <>[](Pending = 0)
=============================================================================
