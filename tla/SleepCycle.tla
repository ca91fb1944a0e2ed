---------------------------- MODULE SleepCycle ----------------------------
(***************************************************************************)
(* The light sleep of ffp5cs: the automation task decides (handleAutoSleep),*)
(* saves and stops the actuators, waits for the HTTP transport, sleeps,    *)
(* restores them, reconnects, posts and fetches, while the web server's    *)
(* task notes visits and serves commands and postSender sends.             *)
(* (automatism_sleep.cpp, sleep_blocking.h, power.cpp, app_tasks.cpp)      *)
(*                                                                         *)
(* Durations are numbers of Tick, ages are counted up to their limit.      *)
(***************************************************************************)
EXTENDS Naturals

CONSTANTS Acts,        \* actuators cut for the sleep: aqua, heater, light
          Delay,       \* calculateAdaptiveSleepDelay
          WebTimeout,  \* WEB_ACTIVITY_TIMEOUT_MS
          WsTimeout,   \* WS_BLOCK_TIMEOUT_MS
          Window,      \* WAKEUP_PROTECTION_DURATION_MS
          Retries,     \* WAKEUP_FETCH_MAX_RETRIES
          MaxVisits, MaxResets  \* bounds: web requests, resets

VARIABLES pc,      \* where handleAutoSleep is
          sl,      \* AutomatismSleep: web, webAge, awake, ws
          local,   \* its local copy of the age of the web activity
          acts,    \* actuators that run
          snap,    \* snap_pending and the snapshot in flash
          env,     \* clients, busy, forced, visits, resets
          http,    \* the transport mutex, posts that wait, the fetch, window
          seen     \* ghost
cvars == <<pc, sl, local, acts, snap, env, http, seen>>

Up(n, max) == IF n < max THEN n + 1 ELSE n

(* web: _forceWakeFromWeb; ws: 0, or one more than the age of              *)
(* _wsBlockStartMs; awake: the age of _lastWakeMs                          *)
Sleep0 == [web |-> FALSE, webAge |-> 0, awake |-> 0, ws |-> 0]
Http0 == [lock |-> "free", posts |-> 0, attempt |-> 0, window |-> 0]
Seen0 == [on |-> {}, told |-> {}, saved |-> TRUE]

Init == /\ pc = "idle" /\ sl = Sleep0 /\ local = 0
        /\ acts \in SUBSET Acts
        /\ snap = [pending |-> FALSE, on |-> {}]
        /\ env = [clients |-> FALSE, busy |-> "no", forced |-> FALSE,
                  visits |-> 0, resets |-> 0]
        /\ http = Http0 /\ seen = Seen0

-----------------------------------------------------------------------------
(* The decision *)

\* Mutant: the clients' time starts again at each pass.
WsAgeRestarted == 1

WsAge == IF sl.ws = 0 THEN 1 ELSE sl.ws

(* SleepBlocking::decide.  A long connection and an old visit stop         *)
(* counting; the first one then counts anew.                               *)
WsHolds == env.clients /\ WsAge <= WsTimeout
WebHolds == sl.web /\ sl.webAge < WebTimeout

Evaluate ==
    /\ pc = "idle"
    /\ sl' = [sl EXCEPT !.ws = IF WsHolds THEN WsAge ELSE 0]
    /\ local' = sl.webAge
    /\ pc' = IF WsHolds \/ WebHolds \/ env.forced \/ env.busy # "no"
             THEN "idle" ELSE "decided"
    /\ UNCHANGED <<acts, snap, env, http, seen>>

(* shouldEnterSleepEarly writes the local copies back: a visit since       *)
(* Evaluate is forgotten.  A rising tide does not wait for the delay.      *)
Enter ==
    /\ pc = "decided"
    /\ sl' = [sl EXCEPT !.web = FALSE, !.webAge = local]
    /\ \/ pc' = "prepare"
       \/ sl.awake < Delay /\ pc' = "idle"
    /\ UNCHANGED <<local, acts, snap, env, http, seen>>

-----------------------------------------------------------------------------
(* Into the sleep and out of it *)

Captured == acts

(* prepareActuatorsForSleep; the flash may refuse the four writes *)
Prepare ==
    /\ pc = "prepare"
    /\ \E saved \in BOOLEAN :
          /\ snap' = IF saved THEN [pending |-> TRUE, on |-> Captured] ELSE snap
          /\ seen' = [on |-> acts, told |-> {}, saved |-> saved]
    /\ acts' = {}
    /\ \E p \in {http.posts, 1} : http' = [http EXCEPT !.posts = p]  \* sendFullUpdate
    /\ pc' = "quiesce"
    /\ UNCHANGED <<sl, local, env>>

(* quiesceHttpBeforeLightSleep: the mutex once the posts are gone, or a    *)
(* timeout and the sleep all the same                                      *)
Quiesce ==
    /\ pc = "quiesce"
    /\ \/ http.lock = "free" /\ http.posts = 0 /\ http' = [http EXCEPT !.lock = "sleep"]
       \/ UNCHANGED http
    /\ pc' = "asleep"
    /\ UNCHANGED <<sl, local, acts, snap, env, seen>>

(* goToLightSleep: the web clients are closed, the Wi-Fi is cut *)
LightSleep ==
    /\ pc = "asleep"
    /\ env' = [env EXCEPT !.clients = FALSE]
    /\ http' = [http EXCEPT !.lock = IF @ = "sleep" THEN "free" ELSE @]
    /\ pc' = "restore"
    /\ UNCHANGED <<sl, local, acts, snap, seen>>

(* restoreActuatorsAfterWake: what was on is on again; without a snapshot  *)
(* nothing                                                                 *)
Restore ==
    /\ pc = "restore"
    /\ acts' = IF snap.pending THEN acts \cup snap.on ELSE acts
    /\ snap' = [snap EXCEPT !.pending = FALSE]
    /\ pc' = "reconnect"
    /\ UNCHANGED <<sl, local, env, http, seen>>

(* reconnectWithSavedCredentials, waitForNetworkReady, then the protection *)
(* window and the post of the wake; without Wi-Fi none of this             *)
Reconnect ==
    /\ pc = "reconnect"
    /\ \/ /\ http' = [http EXCEPT !.posts = 1, !.window = Window, !.attempt = 0]
          /\ pc' = "fetch"
       \/ UNCHANGED http /\ pc' = "woken"
    /\ UNCHANGED <<sl, local, acts, snap, env, seen>>

(* shouldDeferRemoteStateFetch *)
Deferred == http.window > 0 \/ http.lock = "post" \/ http.posts > 0

Fetch ==
    /\ pc = "fetch"
    /\ ~Deferred                       \* an attempt that is put off does not count
    /\ http' = [http EXCEPT !.attempt = @ + 1]
    /\ \/ pc' = "woken"                           \* fetched, or the Wi-Fi fell
       \/ http.attempt + 1 < Retries /\ UNCHANGED pc
    /\ UNCHANGED <<sl, local, acts, snap, env, seen>>

(* the end of handleAutoSleep *)
Woken ==
    /\ pc = "woken"
    /\ sl' = [sl EXCEPT !.awake = 0]
    /\ pc' = "idle"
    /\ UNCHANGED <<local, acts, snap, env, http, seen>>

-----------------------------------------------------------------------------
(* The other tasks and the world *)

(* a request of the web page, which may command an actuator, or a client   *)
(* that stays; none reaches a board that sleeps                            *)
Visit ==
    /\ pc # "asleep" /\ env.visits < MaxVisits
    /\ env' \in {[env EXCEPT !.visits = @ + 1, !.clients = c] : c \in BOOLEAN}
    /\ sl' = [sl EXCEPT !.web = TRUE, !.webAge = 0]
    /\ \/ UNCHANGED <<acts, seen>>
       \/ \E a \in Acts :
             /\ acts' = IF a \in acts THEN acts \ {a} ELSE acts \cup {a}
             /\ seen' = [seen EXCEPT !.told = @ \cup {a}]
    /\ UNCHANGED <<pc, local, snap, http>>

(* postSender, one post at a time *)
SendPost ==
    /\ pc # "asleep"
    /\ \/ http.lock = "free" /\ http.posts > 0
          /\ http' = [http EXCEPT !.lock = "post", !.posts = 0]
       \/ http.lock = "post" /\ http' = [http EXCEPT !.lock = "free"]
    /\ UNCHANGED <<pc, sl, local, acts, snap, env, seen>>

(* a feeding or a refill starts while the automation task runs its other   *)
(* handlers, and ends; a refill that the overfill security stops leaves    *)
(* isTankPumpRunning() true                                                *)
Work ==
    /\ pc = "idle"
    /\ \/ /\ env.busy = "no" /\ env.visits < MaxVisits
          /\ env' = [env EXCEPT !.busy = "yes", !.visits = @ + 1]
       \/ env.busy = "yes" /\ env' \in {[env EXCEPT !.busy = b] : b \in {"no", "stale"}}
       \/ /\ env.visits < MaxVisits
          /\ env' = [env EXCEPT !.forced = ~@, !.visits = @ + 1]
    /\ UNCHANGED <<pc, sl, local, acts, snap, http, seen>>

Tick ==
    /\ sl' = [sl EXCEPT !.webAge = Up(@, WebTimeout), !.awake = Up(@, Delay),
                        !.ws = IF @ = 0 THEN 0 ELSE Up(@, WsTimeout + 1)]
    /\ local' = Up(local, WebTimeout)
    /\ http' = [http EXCEPT !.window = IF @ > 0 THEN @ - 1 ELSE 0]
    /\ UNCHANGED <<pc, acts, snap, env, seen>>

(* a reset: the outputs are off, the flash is as it was *)
Reset ==
    /\ env.resets < MaxResets
    /\ env' = [env EXCEPT !.resets = @ + 1, !.clients = FALSE, !.busy = "no"]
    /\ pc' = "idle" /\ sl' = Sleep0 /\ local' = 0 /\ acts' = {} /\ http' = Http0
    /\ seen' = Seen0
    /\ UNCHANGED snap

Cycle == Evaluate \/ Enter \/ Prepare \/ Quiesce \/ LightSleep \/ Restore
         \/ Reconnect \/ Fetch \/ Woken
Next == Cycle \/ Visit \/ SendPost \/ Work \/ Tick \/ Reset

(* the tasks run and time passes; a feeding and a refill end *)
EndWork == env.busy = "yes" /\ Work
Fairness == /\ WF_cvars(Cycle) /\ WF_cvars(SendPost) /\ WF_cvars(Tick)
            /\ WF_cvars(EndWork)
Spec == Init /\ [][Next]_cvars /\ Fairness

-----------------------------------------------------------------------------
(* After a wake the actuators are as they were before the sleep, but for   *)
(* those commanded in between and when the flash refused the snapshot: no  *)
(* older snapshot is ever restored (automatism.cpp:797-806).               *)
RestoredOwn ==
    pc = "reconnect" /\ seen.saved => acts \ seen.told = seen.on \ seen.told

(* The board sleeps again and again, though a client stays connected for   *)
(* ever, unless the user keeps it awake or the pump's flag is stale        *)
(* (sleep_blocking.h, automatism.h:54); and each sleep's retries end.      *)
SleepsAgain == []<>(pc = "asleep") \/ <>[](env.forced \/ env.busy = "stale")
=============================================================================
