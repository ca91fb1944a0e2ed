------------------------------- MODULE Heater -------------------------------
(***************************************************************************)
(* The heater of the aquarium board (ffp5cs).  The automation task         *)
(* regulates it from the water's temperature and its own record of what it *)
(* last decided, heaterPrevState; the server's outputs/state document,     *)
(* fetched or taken from the flash, and the board's page switch the same   *)
(* relay without touching that record; the reports of the relay come back  *)
(* as the server's document.  A light sleep, which gives the relay back as *)
(* it was, is in SleepCycle.  (automatism_display.cpp,                     *)
(* heater_orchestrator.h, heater_hysteresis.h, gpio_parser.cpp,            *)
(* automatism_sync.cpp, web_server.cpp, automatism.cpp)                    *)
(***************************************************************************)
EXTENDS Integers

CONSTANT MaxEvents  \* bound: switches of the page and of the panel, resets

VARIABLES water,   \* as the cycle reads it, a default in place of an invalid value:
                   \* below the threshold, above the hysteresis, or between
          relay,   \* heater.state()
          prev,    \* heaterPrevState
          commanded, \* ghost: the server or the page set the relay last
          task,    \* the next step of the automation task's cycle
          page,    \* handleRelayAction: its step, and the state it asks for
          net,     \* "server": it answers, "wifi": only the station's link, "none"
          conf,    \* recv, safe: isRemoteRecvEnabled, _safeMode; boot: netTask
                   \* has its fetch of the start to do
          srv,     \* the server's state of the heater
          cache,   \* the heater in the document kept in flash, {} if there is none
          posts,   \* states in the reports under way: netTask, its queues, the RAM queue
          left     \* switches and resets still to come
hvars == <<water, relay, prev, commanded, task, page, net, conf, srv, cache, posts, left>>

Idle == [step |-> "idle", on |-> FALSE]

(* The server and the flash hold what an earlier life left there. *)
Init ==
    /\ water \in {"cold", "band", "hot"}
    /\ relay = FALSE /\ prev = FALSE /\ commanded = FALSE
    /\ task = "poll" /\ page = Idle
    /\ net \in {"server", "wifi", "none"}
    /\ conf \in [recv : BOOLEAN, safe : {FALSE}, boot : {TRUE}]
    /\ srv \in BOOLEAN /\ cache \in {{}, {FALSE}, {TRUE}} /\ posts = {}
    /\ left = MaxEvents

-----------------------------------------------------------------------------
(* parseAndApply, applyGPIO: the document's heater, under either of its    *)
(* keys, switches the relay at every poll, changed or not.  (saveToNVS     *)
(* keeps it in flash too; loadGPIOStatesFromNVS, its reader, is not        *)
(* called.)                                                                *)
Switched(on) == relay' = on /\ commanded' = TRUE

(* fetchRemoteState: the server's answer, kept in flash, or without one    *)
(* the document kept there                                                 *)
Fetched ==
    \/ net = "server" /\ Switched(srv) /\ cache' = {srv}
    \/ net = "wifi" /\ (\E on \in cache : Switched(on)) /\ UNCHANGED cache
NotFetched == UNCHANGED <<relay, commanded, cache>>

(* pollRemoteState: without the network, or before its time, nothing *)
Poll ==
    /\ task = "poll" /\ task' = "post"
    /\ (conf.recv /\ Fetched) \/ NotFetched
    /\ UNCHANGED <<water, prev, page, net, conf, srv, posts, left>>

(* netTask's fetch of the start *)
BootFetch ==
    /\ conf.boot /\ conf' = [conf EXCEPT !.boot = FALSE]
    /\ (conf.recv /\ Fetched) \/ NotFetched
    /\ UNCHANGED <<water, prev, task, page, net, srv, posts, left>>

(* sendFullUpdate: a report of the relay, unless it is refused *)
Reported == posts' \in {posts, posts \cup {relay}}

(* AutomatismSync::update *)
Post ==
    /\ task = "post" /\ task' = "heat"
    /\ Reported
    /\ UNCHANGED <<water, relay, prev, commanded, page, net, conf, srv, cache, left>>

(* HeaterControl::evaluate *)
Evaluate == CASE water = "cold" /\ ~prev -> "TurnOn"
              [] water = "hot" /\ prev -> "TurnOff"
              [] OTHER -> "None"

(* HeaterOrchestrator::run, at the end of handleAlerts; its mail follows   *)
(* the rules of Alerts.  In safe mode the cycle does not come to it.       *)
Heat ==
    /\ task = "heat" /\ task' = "poll"
    /\ IF conf.safe \/ Evaluate = "None" THEN UNCHANGED <<relay, prev, commanded>>
       ELSE /\ relay' = (Evaluate = "TurnOn")
            /\ prev' = relay'
            /\ commanded' = FALSE
    /\ UNCHANGED <<water, page, net, conf, srv, cache, posts, left>>

-----------------------------------------------------------------------------
(* handleRelayAction, in the web server's task: the relay is read and      *)
(* switched, then reported.  What it marks in flash as to be reported it   *)
(* unmarks whether the report was accepted or not, and nothing reads it.   *)
PageRead ==
    /\ page.step = "idle" /\ left > 0
    /\ page' = [step |-> "switch", on |-> ~relay]
    /\ left' = left - 1
    /\ UNCHANGED <<water, relay, prev, commanded, task, net, conf, srv, cache, posts>>

PageSwitch ==
    /\ page.step = "switch"
    /\ page' = [page EXCEPT !.step = "report"]
    /\ relay' = page.on /\ commanded' = TRUE
    /\ UNCHANGED <<water, prev, task, net, conf, srv, cache, posts, left>>

PageReport ==
    /\ page.step = "report"
    /\ page' = Idle
    /\ Reported
    /\ UNCHANGED <<water, relay, prev, commanded, task, net, conf, srv, cache, left>>

-----------------------------------------------------------------------------
(* A report arrives, in any order and perhaps twice, or is lost; the       *)
(* server takes it over, or keeps a command it has just been given.        *)
Delivered ==
    /\ net = "server"
    /\ \E v \in posts : /\ srv' \in {v, srv}
                        /\ posts' \in {posts, posts \ {v}}
    /\ UNCHANGED <<water, relay, prev, commanded, task, page, net, conf, cache, left>>

(* A switch on the server's panel *)
Panel ==
    /\ left > 0
    /\ left' = left - 1
    /\ srv' = ~srv
    /\ UNCHANGED <<water, relay, prev, commanded, task, page, net, conf, cache, posts>>

World ==
    /\ \/ water' \in {"cold", "band", "hot"} /\ UNCHANGED net
       \/ net' \in {"server", "wifi", "none"} /\ UNCHANGED water
    /\ UNCHANGED <<relay, prev, commanded, task, page, conf, srv, cache, posts, left>>

(* HeaterController switches off; the document is in flash, and so may be  *)
(* some of the reports.                                                    *)
Reset ==
    /\ left > 0
    /\ left' = left - 1
    /\ relay' = FALSE /\ prev' = FALSE /\ commanded' = FALSE
    /\ task' = "poll" /\ page' = Idle /\ posts' \in SUBSET posts
    /\ \E safe \in BOOLEAN : conf' = [conf EXCEPT !.safe = safe, !.boot = TRUE]
    /\ UNCHANGED <<water, net, srv, cache>>

Cycle == Poll \/ Post \/ Heat
PageSteps == PageSwitch \/ PageReport
Next == Cycle \/ BootFetch \/ PageRead \/ PageSteps \/ Delivered \/ Panel \/ World \/ Reset

(* The tasks of the board run on; the web server answers what it began. *)
Spec == Init /\ [][Next]_hvars /\ WF_hvars(Cycle) /\ WF_hvars(PageSteps)
-----------------------------------------------------------------------------
(* No command can come any more. *)
Quiet == /\ page.step = "idle" /\ left = 0
         /\ ~conf.recv \/ (net = "none" /\ ~conf.boot)

HeatIn(w) == Heat /\ water = w

(* As long as the regulation has set the relay last, whatever the          *)
(* commands, resets and fetches before, a cycle leaves cold water with the *)
(* heater on and hot water with it off (heater_orchestrator.h).            *)
Regulates == [][Heat /\ ~conf.safe /\ ~commanded'
                => (water = "cold" => relay') /\ (water = "hot" => ~relay')]_hvars

(* Once commands cease, the regulation has its relay back as soon as it    *)
(* has found the water too cold and too hot again                          *)
(* (automatism_display.cpp:138-149).                                       *)
Regains ==
    <>[](Quiet /\ ~conf.safe)
    /\ []<><<HeatIn("cold")>>_hvars /\ []<><<HeatIn("hot")>>_hvars
        => <>[](~commanded /\ relay = prev)
=============================================================================
