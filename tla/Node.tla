------------------------------- MODULE Node -------------------------------
(***************************************************************************)
(* The greenhouse node (n3pp): a board that wakes, reads its commands from *)
(* the server, measures, waters, posts and sleeps.  One wake-up runs the   *)
(* callbacks of n3AppRun in order; its RAM is lost in the deep sleep, its  *)
(* RTC memory is kept there and set back to its initial values by every    *)
(* other reset.                                                            *)
(*                                                                         *)
(* A callback is one action, but for the waterings, during which the board *)
(* may reset: they start and end in two.  The alerts that the callbacks    *)
(* send are in NodeAlerts.  The unit of time is the sleep FreqWakeUp.      *)
(***************************************************************************)
EXTENDS Integers

CONSTANTS COOLDOWN,     \* ARROSAGE_COOLDOWN_MS
          Dose,         \* the hour of the scheduled watering (HeureArrosage)
          Hours         \* hours of a day

ASSUME NodeAssumption == COOLDOWN \in Nat \ {0} /\ Dose \in 0..Hours-1

VARIABLES rtc, ram,
          server,   \* the outputs the user sets, read by variablestoesp
          hour,
          seen      \* what happened (ghost)
nvars == <<rtc, ram, server, hour, seen>>

(* edge: s_resetEdgeInitialized; last: s_lastResetModeState; cool:         *)
(* s_arrosageCooldownAccumulatorMs; fait: arrosageFait                     *)
Rtc0 == [edge |-> FALSE, last |-> FALSE, cool |-> COOLDOWN, fait |-> TRUE]

(* step: the callback to come; wakeUp: the server keeps the board awake;   *)
(* dry: the reading; watered: arrosageEffectueCeCycle                      *)
Ram0 == [step |-> "asleep", wakeUp |-> FALSE, resetMode |-> FALSE,
         manu |-> FALSE, timed |-> FALSE, dry |-> FALSE, watered |-> FALSE]

(* since: time since the last watering for a dry soil, COOLDOWN when the   *)
(* board was reset or woken by its pin since; spaced: the dry watering     *)
(* under way came after COOLDOWN; due, twice: a command to serve, one      *)
(* served again; doses: scheduled waterings of this hour; reboots: since   *)
(* the reset flag rose or was taken for down                               *)
Seen0 == [since |-> COOLDOWN, spaced |-> TRUE, due |-> FALSE, twice |-> FALSE,
          doses |-> 0, reboots |-> 0]

World == [rtc |-> rtc, ram |-> ram, server |-> server, seen |-> seen]
Become(w) == /\ rtc' = w.rtc /\ ram' = w.ram
             /\ server' = w.server /\ seen' = w.seen

(* datatobdd: a post that arrives takes the command it knows of to the     *)
(* server; a GET of variablestoesp that fails leaves the RAM as it is      *)
Posted(w) == [w EXCEPT !.server.manu = w.ram.manu]
datatobdd(w) == {w, Posted(w)}
variablestoesp(w) ==
    {w, [w EXCEPT !.ram.manu = w.server.manu, !.ram.resetMode = w.server.reset,
                  !.ram.wakeUp = w.server.awake]}

-----------------------------------------------------------------------------
(* From a deep sleep or from a reset to the end of setup(), which reads    *)
(* the commands a first time                                               *)
Setup(r, s) ==
    \E w \in variablestoesp([rtc |-> r, server |-> server, seen |-> s,
                             ram |-> [Ram0 EXCEPT !.step = "config"]]) : Become(w)

Saturated(n, d) == IF n + d > COOLDOWN THEN COOLDOWN ELSE n + d

WakeTimer == /\ ram.step = "asleep"
             /\ hour' \in {hour, (hour + 1) % Hours}
             /\ Setup(rtc, [seen EXCEPT !.since = Saturated(@, 1),
                                        !.doses = IF hour' = hour THEN @ ELSE 0])

(* the wake-up pin: before the timer, or in the emergency sleep *)
WakeGpio == /\ ram.step \in {"asleep", "forever"}
            /\ Setup(rtc, [seen EXCEPT !.since = COOLDOWN])
            /\ UNCHANGED hour

(* a brown-out, a watchdog or the power: anywhere, also while it waters *)
Reset == /\ ram.step # "asleep"
         /\ Setup(Rtc0, [seen EXCEPT !.since = COOLDOWN, !.due = TRUE])
         /\ UNCHANGED hour

-----------------------------------------------------------------------------
(* the flag rises between two polls; the first one after a reset only looks *)
Edge(w) == w.rtc.edge /\ w.ram.resetMode /\ ~w.rtc.last

(* n3ppCbApplyRemoteConfig: on an edge an update or a restart, of which    *)
(* both are a reset; the flag's new state is not kept then.  After a GET   *)
(* that failed the flag is the one of before, down after a sleep.          *)
AfterPoll(w) ==
    LET missed == w.server.reset /\ ~w.ram.resetMode
        v == [w EXCEPT !.seen.reboots = IF missed THEN 0 ELSE @]
    IN  IF Edge(v) THEN [v EXCEPT !.ram.step = "restart"]
        ELSE [v EXCEPT !.rtc.last = v.ram.resetMode, !.rtc.edge = TRUE,
                       !.ram.step = "sense"]

ApplyRemoteConfig == /\ ram.step = "config"
                     /\ \E w \in variablestoesp(World) : Become(AfterPoll(w))
                     /\ UNCHANGED hour

Restart == /\ ram.step = "restart"
           /\ Setup(Rtc0, [seen EXCEPT !.reboots = @ + 1, !.since = COOLDOWN])
           /\ UNCHANGED hour

(* n3ppCbReadSensors up to the waterings.  A low battery skips the rest:   *)
(* a last post and a sleep without timer.                                  *)
ReadSensors ==
    /\ ram.step = "sense"
    /\ \/ \E dry \in BOOLEAN :
             Become([World EXCEPT !.ram.dry = dry, !.ram.watered = FALSE,
                                  !.ram.step = "auto"])
       \/ \E w \in datatobdd(World) :
             Become([w EXCEPT !.ram = [Ram0 EXCEPT !.step = "forever"]])
    /\ UNCHANGED hour

-----------------------------------------------------------------------------
(* The waterings: for a dry soil, at the hour, on command; at most one of  *)
(* them a cycle.  Each starts the pump (the step says for whom) and then   *)
(* is over, which resets the cooldown.                                     *)

Cooled(r) == r.cool >= COOLDOWN

WaterDry ==
    /\ ram.step = "auto"
    /\ LET w == [World EXCEPT !.ram.dry = FALSE]
       IN  Become(IF ram.dry /\ Cooled(rtc)
                  THEN [w EXCEPT !.ram.step = "drily", !.seen.since = 0,
                                 !.seen.spaced = seen.since >= COOLDOWN]
                  ELSE [w EXCEPT !.ram.step = "hour"])
    /\ UNCHANGED hour

WaterHour ==
    /\ ram.step = "hour"
    /\ LET fait == rtc.fait /\ hour = Dose
           w == [World EXCEPT !.rtc.fait = fait]
       IN  Become(IF hour = Dose /\ ~fait /\ ~ram.watered
                  THEN [w EXCEPT !.ram.step = "hourly", !.seen.doses = @ + 1]
                  ELSE [w EXCEPT !.ram.step = "manual"])
    /\ UNCHANGED hour

WaterManual ==
    /\ ram.step = "manual"
    /\ IF ram.manu /\ ~ram.watered
       THEN \E w \in datatobdd(World) :
               Become([w EXCEPT !.ram.step = "manually", !.seen.due = FALSE,
                                !.seen.twice = ~seen.due])
       ELSE Become([World EXCEPT !.ram.step = "payload"])
    /\ UNCHANGED hour

\* Mutant: the cooldown starts for the waterings on command only.
WateredKept(w) ==
    [w EXCEPT !.ram.watered = TRUE,
              !.rtc.cool = IF w.ram.step = "manually" THEN 0 ELSE @]

Watered(w) == [w EXCEPT !.ram.watered = TRUE, !.rtc.cool = 0]

ManualDone(w) == [w EXCEPT !.ram.manu = FALSE]

(* the end of a watering and its post *)
WateringEnds ==
    /\ ram.step \in {"drily", "hourly", "manually"}
    /\ LET next == [drily |-> "hour", hourly |-> "manual", manually |-> "payload"]
           w == [Watered(World) EXCEPT !.ram.step = next[ram.step],
                                       !.rtc.fait = @ \/ ram.step = "hourly"]
           v == IF ram.step = "manually" THEN ManualDone(w) ELSE w
       IN  \/ Become(Posted(v))
           \/ Become([v EXCEPT !.seen.due = @ \/ ram.step = "manually"])
    /\ UNCHANGED hour

-----------------------------------------------------------------------------
(* n3ppCbBuildAndSendPayload: a post when its interval is over *)
Payload == /\ ram.step = "payload"
           /\ \E w \in datatobdd(World) : Become([w EXCEPT !.ram.step = "report"])
           /\ UNCHANGED hour

(* the sleep to come, or the time since the last turn of an awake board,   *)
(* none at its first turn                                                  *)
Elapsed(d) == IF ~ram.wakeUp THEN 1 ELSE IF ram.timed THEN d ELSE 0

(* n3ppCbSendReports, d being the time that the turn of the loop took: it  *)
(* passes for an awake board, a sleep is still to come for the others      *)
SendReports(d) ==
    /\ ram.step = "report"
    /\ Become([World EXCEPT
            !.rtc.cool = Saturated(@, Elapsed(d)),
            !.seen.since = IF ram.wakeUp THEN Saturated(@, d) ELSE @,
            !.ram.timed = TRUE, !.ram.step = "sleep"])
    /\ UNCHANGED hour

(* sommeil: a last post and the deep sleep, or another turn of the loop *)
Sommeil ==
    /\ ram.step = "sleep"
    /\ IF ram.wakeUp THEN Become([World EXCEPT !.ram.step = "config"])
       ELSE \E w \in datatobdd(World) : Become([w EXCEPT !.ram = Ram0])
    /\ UNCHANGED hour

-----------------------------------------------------------------------------
(* The user, on the server's page *)
Ask == /\ \/ /\ ~server.manu
             /\ server' = [server EXCEPT !.manu = TRUE]
             /\ seen' = [seen EXCEPT !.due = TRUE]
          \/ /\ server' = [server EXCEPT !.reset = ~@]
             /\ seen' = [seen EXCEPT !.reboots = IF server.reset THEN @ ELSE 0]
       /\ UNCHANGED <<rtc, ram, hour>>

Init == /\ rtc = Rtc0 /\ ram = Ram0 /\ hour = 0 /\ seen = Seen0
        /\ server \in {[manu |-> FALSE, reset |-> FALSE, awake |-> a] :
                          a \in BOOLEAN}

Next == WakeTimer \/ WakeGpio \/ Reset \/ ApplyRemoteConfig \/ Restart
        \/ ReadSensors \/ WaterDry \/ WaterHour \/ WaterManual \/ WateringEnds
        \/ Payload \/ (\E d \in 0..1 : SendReports(d)) \/ Sommeil \/ Ask
Spec == Init /\ [][Next]_nvars

-----------------------------------------------------------------------------
(* Two waterings for a dry soil are a cooldown apart, in true time, unless *)
(* a reset cleared the RTC memory or the pin cut a sleep short that was    *)
(* already counted (n3pp_automation.cpp:120-135, main.cpp:362-386).        *)
AutoSpaced == ram.step = "drily" => seen.spaced

(* A manual command waters once, but again after a post that did not take  *)
(* it off the server and after a reset (n3pp_automation.cpp:306-322).      *)
OneDosePerCommand == ~seen.twice

(* The watering of the hour happens once an hour, resets included          *)
(* (n3pp_automation.cpp:276-304, n3pp_globals.cpp:55).                     *)
ScheduledOnce == seen.doses <= 1

(* A reset flag that stays up restarts the board once, unless a poll that  *)
(* failed took it for down in between (main.cpp:267-293).                  *)
NoRebootLoop == seen.reboots <= 1
=============================================================================
