------------------------------- MODULE StaLink ------------------------------
(***************************************************************************)
(* The Wi-Fi station of ffp5cs and the three tasks that drive it: the      *)
(* Arduino loop (WifiManager::loop and its watch of the signal), the       *)
(* automation task after a light sleep (reconnectWithSavedCredentials) and *)
(* the web task (/wifi/connect).  (wifi_manager.cpp, web_routes_wifi.cpp,  *)
(* power.cpp, app.cpp)                                                     *)
(***************************************************************************)
EXTENDS Integers

CONSTANTS MaxAttempts,  \* WIFI_MAX_RECONNECT_ATTEMPTS
          Patience,     \* WIFI_WEAK_SIGNAL_THRESHOLD_MS, in checks
          MaxMoves,     \* bound: how often the air changes
          MaxSleeps, MaxWeb  \* bounds: light sleeps; networks typed in

VARIABLES link,    \* the network the station is on, or None
          air,     \* nets: what can be joined; weak: how weak the signal is
          flags,   \* connecting: _connecting; sta: s_staReconnectInProgress;
                   \* window: isInWakeProtectionWindow; due: the retry
                   \* interval is over; check: the check is due
          weak,    \* checks since _weakSignalStartTime; None is zero
          tries,   \* n: _reconnectAttempts; old: the last is 5 minutes old
          saved,   \* _lastSSID, or None without _hasSavedCredentials
          at,      \* where the loop, the automation and the web task are
          asked,   \* the network typed in
          left     \* what the bounds leave
lvars == <<link, air, flags, weak, tries, saved, at, asked, left>>

None == "none"
Nets == {"listed", "typed"}  \* of WIFI_LIST; known from the web page only

Init == /\ link = None /\ saved = None /\ asked = None
        /\ air \in [nets : {{}, Nets}, weak : {"no", "poor", "critical"}]
        /\ flags = [connecting |-> FALSE, sta |-> FALSE, window |-> FALSE,
                    due |-> TRUE, check |-> TRUE]
        /\ weak = 0 /\ tries = [n |-> 0, old |-> FALSE]
        /\ at = [loop |-> "check", auto |-> "awake", web |-> "idle"]
        /\ left = [moves |-> MaxMoves, sleeps |-> MaxSleeps, web |-> MaxWeb]

Busy == flags.sta \/ flags.window

-----------------------------------------------------------------------------
(* checkConnectionStability, at most once an interval *)

(* shouldReconnect: the limit is only reached with a fair signal, and lets *)
(* a link go after five minutes.                                           *)
ShouldReconnect == \/ air.weak = "critical"
                   \/ air.weak = "poor" /\ weak > Patience
                   \/ air.weak = "no" /\ tries.n >= MaxAttempts /\ tries.old

Weakened == IF air.weak = "no" THEN 0 ELSE IF air.weak = "critical" \/ weak > Patience
            THEN weak ELSE weak + 1

CheckStability ==
    /\ at.loop = "check" /\ at' = [at EXCEPT !.loop = "loop"]
    /\ IF ~flags.check THEN UNCHANGED <<link, flags, weak, tries>>
       ELSE IF link = None THEN /\ flags' = [flags EXCEPT !.check = FALSE]
                                /\ UNCHANGED <<link, weak, tries>>
       ELSE /\ weak' = Weakened
            /\ IF ~ShouldReconnect
               THEN flags' = [flags EXCEPT !.check = FALSE] /\ UNCHANGED <<link, tries>>
               ELSE IF Busy THEN UNCHANGED <<link, flags, tries>>
               ELSE /\ link' = None
                    /\ flags' = [flags EXCEPT !.check = FALSE]
                    /\ tries' = [n |-> IF tries.n >= MaxAttempts /\ air.weak = "no" THEN 1
                                       ELSE IF tries.n < MaxAttempts THEN tries.n + 1
                                       ELSE tries.n,
                                 old |-> FALSE]
    /\ UNCHANGED <<air, saved, asked, left>>

(* WifiManager::loop *)
Loop ==
    /\ at.loop = "loop"
    /\ IF link # None \/ flags.connecting \/ Busy \/ ~flags.due
       THEN at' = [at EXCEPT !.loop = "check"] /\ UNCHANGED flags
       ELSE /\ at' = [at EXCEPT !.loop = "fast"]
            /\ flags' = [flags EXCEPT !.due = FALSE]
    /\ UNCHANGED <<link, air, weak, tries, saved, asked, left>>

(* What the loop does once connected: saveCurrentWifiCredentials *)
Joined(n) == /\ link' = n /\ saved' = n
             /\ at' = [at EXCEPT !.loop = "check"]

(* reconnectWithSavedCredentials, first half *)
LoopFast ==
    /\ at.loop = "fast"
    /\ IF link # None THEN Joined(link) /\ UNCHANGED flags
       ELSE IF saved = None \/ flags.sta
       THEN at' = [at EXCEPT !.loop = "connect"] /\ UNCHANGED <<link, saved, flags>>
       ELSE /\ at' = [at EXCEPT !.loop = "fastWait"]
            /\ flags' = [flags EXCEPT !.sta = TRUE]
            /\ UNCHANGED <<link, saved>>
    /\ UNCHANGED <<air, weak, tries, asked, left>>

LoopFastEnd ==
    /\ at.loop = "fastWait"
    /\ flags' = [flags EXCEPT !.sta = FALSE]
    /\ IF link # None \/ saved \in air.nets
       THEN Joined(IF link # None THEN link ELSE saved)
       ELSE at' = [at EXCEPT !.loop = "connect"] /\ UNCHANGED <<link, saved>>
    /\ UNCHANGED <<air, weak, tries, asked, left>>

(* connect: scans, and purges the state of the station *)
Connect ==
    /\ at.loop = "connect"
    /\ IF link # None THEN Joined(link) /\ UNCHANGED flags
       ELSE IF flags.connecting
       THEN at' = [at EXCEPT !.loop = "check"] /\ UNCHANGED <<link, saved, flags>>
       ELSE /\ at' = [at EXCEPT !.loop = "trying"]
            /\ flags' = [flags EXCEPT !.connecting = TRUE]
            /\ UNCHANGED <<link, saved>>
    /\ UNCHANGED <<air, weak, tries, asked, left>>

\* Mutant: _connecting is left up on the way to the access point.
ConnectFailedUp == flags' = flags

ConnectFailed == flags' = [flags EXCEPT !.connecting = FALSE]

(* The networks of the list, four attempts each; then the access point.  A *)
(* connection another task has made meanwhile is taken for its own, or     *)
(* purged between two attempts.                                            *)
ConnectEnd ==
    /\ at.loop = "trying"
    /\ \/ /\ "listed" \in air.nets
          /\ Joined("listed")
          /\ flags' = [flags EXCEPT !.connecting = FALSE]
       \/ /\ link # None
          /\ Joined(link)
          /\ flags' = [flags EXCEPT !.connecting = FALSE]
       \/ /\ "listed" \notin air.nets
          /\ link' = None
          /\ ConnectFailed
          /\ at' = [at EXCEPT !.loop = "check"]
          /\ UNCHANGED saved
    /\ UNCHANGED <<air, weak, tries, asked, left>>

-----------------------------------------------------------------------------
(* goToLightSleep: what is not connected is forgotten *)
Sleep ==
    /\ at.auto = "awake" /\ left.sleeps > 0
    /\ left' = [left EXCEPT !.sleeps = @ - 1]
    /\ saved' = link
    /\ link' = None
    /\ flags' = [flags EXCEPT !.window = TRUE]
    /\ at' = [at EXCEPT !.auto = "wake"]
    /\ UNCHANGED <<air, weak, tries, asked>>

Wake ==
    /\ at.auto = "wake"
    /\ IF saved = None \/ link # None \/ flags.sta
       THEN at' = [at EXCEPT !.auto = "awake"] /\ UNCHANGED flags
       ELSE /\ at' = [at EXCEPT !.auto = "wait"]
            /\ flags' = [flags EXCEPT !.sta = TRUE]
    /\ UNCHANGED <<link, air, weak, tries, saved, asked, left>>

WakeEnd ==
    /\ at.auto = "wait" /\ at' = [at EXCEPT !.auto = "awake"]
    /\ flags' = [flags EXCEPT !.sta = FALSE]
    /\ link' = IF link = None /\ saved \in air.nets THEN saved ELSE link
    /\ UNCHANGED <<air, weak, tries, saved, asked, left>>

-----------------------------------------------------------------------------
(* /wifi/connect: the station is dropped, then connectTo *)
WebDrop ==
    /\ at.web = "idle" /\ left.web > 0
    /\ left' = [left EXCEPT !.web = @ - 1]
    /\ \E n \in Nets : asked' = n
    /\ link' = None
    /\ at' = [at EXCEPT !.web = "dropped"]
    /\ UNCHANGED <<air, flags, weak, tries, saved>>

ConnectTo ==
    /\ at.web = "dropped"
    /\ IF link # None
       THEN at' = [at EXCEPT !.web = "idle"] /\ saved' = link /\ UNCHANGED flags
       ELSE IF flags.connecting
       THEN at' = [at EXCEPT !.web = "idle"] /\ UNCHANGED <<saved, flags>>
       ELSE /\ at' = [at EXCEPT !.web = "joining"]
            /\ flags' = [flags EXCEPT !.connecting = TRUE]
            /\ UNCHANGED saved
    /\ UNCHANGED <<link, air, weak, tries, asked, left>>

ConnectToEnd ==
    /\ at.web = "joining" /\ at' = [at EXCEPT !.web = "idle"]
    /\ flags' = [flags EXCEPT !.connecting = FALSE, !.due = FALSE]
    /\ IF link # None \/ asked \in air.nets
       THEN \E n \in (({asked} \cap air.nets) \cup {link}) \ {None} : link' = n /\ saved' = n
       ELSE UNCHANGED <<link, saved>>
    /\ UNCHANGED <<air, weak, tries, asked, left>>

-----------------------------------------------------------------------------
Tick == /\ flags' = [flags EXCEPT !.due = TRUE, !.check = TRUE, !.window = FALSE]
        /\ tries' = [tries EXCEPT !.old = tries.n > 0]
        /\ UNCHANGED <<link, air, weak, saved, at, asked, left>>

Air == /\ left.moves > 0 /\ left' = [left EXCEPT !.moves = @ - 1]
       /\ air' \in [nets : SUBSET Nets, weak : {"no", "poor", "critical"}]
       /\ link' = IF link \in air'.nets THEN link ELSE None
       /\ UNCHANGED <<flags, weak, tries, saved, at, asked>>

LoopTask == CheckStability \/ Loop \/ LoopFast \/ LoopFastEnd \/ Connect \/ ConnectEnd
AutoTask == Wake \/ WakeEnd
WebTask == ConnectTo \/ ConnectToEnd
Next == LoopTask \/ AutoTask \/ WebTask \/ Sleep \/ WebDrop \/ Tick \/ Air

Spec == Init /\ [][Next]_lvars
             /\ WF_lvars(LoopTask) /\ WF_lvars(AutoTask) /\ WF_lvars(WebTask)
             /\ WF_lvars(Tick)

-----------------------------------------------------------------------------
(* Once a network of the list stays in reach with a fair signal the        *)
(* station joins it and stays, whatever the tasks did to each other        *)
(* before: no flag is left up, no attempt ends them all.                   *)
Rejoins == <>[]("listed" \in air.nets /\ air.weak = "no") => <>[](link # None)
=============================================================================
