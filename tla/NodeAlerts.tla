---------------------------- MODULE NodeAlerts ----------------------------
(***************************************************************************)
(* Who tells of the greenhouse node's alerts: the server, from the posts   *)
(* it gets, or the board itself, by mail, while its posts fail (failover). *)
(* postOkThisWake says which, and is kept in RTC memory over the sleep.    *)
(* One action is a callback of the wake-up (Node has the waterings); each  *)
(* post and each mail may fail: a callback is a composition of operators   *)
(* from a world to the set of worlds it may lead to.                       *)
(***************************************************************************)
EXTENDS Naturals

CONSTANTS MailBudget,   \* FAILOVER_MAIL_BUDGET
          ReportEvery   \* N3_NETWORK_REPORT_INTERVAL_S, in sleeps

VARIABLES nv,       \* RTC memory
          wake,     \* the wake-up: step, wifi, pump, low
          told      \* ghost
avars == <<nv, wake, told>>

(* postOk: postOkThisWake; mails: failoverMailsSent; pompe, humid, pont:   *)
(* emailPompeSent, emailHumidSent, emailPontDivSent; report: the time      *)
(* since the last network report                                           *)
Nv0 == [postOk |-> FALSE, mails |-> 0, pompe |-> FALSE, humid |-> FALSE,
        pont |-> FALSE, report |-> 0]
Wake0 == [step |-> "asleep", wifi |-> FALSE, low |-> FALSE]

(* pont: mails since the battery went low; outage: failover mails since    *)
(* the last accepted post                                                  *)
Told0 == [pont |-> 0, outage |-> 0]

World == [nv |-> nv, wake |-> wake, told |-> told]
Become(w) == nv' = w.nv /\ wake' = w.wake /\ told' = w.told
Then(ws, F(_)) == UNION {F(w) : w \in ws}
Goto(step, ws) == \E w \in ws : Become([w EXCEPT !.wake.step = step])

(* datatobdd *)
Failed(w) == [w EXCEPT !.nv.postOk = FALSE]
Accepted(w) == [w EXCEPT !.nv.postOk = TRUE, !.nv.mails = 0, !.told.outage = 0]
datatobdd(w) == {Failed(w)} \cup (IF w.wake.wifi THEN {Accepted(w)} ELSE {})

\* Mutant: the budget counts the mails that were delivered.
SpendDelivered(w) == w

Spend(w) == [w EXCEPT !.nv.mails = @ + 1]

(* n3MailNotify: with the worlds it may lead to, whether the mail counts   *)
(* as done.  Without the server's ear only P1 and P2 leave, within a       *)
(* budget; the others are done with.                                       *)
Mail(w, severity) ==
    IF w.nv.postOk THEN {[w |-> w, done |-> d] : d \in BOOLEAN}
    ELSE IF severity > 2 THEN {[w |-> w, done |-> TRUE]}
    ELSE IF ~w.wake.wifi \/ w.nv.mails >= MailBudget THEN {[w |-> w, done |-> FALSE]}
    ELSE {[w |-> [Spend(w) EXCEPT !.told.outage = @ + 1], done |-> d] : d \in BOOLEAN}

PompeMail(w) == {[m.w EXCEPT !.nv.pompe = m.done] : m \in Mail(w, 1)}
HumidMail(w) == {[m.w EXCEPT !.nv.humid = m.done] : m \in Mail(w, 2)}
BackMail(w) == {[m.w EXCEPT !.nv.humid = ~m.done] : m \in Mail(w, 3)}
InfoMail(w) == {m.w : m \in Mail(w, 3)}

PontMail(w) ==
    {[m.w EXCEPT !.nv.pont = m.done,
                 !.told.pont = IF m.done THEN @ + 1 ELSE @] : m \in Mail(w, 1)}

-----------------------------------------------------------------------------
(* setup() and the reconnection *)
Wake(n) == \E wifi \in BOOLEAN :
              /\ nv' = n
              /\ wake' = [Wake0 EXCEPT !.step = "pump", !.wifi = wifi]
WakeUp == /\ wake.step \in {"asleep", "forever"} /\ Wake(nv) /\ UNCHANGED told
Reset == wake.step \notin {"asleep", "forever"} /\ Wake(Nv0) /\ told' = Told0

(* n3ppCbReadSensors: the pump that is on by the server's command *)
PumpAlert ==
    /\ wake.step = "pump"
    /\ \/ Goto("soil", {[World EXCEPT !.nv.pompe = FALSE]})
       \/ nv.pompe /\ Goto("soil", {World})
       \/ /\ ~nv.pompe
          /\ Goto("soil", Then(datatobdd(World), LAMBDA v :
                IF v.nv.postOk THEN {[v EXCEPT !.nv.pompe = TRUE]} ELSE PompeMail(v)))

(* automatismes, up to the waterings.  postOk is what the last post left,  *)
(* most often the one before the sleep.                                    *)
SoilAlert ==
    /\ wake.step = "soil"
    /\ \/ Goto("battery", {World})       \* no sensor, or neither dry nor wet
       \/ /\ ~nv.postOk /\ ~nv.humid
          /\ Goto("battery", Then(HumidMail(World), datatobdd))
       \/ /\ nv.postOk /\ nv.humid
          /\ Goto("battery", {[World EXCEPT !.nv.humid = FALSE]})
       \/ /\ ~nv.postOk /\ nv.humid
          /\ Goto("battery", Then(BackMail(World), datatobdd))

LowBattery ==
    LET w == [World EXCEPT !.wake.low = TRUE]
    IN  IF ~nv.postOk /\ ~nv.pont THEN PontMail(w) ELSE {w}
(* a low battery: the emergency sleep, of which the final post is part, if *)
(* the server allows it                                                    *)
BatteryAlert ==
    /\ wake.step = "battery"
    /\ \/ Goto("water", {[World EXCEPT !.nv.pont = FALSE, !.told.pont = 0]})
       \/ Goto("water", LowBattery)
       \/ Goto("forever", Then(LowBattery, datatobdd))

(* a watering: its information mail and its post, or nothing *)
Watering == /\ wake.step = "water"
            /\ \/ Goto("payload", {World})
               \/ Goto("payload", Then(IF nv.postOk THEN {World} ELSE InfoMail(World),
                                       datatobdd))

(* n3ppCbBuildAndSendPayload, when its interval is over *)
Payload == wake.step = "payload" /\ Goto("report", {World} \cup datatobdd(World))

(* n3ppMaybeSendNetworkReportEmail: a diagnostic, sent with the server's   *)
(* ear only, and tried again at each wake-up                               *)
SendReports ==
    /\ wake.step = "report"
    /\ LET report == IF nv.report < ReportEvery THEN nv.report + 1 ELSE nv.report
           due == report >= ReportEvery /\ wake.wifi /\ nv.postOk
       IN  \E sent \in {FALSE, due} :
              Goto("sleep", {[World EXCEPT !.nv.report = IF sent THEN 0 ELSE report]})

(* sommeil; the turn of an awake board is like a wake-up *)
Sommeil == wake.step = "sleep" /\ Goto("asleep", datatobdd(World))

Init == nv = Nv0 /\ wake = Wake0 /\ told = Told0
Next == WakeUp \/ Reset \/ PumpAlert \/ SoilAlert \/ BatteryAlert \/ Watering
        \/ Payload \/ SendReports \/ Sommeil
Spec == Init /\ [][Next]_avars

-----------------------------------------------------------------------------
(* While its posts fail the board mails within its budget, whether the     *)
(* mails arrive or not (n3_mail.cpp:256-266): TLS sessions cost battery.   *)
OutageBudget == told.outage <= MailBudget

(* A battery that stays low is mailed once, whatever the posts do in       *)
(* between (n3pp_automation.cpp:199-238).                                  *)
LowMailedOnce == told.pont <= 1

=============================================================================
