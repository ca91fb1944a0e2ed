---------------------------- MODULE CameraWake ----------------------------
(***************************************************************************)
(* One wake of the camera node, but for its photo queue (CameraQueue): the *)
(* Wi-Fi, the settings of the server, the periodic update, and the mails   *)
(* about day and night, a failed update and a failing camera.  What must   *)
(* outlive the deep sleep is in RTC memory, which every other reset clears.*)
(* A commanded capture is a photo by night, a commanded reset a Reset.     *)
(* (uploadphotosserver: main.cpp, camera_remote.cpp, camera_setup.cpp;     *)
(* n3_mail.cpp, n3_ota_periodic.h)                                         *)
(***************************************************************************)
EXTENDS Naturals

CONSTANTS Interval,   \* kDefaultIntervalSeconds, in sleeps
          Threshold,  \* CAM_FAIL_ALERT_THRESHOLD
          Tries,      \* WINDOW_MAIL_MAX_TRIES, CAM_FAIL_MAIL_MAX_TRIES, OTA_FAIL_..
          MaxResets   \* bound of the resets

VARIABLES pc,     \* where setup() is
          rtc,    \* RTC_DATA_ATTR: window, elapsed, streak, mails
          wake,   \* wifi, mode: remoteNotifMode, capped to the important
                  \* when serverExchangeOk is not true
          world,  \* the day, the network, resets
          seen    \* ghost: sessions and acceptances of each mail; checked
wvars == <<pc, rtc, wake, world, seen>>

Kinds == {"window", "ota", "camera"}
Modes == {"none", "important", "full"}
Up(n, max) == IF n < max THEN n + 1 ELSE n

NoMail == [due |-> FALSE, tries |-> 0]
Rtc0 == [window |-> "unknown", elapsed |-> Interval, streak |-> 0,
         mail |-> [k \in Kinds |-> NoMail]]
Wake0 == [wifi |-> FALSE, mode |-> "important"]
Told0 == [sessions |-> 0, accepted |-> 0]

Init == /\ pc = "off" /\ rtc = Rtc0 /\ wake = Wake0
        /\ world = [day |-> TRUE, net |-> TRUE, resets |-> 0]
        /\ seen = [told |-> [k \in Kinds |-> Told0], checked |-> FALSE]

\* a mail becomes due: its budget and its ghost are new
Arm(k, r) == [r EXCEPT !.mail[k] = [due |-> TRUE, tries |-> 0]]
Forgotten(k) == [seen EXCEPT !.told[k] = Told0]

-----------------------------------------------------------------------------
(* wifiConnectWithRecovery *)
Connect ==
    /\ pc = "off"
    /\ wake' = [Wake0 EXCEPT !.wifi = world.net]
    /\ pc' = "remote"
    /\ UNCHANGED <<rtc, world, seen>>

(* cameraRemoteFetchConfig, cameraRemotePostFirmwareVersion *)
Remote ==
    /\ pc = "remote" /\ pc' = "ota"
    /\ \/ wake.wifi /\ \E mode \in Modes : wake' = [wake EXCEPT !.mode = mode]
       \/ UNCHANGED wake
    /\ UNCHANGED <<rtc, world, seen>>

\* Mutant: the interval is consumed without the network.
CheckedAnyway == rtc.elapsed = Interval

CheckDone == rtc.elapsed = Interval /\ wake.wifi

(* the check of every two hours; a new image restarts the board, a failure *)
(* is told by mail later: not on the stack of the update                   *)
Ota ==
    /\ pc = "ota"
    /\ \/ /\ rtc' = IF CheckDone THEN [rtc EXCEPT !.elapsed = 0] ELSE rtc
          /\ seen' = [seen EXCEPT !.checked = rtc.elapsed = Interval /\ wake.wifi]
          /\ pc' = "window" /\ UNCHANGED wake
       \/ /\ rtc.elapsed = Interval /\ wake.wifi
          /\ rtc' = [(IF wake.mode = "none" THEN rtc ELSE Arm("ota", rtc))
                     EXCEPT !.elapsed = 0]
          /\ seen' = [Forgotten("ota") EXCEPT !.checked = TRUE]
          /\ pc' = "window" /\ UNCHANGED wake
       \/ /\ rtc.elapsed = Interval /\ wake.wifi
          /\ rtc' = Rtc0 /\ wake' = Wake0
          /\ seen' = [told |-> [k \in Kinds |-> Told0], checked |-> TRUE]
          /\ pc' = "off"
    /\ UNCHANGED world

-----------------------------------------------------------------------------
(* The mails *)

(* n3NotifModeAllows *)
Allows(k) == \/ wake.mode = "full"
             \/ wake.mode = "important" /\ k # "window"

(* sendDebugEventMail: what a session leaves *)
Sent(accepted, closed) == accepted

(* The three senders count a session and stop when it is taken; the one of *)
(* the update counts the calls that are filtered too.                      *)
Try(k) ==
    LET mail == rtc.mail[k]
        counted == [rtc EXCEPT !.mail[k].tries = Up(@, Tries)]
    IN  IF ~mail.due \/ ~wake.wifi THEN UNCHANGED <<rtc, seen>>
        ELSE IF mail.tries >= Tries
        THEN rtc' = [rtc EXCEPT !.mail[k].due = FALSE] /\ UNCHANGED seen
        ELSE IF ~Allows(k)
        THEN rtc' = (IF k = "ota" THEN counted ELSE rtc) /\ UNCHANGED seen
        ELSE \E accepted, closed \in BOOLEAN :
                /\ rtc' = [counted EXCEPT !.mail[k].due = ~Sent(accepted, closed)]
                /\ seen' = [seen EXCEPT
                      !.told[k].sessions = Up(@, Tries + 1),
                      !.told[k].accepted = IF accepted THEN Up(@, 2) ELSE @]

(* handlePhotoWindowTransitionMails: the transition, then its mail *)
Window ==
    /\ pc = "window"
    /\ LET now == IF world.day THEN "day" ELSE "night" IN
       \/ pc' = "otamail" /\ UNCHANGED <<rtc, seen>>  \* no plausible time
       \/ /\ rtc.window = "unknown"
          /\ rtc' = [rtc EXCEPT !.window = now]
          /\ pc' = "otamail" /\ UNCHANGED seen
       \/ /\ rtc.window \notin {now, "unknown"}
          /\ rtc' = [Arm("window", rtc) EXCEPT !.window = now]
          /\ seen' = Forgotten("window") /\ UNCHANGED pc
       \/ rtc.window = now /\ Try("window") /\ pc' = "otamail"
    /\ UNCHANGED <<wake, world>>

OtaMail ==
    /\ pc = "otamail" /\ pc' = "shoot"
    /\ IF wake.mode = "none" /\ rtc.mail["ota"].due
       THEN rtc' = [rtc EXCEPT !.mail["ota"].due = FALSE] /\ UNCHANGED seen
       ELSE Try("ota")
    /\ UNCHANGED <<wake, world>>

(* initCameraPipeline and capturePhoto, by day or on command: a failure    *)
(* counts, a success ends the series                                       *)
Shoot ==
    /\ pc = "shoot"
    /\ \/ ~world.day /\ pc' = "end" /\ UNCHANGED <<rtc, seen>>
       \/ /\ rtc' = [rtc EXCEPT !.streak = 0, !.mail["camera"] = NoMail]
          /\ seen' = Forgotten("camera") /\ pc' = "alert"
       \/ /\ rtc' = [(IF rtc.streak + 1 = Threshold THEN Arm("camera", rtc) ELSE rtc)
                      EXCEPT !.streak = Up(@, Threshold)]
          /\ pc' = "alert" /\ UNCHANGED seen
    /\ UNCHANGED <<wake, world>>

(* trySendCameraFailureMail *)
Alert == /\ pc = "alert" /\ pc' = "end"
         /\ Try("camera")
         /\ UNCHANGED <<wake, world>>

-----------------------------------------------------------------------------
(* The deep sleep, accumulateOtaPeriodicElapsedFromSleep *)
DeepSleep == /\ pc = "end" /\ pc' = "off"
             /\ rtc' = [rtc EXCEPT !.elapsed = Up(@, Interval)]
             /\ wake' = Wake0
             /\ seen' = [seen EXCEPT !.checked = FALSE]
             /\ UNCHANGED world

(* any other reset, a commanded one included *)
Reset == /\ pc # "off" /\ world.resets < MaxResets
         /\ world' = [world EXCEPT !.resets = @ + 1]
         /\ rtc' = Rtc0 /\ wake' = Wake0
         /\ seen' = [told |-> [k \in Kinds |-> Told0], checked |-> FALSE]
         /\ pc' = "off"

World ==
    /\ pc = "off"
    /\ \/ world' = [world EXCEPT !.day = ~@] \/ world' = [world EXCEPT !.net = ~@]
    /\ UNCHANGED <<pc, rtc, wake, seen>>

Step == \/ Connect \/ Remote \/ Ota \/ Window \/ OtaMail \/ Shoot \/ Alert \/ DeepSleep
Next == Step \/ Reset \/ World
Spec == Init /\ [][Next]_wvars /\ WF_wvars(Step)

-----------------------------------------------------------------------------

(* One transition, one failed update, one series of camera failures: the   *)
(* server takes its mail once, in at most Tries sessions, whatever the     *)
(* sessions end in ("un mail par reveil sur faux negatif SMTP").           *)
MailOnce == \A k \in Kinds : /\ seen.told[k].accepted <= 1
                             /\ seen.told[k].sessions <= Tries

(* A board that is connected again and again checks for an update again    *)
(* and again, even when the interval always ends out of reach of the       *)
(* network.                                                                *)
OtaChecked == []<>(pc = "remote" /\ wake.wifi) => []<>seen.checked
=============================================================================
