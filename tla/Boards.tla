------------------------------- MODULE Boards -------------------------------
(***************************************************************************)
(* The boards that sleep deeply and what they share, checked in one run:   *)
(* the greenhouse node (Node, NodeAlerts), the camera (CameraQueue,        *)
(* CameraWake), the solar tracker (Tracker), and the libraries of the log  *)
(* of events (EventLog) and of the updates (LibOta).  They are different   *)
(* boards, or share no variable: a behaviour follows one of them and       *)
(* leaves the others as they start.                                        *)
(***************************************************************************)
EXTENDS Node

CONSTANTS MailBudget, ReportEvery,                        \* NodeAlerts
          Capacity, Fit, MaxEvents,                       \* EventLog
          MaxPhotos, MaxFaults, PerWake, Rejects,         \* CameraQueue
          Threshold, Tries,                               \* CameraWake
          Top, StepDeg, Limit, MaxSteps, Suns,            \* Tracker
          Versions, Mute, Chunks, MaxDrops, MaxOrders,    \* LibOta
          Interval, SafeAfter, MaxResets                  \* of several

ASSUME BoardsAssumption ==
    /\ {MailBudget, ReportEvery, Fit, MaxEvents, Tries, MaxResets} \subseteq Nat
    /\ {Capacity, SafeAfter, Interval, Threshold} \subseteq Nat \ {0}
    /\ {MaxPhotos, PerWake} \subseteq Nat

(* The tracker's bound of its steps lets it cross its whole range           *)
(* (msp_sensors.cpp:37).                                                    *)
ASSUME TrackerAssumption ==
    /\ {Top, StepDeg, Limit, MaxSteps} \subseteq Nat \ {0} /\ Suns \subseteq 0..Top
    /\ MaxSteps * StepDeg >= Top

VARIABLES part,
          nv, wake, told,                                          \* NodeAlerts
          slots, head, nextSeq, logNvs, logFails, up, report, logSeen, \* EventLog
          qPc, qNvs, card, cur, todo, rej, env, qSeen,             \* CameraQueue
          wPc, wRtc, wWake, wWorld, wSeen,                         \* CameraWake
          tRtc, tRam, axis, tServer, tWorld, tSeen,                \* Tracker
          slot, boot, run, pub, st, dl, oRtc, oFails, safe, forced, net \* LibOta

Alert == INSTANCE NodeAlerts
Log == INSTANCE EventLog WITH nvs <- logNvs, fails <- logFails, seen <- logSeen
Queue == INSTANCE CameraQueue WITH pc <- qPc, nvs <- qNvs, seen <- qSeen
Camera == INSTANCE CameraWake
    WITH pc <- wPc, rtc <- wRtc, wake <- wWake, world <- wWorld, seen <- wSeen
Panel == INSTANCE Tracker
    WITH rtc <- tRtc, ram <- tRam, server <- tServer, world <- tWorld, seen <- tSeen
Image == INSTANCE LibOta WITH rtc <- oRtc, fails <- oFails

alertVars == <<nv, wake, told>>
logVars == <<slots, head, nextSeq, logNvs, logFails, up, report, logSeen>>
queueVars == <<qPc, qNvs, card, cur, todo, rej, env, qSeen>>
cameraVars == <<wPc, wRtc, wWake, wWorld, wSeen>>
panelVars == <<tRtc, tRam, axis, tServer, tWorld, tSeen>>
imageVars == <<slot, boot, run, pub, st, dl, oRtc, oFails, safe, forced, net>>
bvars == <<part, nvars, alertVars, logVars, queueVars, cameraVars, panelVars, imageVars>>

(* Of the parts that are left alone, one initial state is enough. *)
BInit ==
    /\ part \in {"node", "alert", "log", "queue", "camera", "panel", "image"}
    /\ Init /\ Alert!Init /\ Log!Init /\ Queue!Init /\ Camera!Init /\ Panel!Init /\ Image!Init
    /\ part = "node" \/ ~server.awake
    /\ part = "queue" \/ (qNvs.cursor = 0 /\ card = {} /\ ~env.net /\ ~env.sd /\ env.bad = {})
    /\ part = "panel" \/ (tServer.mode = "track" /\ tServer.awake
                          /\ tWorld.sun = 1 /\ tWorld.mount = 1)

BNext ==
    /\ UNCHANGED part
    /\ \/ part = "node" /\ Next
       \/ part # "node" /\ UNCHANGED nvars
    /\ \/ part = "alert" /\ Alert!Next
       \/ part # "alert" /\ UNCHANGED alertVars
    /\ \/ part = "log" /\ Log!Next
       \/ part # "log" /\ UNCHANGED logVars
    /\ \/ part = "queue" /\ Queue!Next
       \/ part # "queue" /\ UNCHANGED queueVars
    /\ \/ part = "camera" /\ Camera!Next
       \/ part # "camera" /\ UNCHANGED cameraVars
    /\ \/ part = "panel" /\ Panel!Next
       \/ part # "panel" /\ UNCHANGED panelVars
    /\ \/ part = "image" /\ Image!Next
       \/ part # "image" /\ UNCHANGED imageVars

(* The fairness of each part: the steps of its setup() and of its loop go  *)
(* on, and a contact that is possible again and again is made.             *)
BFairness ==
    /\ WF_queueVars(part = "queue" /\ Queue!Setup)
    /\ WF_cameraVars(part = "camera" /\ Camera!Step)
    /\ WF_panelVars(part = "panel" /\ Panel!Step)
    /\ WF_imageVars(part = "image" /\ Image!Own)
    /\ SF_imageVars(part = "image" /\ Image!Contact)

BSpec == BInit /\ [][BNext]_bvars /\ BFairness
-----------------------------------------------------------------------------
(* The pump waters as it was meant to, whatever wakes, resets and lost     *)
(* posts come between: dry soil no sooner than the cooldown, the hour's    *)
(* dose once, a command once, and a reset command does not restart the     *)
(* board in a loop (n3pp_automation.cpp).                                  *)
DosesAsMeant == AutoSpaced /\ OneDosePerCommand /\ ScheduledOnce /\ NoRebootLoop

(* An outage has its budget of mails, a low battery one mail, and an event *)
(* of the camera one mail (n3pp_automation.cpp, the camera's main.cpp).    *)
MailsAsMeant ==
    /\ part = "alert" => Alert!OutageBudget /\ Alert!LowMailedOnce
    /\ part = "camera" => Camera!MailOnce

(* Numbers name one event, what waits is in flash, and the safe mode comes *)
(* after the failed wakes it is meant for (n3_event_ring.h, contact_diag). *)
LogExact == part = "log" => Log!SeqUnique /\ Log!PendingSaved /\ Log!SafeModeExact

(* A photo enters the queue and stays in it until it is sent or given up  *)
(* (camera_sync.cpp).                                                      *)
PhotosKept == Queue!BornPending /\ Queue!KeptWhileMounted

(* And the queue empties.                                                  *)
PhotosServed ==
    /\ [](part = "queue" => PhotosKept)
    /\ part = "queue" => Queue!BacklogDrains

(* The camera asks for an update again and again (n3_ota_ui).              *)
UpdatesAsked == part = "camera" => Camera!OtaChecked

(* The panel stops before it turns away from the sun for good, and a       *)
(* calibration is done once (msp_sensors.cpp).                             *)
PanelKept == Panel!PanelStops /\ Panel!CalibratedOnce

(* And a calibration is done in the end.                                   *)
PanelServes ==
    /\ [](part = "panel" => PanelKept)
    /\ part = "panel" => Panel!CalibrationServed

(* The board always has a whole image to start (n3_ota.cpp).               *)
ImageWhole == Image!BootsWhole

(* And it ends on the published one.                                       *)
ImageServes ==
    /\ [](part = "image" => ImageWhole)
    /\ part = "image" => Image!Updated
=============================================================================
