------------------------------ MODULE Aquarium ------------------------------
(***************************************************************************)
(* Parts of the aquarium board (ffp5cs) checked in one run: its settings   *)
(* (Settings), its sensors (Sensors), its alerts and mails (Alerts).  What *)
(* each takes from the others, a level or the network, changes freely in   *)
(* its module, which allows more than the others do: a behaviour follows   *)
(* one part and leaves the others as they start.                           *)
(***************************************************************************)
EXTENDS Settings

CONSTANTS QueueSize, Budget, Debounce, Stable, Cooldown, MaxMoves, MaxFails \* Alerts

ASSUME AlertAssumption == {Debounce, Stable, Cooldown} \subseteq Nat

VARIABLES part,
          kind, world, mgr, last, hist, shown, sLeft,                       \* Sensors
          level, net, grace, latch, flood, mailer, turn, bound, told \* Alerts

Sense == INSTANCE Sensors
    WITH left <- sLeft, MaxFails <- 2, Wins <- 3, Interval <- 2, HistSize <- 3,
         Levels <- {1, 4, 6}, MaxMoves <- 2
Alert == INSTANCE Alerts
senseVars == <<kind, world, mgr, last, hist, shown, sLeft>>
alertVars == <<level, net, grace, latch, flood, mailer, turn, bound, told>>
avars == <<part, svars, senseVars, alertVars>>

(* Of the parts that are left alone, one initial state is enough. *)
AInit ==
    /\ part \in {"settings", "sense", "alert"}
    /\ Init /\ Sense!Init /\ Alert!Init
    /\ part = "settings" \/ flash.old["json"] = None
    /\ part = "sense" \/ (kind = "aqua" /\ world = [level |-> 1, sensor |-> "works"])

ANext ==
    /\ UNCHANGED part
    /\ \/ part = "settings" /\ Next /\ UNCHANGED <<senseVars, alertVars>>
       \/ part = "sense" /\ Sense!Next /\ UNCHANGED <<svars, alertVars>>
       \/ part = "alert" /\ Alert!Next /\ UNCHANGED <<svars, senseVars>>

(* The fairness of each part. *)
In(p, A) == part = p /\ A
AFairness ==
    /\ WF_svars(In("settings", Steps)) /\ SF_svars(In("settings", PollGot))
    /\ WF_senseVars(In("sense", Sense!Pass))
    /\ WF_alertVars(In("alert", Alert!Update \/ Alert!Mail)) /\ WF_alertVars(In("alert", Alert!Tick))

ASpec == AInit /\ [][ANext]_avars /\ AFairness
-----------------------------------------------------------------------------
(* The controller ends with the server's settings (config.cpp,             *)
(* automatism_sync.cpp).                                                   *)
SettingsSettle == part = "settings" => Settles

(* What is shown follows a sensor that works for good, and one that is     *)
(* gone for good is disabled for good (sensor_*.cpp).                      *)
SensorsFollow == part = "sense" => Sense!Follows /\ Sense!GoneIsDisabled

(* A latch stands for a mail that was or will be delivered, a level that   *)
(* stays low is told, and overfull mails are a cooldown apart              *)
(* (automatism_display.cpp, mailer_queue.cpp).                             *)
AlertsTold ==
    /\ [](part = "alert" => Alert!LatchIsTold)
    /\ Alert!FloodSpaced
    /\ part = "alert" => Alert!LowIsTold
=============================================================================
