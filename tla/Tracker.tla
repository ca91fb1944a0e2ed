------------------------------ MODULE Tracker ------------------------------
(***************************************************************************)
(* The solar tracker of the weather station (msp): at each wake-up it      *)
(* reads its settings, calibrates its light sensors when the server asked  *)
(* for it and there is light, and turns the panel to the sun, one axis     *)
(* here.  RAM is lost in the deep sleep; RTC memory is kept there and lost *)
(* in every other reset.  A callback is one action, but for the tracking,  *)
(* whose steps are one action each.  (msp: main.cpp, msp_sensors.cpp,      *)
(* msp_network.cpp, msp_automation.cpp; n3_tracker.cpp)                    *)
(***************************************************************************)
EXTENDS Integers

CONSTANTS Top,        \* maxAngle, minAngle being 0
          StepDeg,    \* DIFF_STEP_DEG
          Limit,      \* DIVERGE_LIMIT
          MaxSteps,   \* DIFF_MAX_STEPS
          Suns,       \* where the sun may be
          MaxResets   \* bound of the resets

VARIABLES rtc,     \* RTC memory: edge, last, pending, angle
          ram,     \* the wake-up: step, cmd, mode, awake, angle
          axis,    \* DiffAxis: dir, mag, count, steps
          server,  \* the outputs 106 (awake), 111 and 113 (mode), 114 (cmd)
          world,   \* the sun, the light, how the sensors are mounted, resets
          seen     \* ghost: see Seen0
tvars == <<rtc, ram, axis, server, world, seen>>

Abs(n) == IF n < 0 THEN -n ELSE n
clampAngle(a) == IF a < 0 THEN 0 ELSE IF a > Top THEN Top ELSE a

Modes == {"track", "sweep", "manual"}   \* servoModeAuto, trackerModeSweep

\* edge: s_calibEdgeInitialized, last: s_lastCalibCommand
Rtc0 == [edge |-> FALSE, last |-> 0, pending |-> FALSE, angle |-> -1]
Ram0 == [step |-> "asleep", cmd |-> 0, mode |-> "track", awake |-> FALSE,
         angle |-> 0]
Axis0 == [dir |-> 0, mag |-> -1, count |-> 0, steps |-> 0]

(* asked: a calibration was asked for and not done; credit: calibrations   *)
(* the commands allow, one more after a GET that failed took the command   *)
(* for another; from: where the tracking started; clear: its readings were *)
(* of the sun; tracked: it was differential                                *)
Seen0 == [asked |-> FALSE, credit |-> 0, from |-> 0, clear |-> TRUE, tracked |-> FALSE]

Init == /\ rtc = Rtc0 /\ ram = Ram0 /\ axis = Axis0 /\ seen = Seen0
        /\ server \in [cmd : {0}, mode : Modes, awake : BOOLEAN]
        /\ world \in [sun : Suns, light : {TRUE}, mount : {1, -1}, resets : {0}]
        /\ server.awake <=> world.mount = 1 /\ server.mode # "sweep"

\* variablestoesp: a GET that fails leaves the RAM as it is
Fetched == {ram, [ram EXCEPT !.cmd = server.cmd, !.mode = server.mode,
                             !.awake = server.awake]}
Credited == IF seen.credit < 2 THEN seen.credit + 1 ELSE 2

\* sweepAxis: the angle of the peaks, or none and it stays
Swept == {world.sun, ram.angle}

-----------------------------------------------------------------------------
(* setup(): the panel where the RTC memory says, in the middle without it *)
Setup(r) ==
    LET angle == IF r.angle \in 0..Top THEN r.angle ELSE Top \div 2
    IN  /\ rtc' = r
        /\ \E m \in Fetched : ram' = [m EXCEPT !.step = "config", !.angle = angle]

Wake == /\ ram.step = "asleep" /\ Setup(rtc)
        /\ UNCHANGED <<axis, server, world, seen>>

(* mspCbApplyRemoteConfig, but for the reset it may end in *)
ApplyRemoteConfig ==
    /\ ram.step = "config"
    /\ \E m \in Fetched :
          /\ ram' = [m EXCEPT !.step = "calib"]
          /\ seen' = [seen EXCEPT !.credit = IF m.cmd = server.cmd THEN @ ELSE Credited]
    /\ UNCHANGED <<rtc, axis, server, world>>

\* Mutant: the command of the last calibration is not remembered.
CommandedAnew(r, cmd) ==
    IF ~r.edge THEN [r EXCEPT !.edge = TRUE, !.last = cmd]
    ELSE IF cmd = 1 THEN [r EXCEPT !.pending = TRUE] ELSE r

(* the command 114: a change counts, the first one after a reset does not *)
Commanded(r, cmd) ==
    IF ~r.edge THEN [r EXCEPT !.edge = TRUE, !.last = cmd]
    ELSE IF cmd = r.last THEN r
    ELSE [r EXCEPT !.last = cmd,
                   !.pending = IF cmd = 0 THEN @ ELSE cmd = 1]

(* mspCbReadSensors up to LectureCapteurs, mspTrackerCalibrate: it waits   *)
(* for the light; a reference that cannot be used ends the request too;    *)
(* both sweeps leave the panel somewhere                                   *)
Calibrate ==
    /\ ram.step = "calib"
    /\ LET r == Commanded(rtc, ram.cmd)
           asked == r.pending /\ (~rtc.pending \/ seen.asked)
       IN  IF r.pending /\ world.light
           THEN \E a \in Swept :
                   /\ rtc' = [r EXCEPT !.pending = FALSE, !.angle = a]
                   /\ ram' = [ram EXCEPT !.step = "light", !.angle = a]
                   /\ seen' = [seen EXCEPT !.asked = FALSE,
                                           !.credit = IF @ >= 0 THEN @ - 1 ELSE @]
           ELSE /\ rtc' = r /\ ram' = [ram EXCEPT !.step = "light"]
                /\ seen' = [seen EXCEPT
                      !.asked = asked \/ (@ /\ ram.cmd # 2),
                      !.credit = IF r.pending \/ r.last # server.cmd THEN @ ELSE 0]
    /\ UNCHANGED <<axis, server, world>>

(* Light_val *)
Light ==
    /\ ram.step = "light"
    /\ seen' = [seen EXCEPT !.from = ram.angle, !.clear = TRUE,
                            !.tracked = ram.mode = "track" /\ world.light]
    /\ axis' = Axis0
    /\ IF ram.mode = "manual"
       THEN \E target \in {0, Top + 1} :
               /\ ram' = [ram EXCEPT !.angle = clampAngle(target), !.step = "sleep"]
               /\ rtc' = [rtc EXCEPT !.angle = clampAngle(target)]
       ELSE IF ~world.light
       THEN ram' = [ram EXCEPT !.step = "sleep"] /\ UNCHANGED rtc
       ELSE IF ram.mode = "sweep"
       THEN \E a \in Swept :
               /\ ram' = [ram EXCEPT !.angle = a, !.step = "sleep"]
               /\ rtc' = [rtc EXCEPT !.angle = a]
       ELSE ram' = [ram EXCEPT !.step = "track"] /\ UNCHANGED rtc
    /\ UNCHANGED <<server, world>>

-----------------------------------------------------------------------------
(* diffTrackAxis, one turn.  The readings differ by the distance to the    *)
(* sun, or by anything when a cloud passes.                                *)

(* how many times the gap grew, one after the other *)
Diverges(mag) == IF axis.mag >= 0 /\ mag > axis.mag THEN axis.count + 1 ELSE 0

Stop == /\ ram' = [ram EXCEPT !.step = "sleep"]
        /\ rtc' = [rtc EXCEPT !.angle = ram.angle] /\ axis' = Axis0

(* DiffAxis::step *)
Turn(error) ==
    LET dir == IF error > 0 THEN 1 ELSE -1
        count == IF axis.dir = dir THEN Diverges(Abs(error)) ELSE axis.count
        next == clampAngle(ram.angle + dir * StepDeg)
    IN  IF \/ error = 0 \/ axis.dir = -dir \/ count = Limit
           \/ next = ram.angle \/ axis.steps = MaxSteps
        THEN Stop
        ELSE /\ ram' = [ram EXCEPT !.angle = next]
             /\ axis' = [dir |-> dir, mag |-> Abs(error), count |-> count,
                         steps |-> axis.steps + 1]
             /\ UNCHANGED rtc

Track ==
    /\ ram.step = "track"
    /\ \/ Turn(world.mount * (world.sun - ram.angle)) /\ UNCHANGED seen
       \/ \E error \in {-1, 0, 1} : /\ Turn(error)
                                    /\ seen' = [seen EXCEPT !.clear = FALSE]
    /\ UNCHANGED <<server, world>>

-----------------------------------------------------------------------------
(* sommeil; an awake board turns again *)
Sommeil ==
    /\ ram.step = "sleep"
    /\ ram' = IF ram.awake THEN [ram EXCEPT !.step = "config"] ELSE Ram0
    /\ seen' = [Seen0 EXCEPT !.asked = seen.asked, !.credit = seen.credit]
    /\ UNCHANGED <<rtc, axis, server, world>>

(* the power, the watchdog, the server's command 110 *)
Reset == /\ world.resets < MaxResets
         /\ world' = [world EXCEPT !.resets = @ + 1]
         /\ Setup(Rtc0) /\ axis' = Axis0 /\ seen' = Seen0
         /\ UNCHANGED server

Ask == /\ \E cmd \in 0..2 \ {server.cmd} : server' = [server EXCEPT !.cmd = cmd]
       /\ seen' = [seen EXCEPT !.credit = Credited]
       /\ UNCHANGED <<rtc, ram, axis, world>>

(* the day *)
Sky == /\ ram.step \in {"asleep", "config"}
       /\ \E sun \in Suns, light \in BOOLEAN :
             world' = [world EXCEPT !.sun = sun, !.light = light]
       /\ UNCHANGED <<rtc, ram, axis, server, seen>>

Step == Wake \/ ApplyRemoteConfig \/ Calibrate \/ Light \/ Track \/ Sommeil
Next == Step \/ Reset \/ Ask \/ Sky
Spec == Init /\ [][Next]_tvars /\ WF_tvars(Step)

-----------------------------------------------------------------------------
(* With the readings of the sun the panel stops next to it; mounted the    *)
(* wrong way round, it flees no more than DIVERGE_LIMIT steps in a wake-up *)
(* ("stop defensif").                                                      *)
PanelStops ==
    ram.step = "sleep" /\ seen.tracked /\ seen.clear =>
       IF world.mount = 1
       THEN Abs(ram.angle - world.sun) < StepDeg
       ELSE Abs(ram.angle - seen.from) <= Limit * StepDeg

(* One command, one calibration, unless a GET that failed took it for      *)
(* another ("pour relancer une calibration, repasser la cle a 0 puis a 1").*)
CalibratedOnce == seen.credit >= 0

(* A calibration asked for by night is done by day, whatever the sleeps in *)
(* between ("retentee au reveil suivant").                                 *)
CalibrationServed ==
    []<>(ram.step = "calib" /\ world.light) => (seen.asked ~> ~seen.asked)
=============================================================================
