-------------------------------- MODULE Refill --------------------------------
(***************************************************************************)
(* The refill controller of the ffp5cs firmware: the tank pump, its lock,  *)
(* and Automatism::handleRefill, whose sub-functions autoTask runs in a    *)
(* fixed order once a cycle, followed by the alerts and the sleep decision.*)
(* The web task starts and stops the pump by hand between any two of them. *)
(*                                                                         *)
(* Levels are ultrasonic distances: a large one means little water, 0 an   *)
(* unknown level.  A tick is one automation cycle; the clock wraps around. *)
(***************************************************************************)
EXTENDS Naturals

CONSTANTS
    AquaLevels, LimFlood, AqThreshold,  \* readings and thresholds of the aquarium
    TankLevels, TankLow, TankOk, TankRecover,  \* of the tank; OK is 5 cm below
                                        \* the low threshold, recover is 10 cm
    MaxRetries,        \* MAX_PUMP_RETRIES (5)
    Duration,          \* refillDurationMs
    Anomaly,           \* DEFAULT_ANOMALY_MS (50 min)
    RecoveryDebounce,  \* 30 s
    SleepTicks,        \* getFreqWakeSec
    ClockMod,          \* millis() wraps at 2^32
    MaxManual          \* bound: how many commands web page and server give

ASSUME ThresholdAssumption ==
    /\ AquaLevels \subseteq Nat /\ TankLevels \subseteq Nat
    /\ {LimFlood, AqThreshold, TankLow, TankOk, TankRecover} \subseteq Nat
    /\ TankRecover <= TankOk /\ TankOk <= TankLow
ASSUME TimeAssumption ==
    /\ 0 < Duration /\ Duration <= Anomaly /\ Anomaly < ClockMod
    /\ Duration + SleepTicks < ClockMod
    /\ RecoveryDebounce \in Nat /\ SleepTicks \in Nat \ {0} /\ ClockMod \in Nat
    /\ {Duration, Anomaly} \subseteq Nat
ASSUME CountAssumption == MaxRetries \in Nat \ {0} /\ MaxManual \in Nat

Unset == ClockMod                \* a time stamp of 0

VARIABLES
    now,           \* millis()
    aqua, tank,    \* the readings of this cycle
    inFlood,       \* the flood alert is on
    pump,          \* the relay
    locked, reason, retries,  \* tankPumpLocked, _tankPumpLockReason, tankPumpRetries
    manual,        \* _manualTankOverride
    countdown,     \* _countdownEnd
    pumpStart,     \* _pumpStartMs
    levelAtStart,  \* _levelAtPumpStart
    above, below,  \* ReservoirLowSecurity::State
    lastRecovery,  \* _lastRecoveryAttemptMs
    lastTankState, \* s_lastTankState: the last pump command of the server
    stage,         \* where autoTask is in its cycle
    web, webNow,   \* where a web command is, and the time it started at
    commands,      \* commands given so far (bounded by MaxManual)
    ran, dry,      \* history: ticks the pump has run; cycles it ran dry
    raced          \* history: the controller acted inside a web command

lock == <<locked, reason, retries>>
timers == <<manual, countdown, pumpStart, levelAtStart>>
counts == <<above, below>>
command == <<lastTankState, web, webNow, commands>>
world == <<now, aqua, tank>>
vars == <<now, aqua, tank, inFlood, pump, locked, reason, retries, manual,
          countdown, pumpStart, levelAtStart, above, below, lastRecovery,
          lastTankState, stage, web, webNow, commands, ran, dry, raced>>

Init ==
    /\ now = 0 /\ aqua = 0 /\ tank = 0 /\ inFlood = FALSE
    /\ pump = FALSE
    /\ locked = FALSE /\ reason = "NONE" /\ retries = 0
    /\ manual = FALSE /\ countdown = Unset /\ pumpStart = Unset /\ levelAtStart = 0
    /\ above = 0 /\ below = 0 /\ lastRecovery = 0
    /\ lastTankState = FALSE
    /\ stage = "idle"
    /\ web = "idle" /\ webNow = 0 /\ commands = 0
    /\ ran = 0 /\ dry = 0 /\ raced = FALSE

KnownAqua == aqua # 0
Later(t, d) == (t + d) % ClockMod

(* Mutant: a saturated subtraction instead of the modular one.              *)
SinceSaturated(t) == IF t = Unset THEN now ELSE IF now < t THEN 0 ELSE now - t

(* Mutant: without a time stamp nothing has elapsed.                        *)
SinceGuarded(t) == IF t = Unset THEN 0 ELSE (now + ClockMod - t) % ClockMod

(* Milliseconds elapsed, modulo the width of the clock; a stamp of 0 is as  *)
(* old as the clock.                                                        *)
Since(t) == IF t = Unset THEN now ELSE (now + ClockMod - t) % ClockMod
Improvement == IF levelAtStart > 0 THEN levelAtStart > aqua ELSE FALSE

(* A web command is between two of its stores while the controller acts.    *)
Racing == raced \/ web # "idle"

-------------------------------------------------------------------------------
(* Manual commands.                                                         *)

StartStamps(t) ==
    /\ manual' = TRUE
    /\ countdown' = Later(t, Duration) /\ pumpStart' = t
    /\ levelAtStart' = IF KnownAqua THEN aqua ELSE 0

ClearStamps ==
    /\ manual' = FALSE /\ countdown' = Unset /\ pumpStart' = Unset
    /\ UNCHANGED levelAtStart

(* The relay button of the web page: it starts a pump that is off and       *)
(* unlocked and stops one that runs.  The task that runs the handler may    *)
(* lose the processor between any two of these.                             *)
WebCommand ==
    /\ web = "idle" /\ commands < MaxManual
    /\ commands' = commands + 1
    /\ IF pump
       THEN web' = "clear" /\ pump' = FALSE /\ UNCHANGED webNow
       ELSE ~locked /\ web' = "switch" /\ webNow' = now /\ UNCHANGED pump
    /\ UNCHANGED <<world, inFlood, lock, timers, counts, lastRecovery,
                   lastTankState, stage, ran, dry, raced>>

WebSwitch ==
    /\ web = "switch"
    /\ pump' = TRUE /\ web' = "stamp" /\ ran' = 0
    /\ UNCHANGED <<world, inFlood, lock, timers, counts, lastRecovery,
                   lastTankState, stage, webNow, commands, dry, raced>>

WebStamp ==
    /\ web = "stamp"
    /\ StartStamps(webNow)
    /\ web' = "idle" /\ webNow' = 0
    /\ UNCHANGED <<world, inFlood, pump, lock, counts, lastRecovery,
                   lastTankState, stage, commands, ran, dry, raced>>

WebClear ==
    /\ web = "clear"
    /\ ClearStamps
    /\ web' = "idle"
    /\ UNCHANGED <<world, inFlood, pump, lock, counts, lastRecovery,
                   lastTankState, stage, webNow, commands, ran, dry, raced>>

-------------------------------------------------------------------------------
(* The automation cycle.                                                    *)

(* New readings, one tick after the last cycle.  A web command may meet any *)
(* steps of the cycle it began in, and its sleep, but not the next cycle.   *)
CycleStart(a, t) ==
    /\ stage = "idle" /\ web = "idle"
    /\ now' = Later(now, 1) /\ aqua' = a /\ tank' = t
    /\ ran' = IF pump THEN ran + 1 ELSE 0
    /\ stage' = "poll"
    /\ UNCHANGED <<inFlood, pump, lock, timers, counts, lastRecovery, command,
                   dry, raced>>

(* The server's pump command acts on its edges; a rising edge that meets a  *)
(* locked or running pump is used up without effect.                        *)
Poll ==
    /\ stage = "poll"
    /\ stage' = "overfill"
    /\ UNCHANGED <<pump, timers, command, raced>>
    /\ UNCHANGED <<world, inFlood, lock, counts, lastRecovery, ran, dry>>

PollCommand ==
    /\ stage = "poll" /\ commands < MaxManual
    /\ commands' = commands + 1
    /\ lastTankState' = ~lastTankState
    /\ IF lastTankState
       THEN pump' = FALSE /\ ClearStamps /\ raced' = Racing /\ UNCHANGED ran
       ELSE IF locked \/ pump
            THEN UNCHANGED <<pump, timers, ran, raced>>
            ELSE pump' = TRUE /\ StartStamps(now) /\ ran' = 0 /\ raced' = Racing
    /\ stage' = "overfill"
    /\ UNCHANGED <<world, inFlood, lock, counts, lastRecovery, web, webNow, dry>>

Lock(why) == locked' = TRUE /\ reason' = why

Unlock == locked' = FALSE /\ reason' = "NONE"

(* handleRefillAquariumOverfillSecurity.                                    *)
OverfillLocked == locked /\ reason = "AQUARIUM_OVERFILL"
OverfillSecurity ==
    /\ stage = "overfill" /\ stage' = "mode"
    /\ IF KnownAqua /\ aqua < LimFlood /\ ~OverfillLocked
       THEN /\ Lock("AQUARIUM_OVERFILL")
            /\ pump' = FALSE
            /\ countdown' = IF pump THEN Unset ELSE countdown
            /\ raced' = Racing
       ELSE /\ IF KnownAqua /\ aqua >= LimFlood /\ OverfillLocked /\ ~inFlood
               THEN Unlock ELSE UNCHANGED <<locked, reason>>
            /\ UNCHANGED <<pump, countdown, raced>>
    /\ UNCHANGED <<world, inFlood, retries, manual, pumpStart, levelAtStart,
                   counts, lastRecovery, command, ran, dry>>

(* handleRefillManualModeCheck.                                             *)
ManualModeCheck ==
    /\ stage = "mode" /\ stage' = "start"
    /\ IF ~pump /\ manual THEN ClearStamps ELSE UNCHANGED timers
    /\ UNCHANGED <<world, inFlood, pump, lock, counts, lastRecovery, command,
                   ran, dry, raced>>

(* handleRefillAutomaticStart: a tank that is too low locks the pump and    *)
(* ends handleRefill.                                                       *)
WantsRefill == /\ KnownAqua /\ aqua > AqThreshold
               /\ ~locked /\ retries < MaxRetries /\ ~manual /\ ~pump

AutomaticStart ==
    /\ stage = "start" /\ WantsRefill
    /\ raced' = Racing
    /\ IF tank > TankLow
       THEN /\ Lock("RESERVOIR_LOW") /\ countdown' = Unset
            /\ stage' = "alerts"
            /\ UNCHANGED <<pump, pumpStart, levelAtStart, ran>>
       ELSE /\ pump' = TRUE /\ ran' = 0
            /\ countdown' = Later(now, Duration) /\ pumpStart' = now
            /\ levelAtStart' = aqua
            /\ stage' = "manualEnd"
            /\ UNCHANGED <<locked, reason>>
    /\ UNCHANGED <<world, inFlood, retries, manual, counts, lastRecovery,
                   command, dry>>

NoStart ==
    /\ stage = "start" /\ ~WantsRefill
    /\ stage' = "manualEnd"
    /\ UNCHANGED <<world, inFlood, pump, lock, timers, counts, lastRecovery,
                   command, ran, dry, raced>>

(* handleRefillManualCycleEnd: the one comparison of clock values that does *)
(* not allow for their wrap-around.                                         *)
ManualCycleEnd ==
    /\ stage = "manualEnd" /\ stage' = "maxDuration"
    /\ IF manual /\ pump /\ countdown # Unset /\ now >= countdown
       THEN pump' = FALSE /\ ClearStamps /\ raced' = Racing
       ELSE UNCHANGED <<pump, timers, raced>>
    /\ UNCHANGED <<world, inFlood, lock, counts, lastRecovery, command, ran, dry>>

(* handleRefillMaxDurationStop: an implausible time restarts the count;     *)
(* after a stop a cycle that did not raise the level counts as a retry, and *)
(* the last one locks the pump.                                             *)
MaxDurationStop ==
    /\ stage = "maxDuration" /\ stage' = "reservoir"
    /\ IF pump /\ Since(pumpStart) > Anomaly
       THEN /\ pumpStart' = now
            /\ UNCHANGED <<pump, lock, manual, countdown, levelAtStart, raced>>
       ELSE IF pump /\ Since(pumpStart) >= Duration
       THEN /\ pump' = FALSE /\ ClearStamps /\ raced' = Racing
            /\ IF ~KnownAqua THEN UNCHANGED lock
               ELSE IF Improvement THEN retries' = 0 /\ UNCHANGED <<locked, reason>>
               ELSE /\ retries' = retries + 1
                    /\ IF retries + 1 >= MaxRetries
                       THEN Lock("INEFFICIENT") ELSE UNCHANGED <<locked, reason>>
       ELSE UNCHANGED <<pump, lock, timers, raced>>
    /\ UNCHANGED <<world, inFlood, counts, lastRecovery, command, ran, dry>>

Counted(n) == IF n < 3 THEN n + 1 ELSE 3
Capped(n) == IF n > 2 THEN 2 ELSE n

(* Mutant: one low reading more is needed.                                  *)
ReservoirLocksLate == tank > TankLow /\ ~locked /\ above >= 2

(* Mutant: more good readings are needed than are counted.                  *)
ReservoirUnlocksLate == tank < TankOk /\ locked /\ Counted(below) > 3

(* ReservoirLowSecurity::evaluate: two low readings in a row lock, three    *)
(* good ones unlock.                                                        *)
ReservoirLocks == tank > TankLow /\ ~locked /\ Counted(above) >= 2
ReservoirUnlocks == tank < TankOk /\ locked /\ Counted(below) >= 3

(* Mutant: the reservoir security locks without stopping the pump.          *)
ReservoirSecurityKeepingPump ==
    /\ stage = "reservoir" /\ ~manual /\ stage' = "recovery"
    /\ above' = IF tank > TankLow THEN Counted(above)
                ELSE IF tank < TankOk THEN 0 ELSE Capped(above)
    /\ below' = IF tank > TankLow THEN 0
                ELSE IF tank < TankOk THEN Counted(below) ELSE Capped(below)
    /\ IF ReservoirLocks
       THEN Lock("RESERVOIR_LOW") /\ countdown' = Unset /\ raced' = Racing
       ELSE /\ IF ReservoirUnlocks THEN Unlock ELSE UNCHANGED <<locked, reason>>
            /\ UNCHANGED <<countdown, raced>>
    /\ UNCHANGED <<world, inFlood, pump, retries, manual, pumpStart, levelAtStart,
                   lastRecovery, command, ran, dry>>

(* handleRefillReservoirLowSecurity; it unlocks whatever the reason was.    *)
ReservoirSecurity ==
    /\ stage = "reservoir" /\ ~manual /\ stage' = "recovery"
    /\ above' = IF tank > TankLow THEN Counted(above)
                ELSE IF tank < TankOk THEN 0 ELSE Capped(above)
    /\ below' = IF tank > TankLow THEN 0
                ELSE IF tank < TankOk THEN Counted(below) ELSE Capped(below)
    /\ IF ReservoirLocks
       THEN Lock("RESERVOIR_LOW") /\ pump' = FALSE /\ countdown' = Unset /\ raced' = Racing
       ELSE /\ IF ReservoirUnlocks THEN Unlock ELSE UNCHANGED <<locked, reason>>
            /\ UNCHANGED <<pump, countdown, raced>>
    /\ UNCHANGED <<world, inFlood, retries, manual, pumpStart, levelAtStart,
                   lastRecovery, command, ran, dry>>

ReservoirSkipped ==
    /\ stage = "reservoir" /\ manual /\ stage' = "recovery"
    /\ UNCHANGED <<world, inFlood, pump, lock, timers, counts, lastRecovery,
                   command, ran, dry, raced>>

(* handleRefillAutomaticRecovery.                                           *)
AutomaticRecovery ==
    /\ stage = "recovery" /\ stage' = "alerts"
    /\ IF locked /\ retries >= MaxRetries /\ tank < TankRecover
          /\ Since(lastRecovery) > RecoveryDebounce
       THEN Unlock /\ retries' = 0 /\ lastRecovery' = now
       ELSE UNCHANGED <<lock, lastRecovery>>
    /\ UNCHANGED <<world, inFlood, pump, timers, counts, command, ran, dry, raced>>

(* handleAlerts: the flood alert is raised and cleared from the same        *)
(* reading, late, or not at all.                                            *)
Alerts(flood) ==
    /\ stage = "alerts" /\ stage' = "sleep"
    /\ flood => inFlood \/ (KnownAqua /\ aqua < LimFlood)
    /\ inFlood' = flood
    /\ UNCHANGED <<world, pump, lock, timers, counts, lastRecovery, command,
                   ran, dry, raced>>

DryNow == tank > TankLow /\ pump /\ ~manual /\ web # "stamp"
CycleEnd ==
    /\ stage' = "idle"
    /\ dry' = IF DryNow THEN dry + 1 ELSE 0

StayAwake ==
    /\ stage = "sleep"
    /\ CycleEnd
    /\ UNCHANGED <<world, inFlood, pump, lock, timers, counts, lastRecovery,
                   command, ran, raced>>

(* handleAutoSleep: a running refill, as its start time stamp tells, and a  *)
(* pending countdown keep the board awake.  Light sleep leaves the relay of *)
(* the tank pump as it is.                                                  *)
Pending == countdown # Unset /\ (countdown + ClockMod - now) % ClockMod \in 1 .. ClockMod \div 2
LightSleep ==
    /\ stage = "sleep" /\ pumpStart = Unset /\ ~Pending
    /\ CycleEnd
    /\ now' = Later(now, SleepTicks)
    /\ ran' = IF pump THEN ran + SleepTicks ELSE 0
    /\ raced' = Racing
    /\ UNCHANGED <<aqua, tank, inFlood, pump, lock, timers, counts, lastRecovery,
                   command>>

-------------------------------------------------------------------------------
WebStep == WebSwitch \/ WebStamp \/ WebClear

CycleStep ==
    \/ Poll \/ OverfillSecurity \/ ManualModeCheck \/ AutomaticStart \/ NoStart
    \/ ManualCycleEnd \/ MaxDurationStop \/ ReservoirSecurity \/ ReservoirSkipped
    \/ AutomaticRecovery \/ \E f \in BOOLEAN : Alerts(f)
    \/ StayAwake \/ LightSleep

Cycle == CycleStep \/ \E a \in AquaLevels, t \in TankLevels : CycleStart(a, t)

Next == WebCommand \/ WebStep \/ PollCommand \/ Cycle

Spec == Init /\ [][Next]_vars

(* autoTask runs its cycle for ever, and a web command comes to its end.    *)
FairSpec == Spec /\ WF_vars(Cycle) /\ WF_vars(WebStep)

-------------------------------------------------------------------------------
(* Whoever started it, and across a wrap-around of the clock, a refill ends *)
(* within its duration, and the board does not fall asleep over a running   *)
(* pump; unless the controller acted in the middle of a web command.        *)
RefillEnds == ~raced => ran <= Duration

(* Even then it ends: with its time stamps lost a refill may be slept over, *)
(* but its age is at worst that of the clock.                               *)
EndsAnyway == ran <= 2 * (Duration + SleepTicks + 1)

(* After a cycle a locked pump is off, whichever of the four checks locked  *)
(* it and whatever commands came before.                                    *)
LockStopsPump == ~raced /\ stage = "idle" /\ locked => ~pump

(* An automatic refill does not draw from a low tank for two cycles.        *)
NeverTwiceDry == ~raced => dry < 2

(* Once the levels are good and the flood alert is over, no lock stays on.  *)
Calm == aqua >= LimFlood /\ tank < TankOk /\ ~inFlood
LocksAreReleased == <>[]Calm => []<>~locked

===============================================================================
