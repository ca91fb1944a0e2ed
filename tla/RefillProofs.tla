---------------------------- MODULE RefillProofs ----------------------------
(***************************************************************************)
(* The lock of the tank pump holds, an automatic refill ends, and neither  *)
(* it nor any other run outlives its limit: for every set of readings,     *)
(* thresholds, clock and number of commands.                               *)
(***************************************************************************)
EXTENDS Refill, Integers, TLAPS

(* At every stage of the cycle the relay of a locked pump is off, and a    *)
(* web command that is about to switch it on has seen it unlocked: the     *)
(* controller may only lock it since by acting inside the command.         *)
LockInv == ~raced => /\ locked => ~pump
                     /\ web = "switch" => ~locked

LEMMA LockInit == Init => LockInv
BY DEF Init, LockInv

(* Manual commands test the lock before they switch the relay. *)
LEMMA WebKeepsLock ==
    ASSUME LockInv, WebCommand \/ WebStep
    PROVE  LockInv'
<1>1. CASE WebCommand BY <1>1 DEF LockInv, WebCommand, lock
<1>2. CASE WebSwitch BY <1>2 DEF LockInv, WebSwitch, lock
<1>3. CASE WebStamp BY <1>3 DEF LockInv, WebStamp, lock
<1>4. CASE WebClear BY <1>4 DEF LockInv, WebClear, lock
<1> QED BY <1>1, <1>2, <1>3, <1>4 DEF WebStep

LEMMA PollKeepsLock ==
    ASSUME LockInv, PollCommand
    PROVE  LockInv'
<1>1. UNCHANGED <<locked, web>> BY DEF PollCommand, lock
<1>2. CASE lastTankState
  BY <1>1, <1>2 DEF LockInv, PollCommand, Racing
<1>3. CASE ~lastTankState /\ (locked \/ pump)
  BY <1>1, <1>3 DEF LockInv, PollCommand
<1>4. CASE ~lastTankState /\ ~(locked \/ pump)
  BY <1>1, <1>4 DEF LockInv, PollCommand
<1> QED BY <1>2, <1>3, <1>4

(* A check that locks stops the pump, or starts from one that is off, and  *)
(* notes that it has raced with a web command under way.                   *)
LEMMA CheckKeepsLock ==
    ASSUME LockInv,
           OverfillSecurity \/ AutomaticStart \/ ManualCycleEnd
              \/ MaxDurationStop \/ ReservoirSecurity \/ AutomaticRecovery
    PROVE  LockInv'
<1>1. CASE OverfillSecurity
  BY <1>1 DEF LockInv, OverfillSecurity, Lock, Unlock, Racing, command
<1>2. CASE AutomaticStart
  BY <1>2 DEF LockInv, AutomaticStart, WantsRefill, Lock, Racing, command
<1>3. CASE ManualCycleEnd
  BY <1>3 DEF LockInv, ManualCycleEnd, lock, Racing, command
<1>4. CASE MaxDurationStop
  <2>1. UNCHANGED web BY <1>4 DEF MaxDurationStop, command
  <2>2. CASE pump /\ Since(pumpStart) > Anomaly
    BY <1>4, <2>1, <2>2 DEF LockInv, MaxDurationStop, lock
  <2>3. CASE pump /\ ~(Since(pumpStart) > Anomaly) /\ Since(pumpStart) >= Duration
    BY <1>4, <2>1, <2>3 DEF LockInv, MaxDurationStop, Racing
  <2>4. CASE ~pump \/ ~(Since(pumpStart) > Anomaly \/ Since(pumpStart) >= Duration)
    BY <1>4, <2>1, <2>4 DEF LockInv, MaxDurationStop, lock
  <2> QED BY <2>2, <2>3, <2>4
<1>5. CASE ReservoirSecurity
  BY <1>5 DEF LockInv, ReservoirSecurity, Lock, Unlock, Racing, command
<1>6. CASE AutomaticRecovery
  BY <1>6 DEF LockInv, AutomaticRecovery, Unlock, lock, command
<1> QED BY <1>1, <1>2, <1>3, <1>4, <1>5, <1>6

LEMMA LockStep == LockInv /\ [Next]_vars => LockInv'
<1> SUFFICES ASSUME LockInv, [Next]_vars PROVE LockInv'
  OBVIOUS
<1>1. CASE WebCommand \/ WebStep BY <1>1, WebKeepsLock
<1>2. CASE PollCommand BY <1>2, PollKeepsLock
<1>3. CASE OverfillSecurity \/ AutomaticStart \/ ManualCycleEnd
              \/ MaxDurationStop \/ ReservoirSecurity \/ AutomaticRecovery
  BY <1>3, CheckKeepsLock
<1>4. CASE Poll BY <1>4 DEF LockInv, Poll, lock, command
<1>5. CASE ManualModeCheck BY <1>5 DEF LockInv, ManualModeCheck, lock, command
<1>6. CASE NoStart BY <1>6 DEF LockInv, NoStart, lock, command
<1>7. CASE ReservoirSkipped BY <1>7 DEF LockInv, ReservoirSkipped, lock, command
<1>8. ASSUME NEW f \in BOOLEAN, Alerts(f) PROVE LockInv'
  BY <1>8 DEF LockInv, Alerts, lock, command
<1>9. CASE StayAwake BY <1>9 DEF LockInv, StayAwake, lock, command
<1>10. CASE LightSleep BY <1>10 DEF LockInv, LightSleep, lock, command, Racing
<1>11. ASSUME NEW a \in AquaLevels, NEW t \in TankLevels, CycleStart(a, t)
       PROVE  LockInv'
  BY <1>11 DEF LockInv, CycleStart, lock, command
<1>12. CASE UNCHANGED vars BY <1>12 DEF LockInv, vars
<1> QED
  BY <1>1, <1>2, <1>3, <1>4, <1>5, <1>6, <1>7, <1>8, <1>9, <1>10, <1>11, <1>12
     DEF Next, Cycle, CycleStep

(* A locked pump is off after every cycle, whichever of the checks locked  *)
(* it (automatism_refill.cpp) and whatever commands came from the web page *)
(* or the server, but for a command that the controller cut into.          *)
THEOREM LockStopsPumpCorrect == Spec => []LockStopsPump
<1>1. LockInv => LockStopsPump BY DEF LockInv, LockStopsPump
<1> QED BY <1>1, LockInit, LockStep, PTL DEF Spec

-------------------------------------------------------------------------------
(* The clock and the types.                                                 *)

Ticks == 0..ClockMod - 1
Before == {"poll", "overfill", "mode", "start", "manualEnd", "maxDuration"}
Stages == Before \cup {"idle", "reservoir", "recovery", "alerts", "sleep"}

TypeOK ==
    /\ now \in Ticks /\ webNow \in Ticks /\ pumpStart \in Ticks \cup {Unset}
    /\ ran \in Nat /\ dry \in Nat /\ above \in 0..3
    /\ pump \in BOOLEAN /\ manual \in BOOLEAN /\ locked \in BOOLEAN /\ raced \in BOOLEAN
    /\ stage \in Stages /\ web \in {"idle", "switch", "stamp", "clear"}

LEMMA ClockConstants ==
    /\ {Duration, Anomaly, SleepTicks, ClockMod} \subseteq Nat
    /\ 0 < Duration /\ Duration <= Anomaly /\ Anomaly < ClockMod /\ 0 < SleepTicks
    /\ Duration + SleepTicks < ClockMod /\ 1 < ClockMod /\ Unset \notin Ticks
BY TimeAssumption DEF Unset, Ticks

(* A clock that wraps around: one lap at most is between two stamps.        *)
LEMMA Wrap ==
    ASSUME NEW n \in Ticks, NEW t \in Ticks
    PROVE  /\ (n + ClockMod - t) % ClockMod = IF n >= t THEN n - t ELSE n + ClockMod - t
           /\ \A d \in Nat : /\ Later(n, d) \in Ticks
                             /\ n + d < ClockMod => Later(n, d) = n + d
           /\ Later(n, 1) = IF n + 1 < ClockMod THEN n + 1 ELSE 0
<1>1. ClockMod \in Nat \ {0} /\ n \in 0..ClockMod - 1 /\ t \in 0..ClockMod - 1 /\ 1 < ClockMod
  BY ClockConstants DEF Ticks
<1>2. ASSUME NEW a \in 0..ClockMod - 1  PROVE a % ClockMod = a
  BY <1>1, <1>2
<1>3. ASSUME NEW a \in 0..ClockMod - 1  PROVE (a + ClockMod) % ClockMod = a
  BY <1>1, <1>3
<1>4. ASSUME NEW a \in Int  PROVE a % ClockMod \in 0..ClockMod - 1
  BY <1>1, <1>4
<1>5. (n + ClockMod - t) % ClockMod = IF n >= t THEN n - t ELSE n + ClockMod - t
  <2>1. CASE n >= t
    <3>1. n - t \in 0..ClockMod - 1 /\ n + ClockMod - t = (n - t) + ClockMod
      BY <1>1, <2>1
    <3>2. ((n - t) + ClockMod) % ClockMod = n - t
      BY <1>3, <3>1
    <3>. QED  BY <2>1, <3>1, <3>2
  <2>2. CASE ~(n >= t)
    <3>1. n + ClockMod - t \in 0..ClockMod - 1
      BY <1>1, <2>2
    <3>. QED  BY <1>2, <2>2, <3>1
  <2>. QED  BY <2>1, <2>2
<1>6. ASSUME NEW d \in Nat
      PROVE  Later(n, d) \in Ticks /\ (n + d < ClockMod => Later(n, d) = n + d)
  <2>1. n + d \in Int /\ (n + d < ClockMod => n + d \in 0..ClockMod - 1)
    BY <1>1
  <2>2. Later(n, d) \in 0..ClockMod - 1
    BY <1>4, <2>1 DEF Later
  <2>3. n + d < ClockMod => Later(n, d) = n + d
    BY <1>2, <2>1 DEF Later
  <2>. QED  BY <2>2, <2>3 DEF Ticks
<1>7. Later(n, 1) = IF n + 1 < ClockMod THEN n + 1 ELSE 0
  <2>1. CASE n + 1 < ClockMod
    BY <1>6, <2>1
  <2>2. CASE ~(n + 1 < ClockMod)
    <3>1. n + 1 = 0 + ClockMod /\ 0 \in 0..ClockMod - 1
      BY <1>1, <2>2
    <3>2. (0 + ClockMod) % ClockMod = 0
      BY <1>3, <3>1
    <3>. QED  BY <2>2, <3>1, <3>2 DEF Later
  <2>. QED  BY <2>1, <2>2
<1>. QED  BY <1>5, <1>6, <1>7

(* What Since measures, and how a tick and a sleep change it.               *)
LEMMA SinceFacts ==
    ASSUME TypeOK
    PROVE  /\ Since(Unset) = now /\ Since(now) = 0
           /\ Since(pumpStart) \in Ticks
           /\ pumpStart # Unset =>
                Since(pumpStart) = IF now >= pumpStart THEN now - pumpStart
                                   ELSE now + ClockMod - pumpStart
<1>1. now \in Ticks /\ now # Unset /\ (pumpStart # Unset => pumpStart \in Ticks)
  BY ClockConstants DEF TypeOK
<1>2. Since(Unset) = now
  BY DEF Since
<1>3. Since(now) = 0
  BY <1>1, Wrap, ClockConstants DEF Since, Ticks
<1>4. ASSUME pumpStart # Unset
      PROVE  /\ Since(pumpStart) \in Ticks
             /\ Since(pumpStart) = IF now >= pumpStart THEN now - pumpStart
                                   ELSE now + ClockMod - pumpStart
  <2>1. /\ Since(pumpStart) = (now + ClockMod - pumpStart) % ClockMod
        /\ (now + ClockMod - pumpStart) % ClockMod =
             IF now >= pumpStart THEN now - pumpStart ELSE now + ClockMod - pumpStart
    BY <1>1, <1>4, Wrap DEF Since
  <2>. QED  BY <1>1, <1>4, <2>1, ClockConstants DEF Ticks
<1>. QED  BY <1>1, <1>2, <1>3, <1>4

LEMMA TickFacts ==
    ASSUME TypeOK, now' = Later(now, 1), pumpStart' = pumpStart
    PROVE  /\ now' \in Ticks
           /\ now' = IF now + 1 < ClockMod THEN now + 1 ELSE 0
           /\ pumpStart # Unset /\ Since(pumpStart) + 1 < ClockMod
                => Since(pumpStart)' = Since(pumpStart) + 1
<1>1. now \in Ticks /\ now' \in Ticks /\ now' = IF now + 1 < ClockMod THEN now + 1 ELSE 0
  BY Wrap DEF TypeOK
<1>2. ASSUME pumpStart # Unset, Since(pumpStart) + 1 < ClockMod
      PROVE  Since(pumpStart)' = Since(pumpStart) + 1
  <2>1. pumpStart \in Ticks
    BY <1>2 DEF TypeOK
  <2>2. Since(pumpStart)' = IF now' >= pumpStart THEN now' - pumpStart
                            ELSE now' + ClockMod - pumpStart
    BY <1>1, <1>2, <2>1, Wrap DEF Since
  <2>3. Since(pumpStart) = IF now >= pumpStart THEN now - pumpStart
                           ELSE now + ClockMod - pumpStart
    BY <1>2, SinceFacts
  <2>. QED  BY <1>1, <1>2, <2>1, <2>2, <2>3, ClockConstants DEF Ticks
<1>. QED  BY <1>1, <1>2

LEMMA TypeInit == Init => TypeOK
<1>. SUFFICES ASSUME Init  PROVE TypeOK
  OBVIOUS
<1>1. 0 \in Ticks
  BY ClockConstants DEF Ticks
<1>2. pump \in BOOLEAN /\ manual \in BOOLEAN /\ locked \in BOOLEAN /\ raced \in BOOLEAN
  BY DEF Init
<1>3. ran \in Nat /\ dry \in Nat /\ above \in 0..3 /\ stage \in Stages
  BY DEF Init, Stages
<1>4. now \in Ticks /\ webNow \in Ticks /\ pumpStart \in Ticks \cup {Unset} /\ web = "idle"
  BY <1>1 DEF Init
<1>. QED  BY <1>2, <1>3, <1>4 DEF TypeOK

LEMMA TypeStep == TypeOK /\ [Next]_vars => TypeOK'
<1>. SUFFICES ASSUME TypeOK, [Next]_vars  PROVE TypeOK'
  OBVIOUS
<1>. USE DEF TypeOK, world, lock, timers, command, counts, Stages, Before
<1>1. CASE WebCommand
  BY <1>1 DEF WebCommand
<1>2. CASE WebStep
  <2>1. 0 \in Ticks
    BY ClockConstants DEF Ticks
  <2>2. CASE WebSwitch
    BY <2>2 DEF WebSwitch
  <2>3. CASE WebStamp
    BY <2>1, <2>3 DEF WebStamp, StartStamps
  <2>4. CASE WebClear
    BY <2>4 DEF WebClear, ClearStamps
  <2>. QED  BY <1>2, <2>2, <2>3, <2>4 DEF WebStep
<1>3. CASE PollCommand
  <2>1. pump' \in BOOLEAN /\ manual' \in BOOLEAN /\ raced' \in BOOLEAN
    BY <1>3 DEF PollCommand, StartStamps, ClearStamps, Racing
  <2>2. ran' \in Nat /\ pumpStart' \in Ticks \cup {Unset}
    BY <1>3 DEF PollCommand, StartStamps, ClearStamps
  <2>. QED  BY <1>3, <2>1, <2>2 DEF PollCommand
<1>4. CASE OverfillSecurity
  BY <1>4 DEF OverfillSecurity, Lock, Unlock, Racing
<1>5. CASE AutomaticStart
  <2>1. CASE tank > TankLow
    BY <1>5, <2>1 DEF AutomaticStart, Lock, Racing
  <2>2. CASE ~(tank > TankLow)
    BY <1>5, <2>2 DEF AutomaticStart, Racing
  <2>. QED  BY <2>1, <2>2
<1>6. CASE ManualCycleEnd
  BY <1>6 DEF ManualCycleEnd, ClearStamps, Racing
<1>7. CASE MaxDurationStop
  <2>1. /\ UNCHANGED <<world, ran, dry, webNow, web, counts>> /\ stage' = "reservoir"
        /\ pump' \in BOOLEAN /\ raced' \in BOOLEAN
    BY <1>7 DEF MaxDurationStop, Racing
  <2>2. pumpStart' \in Ticks \cup {Unset} /\ manual' \in BOOLEAN
    BY <1>7 DEF MaxDurationStop, ClearStamps
  <2>3. locked' \in BOOLEAN
    BY <1>7 DEF MaxDurationStop, Lock
  <2>. QED  BY <2>1, <2>2, <2>3
<1>8. CASE ReservoirSecurity
  <2>1. above' \in 0..3
    BY <1>8 DEF ReservoirSecurity, Counted, Capped
  <2>2. /\ UNCHANGED <<world, webNow, ran, dry, web, manual, pumpStart>> /\ stage' = "recovery"
        /\ pump' \in BOOLEAN /\ raced' \in BOOLEAN /\ locked' \in BOOLEAN
    BY <1>8 DEF ReservoirSecurity, Lock, Unlock, Racing
  <2>. QED  BY <2>1, <2>2
<1>9. CASE AutomaticRecovery
  BY <1>9 DEF AutomaticRecovery, Unlock
<1>10. CASE Poll \/ NoStart \/ ReservoirSkipped
  BY <1>10 DEF Poll, NoStart, ReservoirSkipped
<1>11. CASE ManualModeCheck
  BY <1>11 DEF ManualModeCheck, ClearStamps
<1>12. ASSUME NEW f \in BOOLEAN, Alerts(f)  PROVE TypeOK'
  BY <1>12 DEF Alerts
<1>13. CASE StayAwake
  BY <1>13 DEF StayAwake, CycleEnd
<1>14. CASE LightSleep
  <2>1. now' \in Ticks
    BY <1>14, Wrap, ClockConstants DEF LightSleep
  <2>. QED  BY <1>14, <2>1, ClockConstants DEF LightSleep, CycleEnd, Racing
<1>15. ASSUME NEW a \in AquaLevels, NEW t \in TankLevels, CycleStart(a, t)  PROVE TypeOK'
  <2>1. now' \in Ticks
    BY <1>15, Wrap DEF CycleStart
  <2>. QED  BY <1>15, <2>1 DEF CycleStart
<1>16. CASE UNCHANGED vars
  BY <1>16 DEF vars
<1>. QED
  BY <1>1, <1>2, <1>3, <1>4, <1>5, <1>6, <1>7, <1>8, <1>9, <1>10, <1>11, <1>12, <1>13, <1>14,
     <1>15, <1>16 DEF Next, Cycle, CycleStep

(* The steps of the cycle that only move it on, and what they leave alone.   *)
Quiet ==
    \/ Poll \/ ManualModeCheck \/ NoStart \/ ReservoirSkipped \/ AutomaticRecovery
    \/ \E f \in BOOLEAN : Alerts(f)
    \/ StayAwake
    \/ UNCHANGED vars

LEMMA QuietFacts ==
    ASSUME Quiet
    PROVE  /\ UNCHANGED <<now, pump, web, webNow, ran, raced>>
           /\ pump => UNCHANGED <<manual, pumpStart>>
           /\ stage \in Before <=> stage' \in Before
           /\ stage' = "idle" => stage \in {"idle", "sleep"}
           /\ stage = "idle" => stage' = "idle"
<1>. USE DEF world, lock, timers, command, counts, Before
<1>1. CASE Poll
  BY <1>1 DEF Poll
<1>2. CASE ManualModeCheck
  BY <1>2 DEF ManualModeCheck
<1>3. CASE NoStart \/ ReservoirSkipped
  BY <1>3 DEF NoStart, ReservoirSkipped
<1>4. CASE AutomaticRecovery
  BY <1>4 DEF AutomaticRecovery
<1>5. CASE \E f \in BOOLEAN : Alerts(f)
  BY <1>5 DEF Alerts
<1>6. CASE StayAwake
  BY <1>6 DEF StayAwake, CycleEnd
<1>7. CASE UNCHANGED vars
  BY <1>7 DEF vars
<1>. QED  BY <1>1, <1>2, <1>3, <1>4, <1>5, <1>6, <1>7 DEF Quiet

(* What is left of a step that is not quiet.                                 *)
LEMMA NextCases ==
    ASSUME [Next]_vars
    PROVE  \/ WebCommand \/ WebSwitch \/ WebStamp \/ WebClear \/ PollCommand
           \/ OverfillSecurity \/ AutomaticStart \/ ManualCycleEnd \/ MaxDurationStop
           \/ ReservoirSecurity \/ LightSleep \/ Quiet
           \/ \E a \in AquaLevels, t \in TankLevels : CycleStart(a, t)
BY DEF Next, Cycle, CycleStep, WebStep, Quiet

(* A stamp set now, and one that stays while the clock stands still.         *)
LEMMA StampFacts ==
    ASSUME TypeOK, now' = now
    PROVE  /\ pumpStart' = now => Since(pumpStart)' = 0 /\ pumpStart' # Unset
           /\ pumpStart' = pumpStart => Since(pumpStart)' = Since(pumpStart)
<1>1. ASSUME pumpStart' = now  PROVE Since(pumpStart)' = 0 /\ pumpStart' # Unset
  <2>1. now \in Ticks /\ now # Unset /\ now \in Nat
    BY ClockConstants DEF TypeOK, Ticks
  <2>2. (now + ClockMod - now) % ClockMod = 0
    BY <2>1, Wrap
  <2>3. Since(pumpStart)' = (now' + ClockMod - pumpStart') % ClockMod
    BY <1>1, <2>1 DEF Since, Unset
  <2>. QED  BY <1>1, <2>1, <2>2, <2>3 DEF Unset
<1>2. ASSUME pumpStart' = pumpStart  PROVE Since(pumpStart)' = Since(pumpStart)
  BY <1>2 DEF Since, Unset
<1>. QED  BY <1>1, <1>2

-------------------------------------------------------------------------------
(* A refill ends: while no command was cut into, the relay and the stamps    *)
(* agree, between the steps of a web command too.                            *)

WebInv ==
    /\ web = "switch" => ~pump /\ webNow = now
    /\ web = "stamp" => pump /\ webNow = now /\ ran = 0
    /\ web = "clear" => ~pump

(* The stamp tells how long the pump has run; the check of the duration      *)
(* leaves it less than its time.                                             *)
TimeInv ==
    /\ ran <= Duration
    /\ pump /\ web = "idle" =>
         /\ pumpStart # Unset /\ Since(pumpStart) = ran
         /\ stage \notin Before => ran < Duration

RunInv == ~raced => WebInv /\ TimeInv

LEMMA RunStep == TypeOK /\ RunInv /\ [Next]_vars => RunInv'
<1>. SUFFICES ASSUME TypeOK, RunInv, [Next]_vars, ~raced'  PROVE WebInv' /\ TimeInv'
  BY DEF RunInv
<1>. USE DEF world, lock, timers, command, counts
<1>a. /\ 0 < Duration /\ Duration <= Anomaly /\ Anomaly < ClockMod
      /\ Duration \in Nat /\ Anomaly \in Nat /\ ClockMod \in Nat /\ ran \in Nat
  BY ClockConstants DEF TypeOK
<1>b. ~raced => WebInv /\ TimeInv
  BY DEF RunInv
<1>1. CASE WebCommand
  BY <1>1, <1>b DEF WebCommand, WebInv, TimeInv
<1>2. CASE WebSwitch
  BY <1>2, <1>a, <1>b DEF WebSwitch, WebInv, TimeInv
<1>3. CASE WebStamp
  <2>1. /\ UNCHANGED <<now, pump, stage, ran>> /\ web' = "idle" /\ pumpStart' = webNow
        /\ webNow = now /\ ran = 0
    BY <1>3, <1>b DEF WebStamp, StartStamps, WebInv
  <2>. QED  BY <1>a, <2>1, StampFacts DEF WebInv, TimeInv
<1>4. CASE WebClear
  BY <1>4, <1>b DEF WebClear, WebInv, TimeInv
<1>5. CASE PollCommand
  <2>1. /\ UNCHANGED <<now, web, webNow>> /\ stage = "poll" /\ stage' = "overfill"
    BY <1>5 DEF PollCommand
  <2>2. CASE lastTankState
    BY <1>5, <2>1, <2>2, <1>b DEF PollCommand, Racing, WebInv, TimeInv
  <2>3. CASE ~lastTankState /\ (locked \/ pump)
    <3>1. UNCHANGED <<pump, pumpStart, ran, raced>>
      BY <1>5, <2>3 DEF PollCommand
    <3>. QED  BY <2>1, <3>1, <1>b, StampFacts DEF WebInv, TimeInv, Before
  <2>4. CASE ~lastTankState /\ ~(locked \/ pump)
    <3>1. pumpStart' = now /\ ran' = 0 /\ raced' = Racing
      BY <1>5, <2>4 DEF PollCommand, StartStamps
    <3>2. web = "idle"
      BY <3>1 DEF Racing
    <3>. QED  BY <1>a, <2>1, <3>1, <3>2, StampFacts DEF WebInv, TimeInv
  <2>. QED  BY <2>2, <2>3, <2>4
<1>6. CASE OverfillSecurity \/ ManualCycleEnd \/ ReservoirSecurity
  <2>1. /\ UNCHANGED <<now, web, webNow, ran>>
        /\ stage \in Before <=> stage' \in Before
    BY <1>6 DEF OverfillSecurity, ManualCycleEnd, ReservoirSecurity, Before
  <2>2. \/ pump' = FALSE /\ raced' = Racing
        \/ UNCHANGED <<pump, pumpStart, raced>>
    BY <1>6 DEF OverfillSecurity, ManualCycleEnd, ReservoirSecurity
  <2>3. CASE pump' = FALSE /\ raced' = Racing
    BY <2>1, <2>3, <1>b DEF Racing, WebInv, TimeInv
  <2>4. CASE UNCHANGED <<pump, pumpStart, raced>>
    BY <2>1, <2>4, <1>b, StampFacts DEF WebInv, TimeInv
  <2>. QED  BY <2>2, <2>3, <2>4
<1>7. CASE AutomaticStart
  <2>1. UNCHANGED <<now, web, webNow>> /\ web = "idle" /\ ~raced /\ ~pump
    BY <1>7 DEF AutomaticStart, WantsRefill, Racing
  <2>2. CASE tank > TankLow
    BY <1>7, <1>b, <2>1, <2>2 DEF AutomaticStart, WebInv, TimeInv
  <2>3. CASE ~(tank > TankLow)
    <3>1. pumpStart' = now /\ ran' = 0 /\ stage' = "manualEnd"
      BY <1>7, <2>3 DEF AutomaticStart
    <3>. QED  BY <1>a, <2>1, <3>1, StampFacts DEF WebInv, TimeInv, Before
  <2>. QED  BY <2>2, <2>3
<1>8. CASE MaxDurationStop
  <2>1. UNCHANGED <<now, web, webNow, ran>>
    BY <1>8 DEF MaxDurationStop
  <2>2. CASE pump /\ Since(pumpStart) > Anomaly
    <3>1. UNCHANGED <<pump, raced>>
      BY <1>8, <2>2 DEF MaxDurationStop
    <3>2. web # "idle"
      BY <1>a, <1>b, <2>2, <3>1 DEF TimeInv
    <3>. QED  BY <1>b, <2>1, <3>1, <3>2 DEF WebInv, TimeInv
  <2>3. CASE pump /\ ~(Since(pumpStart) > Anomaly) /\ Since(pumpStart) >= Duration
    <3>1. pump' = FALSE /\ raced' = Racing
      BY <1>8, <2>3 DEF MaxDurationStop
    <3>. QED  BY <1>b, <2>1, <3>1 DEF Racing, WebInv, TimeInv
  <2>4. CASE ~pump \/ ~(Since(pumpStart) > Anomaly \/ Since(pumpStart) >= Duration)
    <3>1. UNCHANGED <<pump, pumpStart, raced>>
      BY <1>8, <2>4 DEF MaxDurationStop
    <3>2. pump /\ web = "idle" => ran < Duration
      BY <1>a, <1>b, <2>4, <3>1 DEF TimeInv
    <3>. QED  BY <1>b, <2>1, <3>1, <3>2, StampFacts DEF WebInv, TimeInv
  <2>. QED  BY <2>2, <2>3, <2>4
<1>9. CASE LightSleep
  <2>1. web = "idle" /\ web' = "idle" /\ ~raced /\ pumpStart = Unset /\ pump' = pump
    BY <1>9 DEF LightSleep, Racing
  <2>2. ~pump
    BY <1>b, <2>1 DEF TimeInv
  <2>3. ran' = 0
    BY <1>9, <2>2 DEF LightSleep
  <2>. QED  BY <1>a, <2>1, <2>2, <2>3 DEF WebInv, TimeInv
<1>10. CASE Quiet
  <2>1. /\ UNCHANGED <<now, pump, web, webNow, ran, raced>>
        /\ pump => pumpStart' = pumpStart
        /\ stage \in Before <=> stage' \in Before
    BY <1>10, QuietFacts
  <2>. QED  BY <2>1, <1>b, StampFacts DEF WebInv, TimeInv
<1>11. ASSUME NEW a \in AquaLevels, NEW t \in TankLevels, CycleStart(a, t)
       PROVE  WebInv' /\ TimeInv'
  <2>1. /\ UNCHANGED <<pump, pumpStart, web, webNow, raced>> /\ web = "idle"
        /\ now' = Later(now, 1) /\ stage = "idle" /\ stage' = "poll"
        /\ ran' = IF pump THEN ran + 1 ELSE 0
    BY <1>11 DEF CycleStart
  <2>2. CASE pump
    <3>1. pumpStart # Unset /\ Since(pumpStart) = ran /\ ran < Duration
      BY <1>b, <2>1, <2>2 DEF TimeInv, Before
    <3>2. Since(pumpStart)' = ran + 1
      BY <1>a, <2>1, <3>1, TickFacts
    <3>. QED  BY <1>a, <2>1, <2>2, <3>1, <3>2 DEF WebInv, TimeInv, Before, Unset
  <2>3. CASE ~pump
    BY <1>a, <2>1, <2>3 DEF WebInv, TimeInv
  <2>. QED  BY <2>2, <2>3
<1>. QED
  BY <1>1, <1>2, <1>3, <1>4, <1>5, <1>6, <1>7, <1>8, <1>9, <1>10, <1>11, NextCases

-------------------------------------------------------------------------------
(* An automatic refill draws from a low tank for one cycle at most: the      *)
(* reservoir check that let it run has counted the low reading, and the next *)
(* one stops it.                                                             *)

DryInv == ~raced =>
    /\ dry <= 1
    /\ stage \in Before \cup {"idle", "reservoir"} => (dry = 1 => above >= 1)
    /\ stage \in {"recovery", "alerts", "sleep"} /\ DryNow => above >= 1 /\ dry = 0

LEMMA DryStep ==
    TypeOK /\ LockInv /\ RunInv /\ DryInv /\ [Next]_vars => DryInv'
<1>. SUFFICES ASSUME TypeOK, LockInv, RunInv, DryInv, [Next]_vars, ~raced'
              PROVE  /\ dry' <= 1
                     /\ stage' \in Before \cup {"idle", "reservoir"} => (dry' = 1 => above' >= 1)
                     /\ stage' \in {"recovery", "alerts", "sleep"} /\ DryNow'
                          => above' >= 1 /\ dry' = 0
  BY DEF DryInv
<1>. USE DEF world, lock, timers, command, counts
<1>a. dry \in Nat /\ above \in 0..3
  BY DEF TypeOK
<1>b. ~raced => /\ dry <= 1
                /\ stage \in Before \cup {"idle", "reservoir"} => (dry = 1 => above >= 1)
                /\ stage \in {"recovery", "alerts", "sleep"} /\ DryNow => above >= 1 /\ dry = 0
  BY DEF DryInv
<1>c. ASSUME UNCHANGED <<stage, dry, above, raced>>, DryNow' => DryNow
      PROVE  DryInv'
  BY <1>b, <1>c DEF DryInv
<1>1. CASE WebCommand \/ WebSwitch \/ WebStamp \/ WebClear
  <2>1. UNCHANGED <<stage, dry, above, tank, raced>>
    BY <1>1 DEF WebCommand, WebSwitch, WebStamp, WebClear
  <2>2. DryNow' => DryNow
    <3>1. CASE WebCommand
      BY <3>1 DEF WebCommand, DryNow
    <3>2. CASE WebSwitch
      BY <3>2 DEF WebSwitch, DryNow
    <3>3. CASE WebStamp
      BY <3>3 DEF WebStamp, StartStamps, DryNow
    <3>4. CASE WebClear
      <4>1. ~pump' BY <3>4, <2>1 DEF WebClear, RunInv, WebInv
      <4>. QED  BY <4>1 DEF DryNow
    <3>. QED  BY <1>1, <3>1, <3>2, <3>3, <3>4
  <2>. QED  BY <2>1, <2>2, <1>c DEF DryInv
<1>2. CASE PollCommand \/ OverfillSecurity \/ ManualCycleEnd \/ AutomaticStart \/ MaxDurationStop
  <2>1. UNCHANGED <<dry, above, tank>> /\ stage \in Before
    BY <1>2 DEF PollCommand, OverfillSecurity, ManualCycleEnd, AutomaticStart, MaxDurationStop,
                Before
  <2>2. ~raced
    <3>1. CASE PollCommand
      BY <3>1 DEF PollCommand, Racing
    <3>2. CASE MaxDurationStop
      BY <3>2 DEF MaxDurationStop, Racing
    <3>3. CASE OverfillSecurity \/ ManualCycleEnd \/ AutomaticStart
      BY <3>3 DEF OverfillSecurity, ManualCycleEnd, AutomaticStart, Racing
    <3>. QED  BY <1>2, <3>1, <3>2, <3>3
  <2>3. stage' \in {"recovery", "alerts", "sleep"} => ~pump'
    <3>1. CASE AutomaticStart
      BY <3>1 DEF AutomaticStart, WantsRefill
    <3>2. CASE ~AutomaticStart
      BY <1>2, <3>2 DEF PollCommand, OverfillSecurity, ManualCycleEnd, MaxDurationStop
    <3>. QED  BY <3>1, <3>2
  <2>. QED  BY <1>b, <2>1, <2>2, <2>3 DEF DryNow
<1>3. CASE ReservoirSecurity
  <2>1. /\ UNCHANGED <<dry, tank, manual, web>> /\ stage = "reservoir" /\ stage' = "recovery"
        /\ ~manual
    BY <1>3 DEF ReservoirSecurity
  <2>2. CASE ReservoirLocks
    <3>1. ~pump' /\ ~raced
      BY <1>3, <2>2 DEF ReservoirSecurity, Racing
    <3>. QED  BY <1>b, <2>1, <3>1 DEF DryNow, Before
  <2>3. CASE ~ReservoirLocks
    <3>1. UNCHANGED <<pump, raced>>
      BY <1>3, <2>3 DEF ReservoirSecurity
    <3>2. ASSUME DryNow'  PROVE above' >= 1 /\ dry' = 0
      <4>1. tank > TankLow /\ pump /\ ~locked
        BY <2>1, <3>1, <3>2 DEF DryNow, LockInv
      <4>2. above' = Counted(above) /\ ~(Counted(above) >= 2)
        BY <1>3, <2>3, <4>1 DEF ReservoirSecurity, ReservoirLocks
      <4>3. above = 0
        BY <1>a, <4>2 DEF Counted
      <4>. QED  BY <1>a, <1>b, <2>1, <3>1, <4>2, <4>3 DEF Counted
    <3>. QED  BY <1>b, <2>1, <3>1, <3>2 DEF Before
  <2>. QED  BY <2>2, <2>3
<1>4. CASE ReservoirSkipped
  <2>1. /\ UNCHANGED <<dry, tank, manual, raced, above>> /\ stage = "reservoir"
        /\ stage' = "recovery" /\ manual
    BY <1>4 DEF ReservoirSkipped
  <2>. QED  BY <1>b, <2>1 DEF DryNow
<1>5. CASE Poll \/ ManualModeCheck \/ NoStart
  <2>1. UNCHANGED <<dry, above, raced>> /\ stage \in Before /\ stage' \in Before
    BY <1>5 DEF Poll, ManualModeCheck, NoStart, Before
  <2>. QED  BY <1>b, <2>1 DEF Before
<1>6. CASE AutomaticRecovery \/ \E f \in BOOLEAN : Alerts(f)
  <2>1. /\ UNCHANGED <<dry, above, raced, tank, pump, manual, web>>
        /\ stage \in {"recovery", "alerts"} /\ stage' \in {"alerts", "sleep"}
    BY <1>6 DEF AutomaticRecovery, Alerts
  <2>. QED  BY <1>b, <2>1 DEF DryNow, Before
<1>7. CASE StayAwake \/ LightSleep
  <2>1. /\ stage = "sleep" /\ stage' = "idle" /\ ~raced /\ above' = above
        /\ dry' = IF DryNow THEN dry + 1 ELSE 0
    <3>1. CASE StayAwake
      BY <3>1 DEF StayAwake, CycleEnd
    <3>2. CASE LightSleep
      BY <3>2 DEF LightSleep, CycleEnd, Racing
    <3>. QED  BY <1>7, <3>1, <3>2
  <2>. QED  BY <1>a, <1>b, <2>1
<1>8. CASE UNCHANGED vars
  BY <1>8, <1>b DEF vars, DryNow
<1>9. ASSUME NEW a \in AquaLevels, NEW t \in TankLevels, CycleStart(a, t)  PROVE DryInv'
  <2>1. UNCHANGED <<dry, above, raced>> /\ stage = "idle" /\ stage' = "poll"
    BY <1>9 DEF CycleStart
  <2>. QED  BY <1>b, <2>1 DEF DryInv, Before
<1>. QED
  BY <1>1, <1>2, <1>3, <1>4, <1>5, <1>6, <1>7, <1>8, <1>9, NextCases DEF Quiet, DryInv

-------------------------------------------------------------------------------
(* Even a refill that lost its stamp ends: the clock's own age takes its     *)
(* place, which a wrap-around may set back once, before the first check.     *)

Slack == Duration + 2 * SleepTicks + 1

LostInv ==
    /\ stage \in Before => ran <= now + SleepTicks + 1 /\ ran <= Slack
    /\ stage \notin Before \cup {"idle"} =>
         ran = 0 \/ (now < Duration /\ ran <= now + SleepTicks + 1)
    /\ stage = "idle" =>
         /\ ran <= SleepTicks \/ (now + 1 < ClockMod /\ ran <= now + SleepTicks + 1)
         /\ ran < Slack

StampedInv ==
    /\ stage \in Before =>
         \/ ran <= SleepTicks + 1
         \/ Since(pumpStart) <= Duration /\ ran <= Since(pumpStart) + Slack
    /\ stage \notin Before =>
         \/ ran <= SleepTicks
         \/ Since(pumpStart) < Duration /\ ran <= Since(pumpStart) + Slack

(* A web command that loses or replaces the stamp of a running pump does so  *)
(* in the cycle that the pump was started in, or in its sleep.               *)
FreshInv ==
    web \in {"stamp", "clear"} /\ pump => ran = 0 \/ (stage = "idle" /\ ran <= SleepTicks)

AgeInv ==
    /\ ran <= Duration + Slack
    /\ FreshInv
    /\ pump /\ pumpStart = Unset => LostInv
    /\ pump /\ pumpStart # Unset => StampedInv

(* A pump that is off, or was switched on since the cycle began, is within   *)
(* every bound.                                                              *)
LEMMA FreshFacts ==
    ASSUME TypeOK, ran' \in Nat
    PROVE  ~pump' /\ ran' <= Duration + Slack => AgeInv'
BY DEF AgeInv, FreshInv

LEMMA NewRunFacts ==
    ASSUME TypeOK, TypeOK', ran' = 0
    PROVE  AgeInv'
<1>1. {Duration, SleepTicks, now', Slack} \subseteq Nat /\ 0 < Slack
  BY ClockConstants DEF TypeOK, Ticks, Slack
<1>2. FreshInv'
  BY DEF FreshInv
<1>3. LostInv'
  BY <1>1 DEF LostInv
<1>4. StampedInv'
  BY <1>1 DEF StampedInv
<1>. QED  BY <1>1, <1>2, <1>3, <1>4 DEF AgeInv

LEMMA AgeStep == TypeOK /\ TypeOK' /\ AgeInv /\ [Next]_vars => AgeInv'
<1>. SUFFICES ASSUME TypeOK, TypeOK', AgeInv, [Next]_vars  PROVE AgeInv'
  OBVIOUS
<1>. USE DEF world, lock, timers, command, counts
<1>a. /\ Duration \in Nat /\ SleepTicks \in Nat /\ ClockMod \in Nat /\ Anomaly \in Nat
      /\ Slack \in Nat /\ Slack = Duration + 2 * SleepTicks + 1
      /\ 0 < Duration /\ Duration <= Anomaly /\ Duration + SleepTicks < ClockMod
      /\ ran \in Nat /\ ran' \in Nat /\ now \in 0..ClockMod - 1 /\ now' \in 0..ClockMod - 1
  BY ClockConstants DEF TypeOK, Ticks, Slack
<1>b. ran <= Duration + Slack /\ FreshInv
  BY DEF AgeInv
<1>c. ASSUME UNCHANGED <<now, pump, pumpStart, ran, stage>>, FreshInv'  PROVE AgeInv'
  <2>1. Since(pumpStart)' = Since(pumpStart)
    BY <1>c, StampFacts
  <2>2. LostInv' = LostInv /\ StampedInv' = StampedInv
    BY <1>c, <2>1 DEF LostInv, StampedInv, Slack
  <2>. QED  BY <1>c, <2>2 DEF AgeInv, Slack, Unset
<1>1. CASE WebCommand
  <2>1. UNCHANGED <<now, pumpStart, ran, stage>>
    BY <1>1 DEF WebCommand
  <2>2. \/ ~pump'
        \/ pump' = pump /\ web' = "switch"
    BY <1>1 DEF WebCommand
  <2>3. CASE ~pump'
    BY <1>b, <2>1, <2>3, FreshFacts, <1>a
  <2>4. CASE pump' = pump /\ web' = "switch"
    BY <1>c, <2>1, <2>4 DEF FreshInv
  <2>. QED  BY <2>2, <2>3, <2>4
<1>2. CASE WebSwitch
  BY <1>2, NewRunFacts DEF WebSwitch
<1>3. CASE WebStamp
  <2>1. UNCHANGED <<now, pump, ran, stage>> /\ pumpStart' = webNow /\ web = "stamp" /\ web' = "idle"
    BY <1>3 DEF WebStamp, StartStamps
  <2>2. pumpStart' # Unset
    BY <2>1, ClockConstants DEF TypeOK
  <2>3. pump => ran <= SleepTicks
    BY <1>a, <1>b, <2>1 DEF FreshInv
  <2>4. CASE pump
    <3>1. StampedInv'
      BY <1>a, <2>1, <2>3, <2>4 DEF StampedInv
    <3>. QED  BY <1>b, <2>1, <2>2, <3>1 DEF AgeInv, FreshInv, Slack, Unset
  <2>5. CASE ~pump
    BY <1>a, <1>b, <2>1, <2>5, FreshFacts
  <2>. QED  BY <2>4, <2>5
<1>4. CASE WebClear
  <2>1. UNCHANGED <<now, pump, ran, stage>> /\ pumpStart' = Unset /\ web = "clear" /\ web' = "idle"
    BY <1>4 DEF WebClear, ClearStamps
  <2>2. pump => ran = 0 \/ (stage = "idle" /\ ran <= SleepTicks)
    BY <1>b, <2>1 DEF FreshInv
  <2>3. CASE pump
    <3>1. LostInv'
      BY <1>a, <2>1, <2>2, <2>3 DEF LostInv, Before, Slack
    <3>. QED  BY <1>b, <2>1, <3>1 DEF AgeInv, FreshInv, Slack, Unset
  <2>4. CASE ~pump
    BY <1>a, <1>b, <2>1, <2>4, FreshFacts
  <2>. QED  BY <2>3, <2>4
<1>d. ASSUME UNCHANGED <<now, pump, ran, web>>, pump => pumpStart' = pumpStart,
             stage \in Before <=> stage' \in Before,
             stage' = "idle" => stage \in {"idle", "sleep"}, stage = "idle" => stage' = "idle"
      PROVE  AgeInv'
  <2>1. CASE ~pump
    BY <1>a, <1>b, <1>d, <2>1, FreshFacts
  <2>2. CASE pump
    <3>1. pumpStart' = pumpStart /\ Since(pumpStart)' = Since(pumpStart)
      BY <1>d, <2>2, StampFacts
    <3>2. FreshInv'
      BY <1>b, <1>d DEF FreshInv
    <3>3. ASSUME LostInv  PROVE LostInv'
      <4>1. CASE stage' = "idle" /\ stage = "sleep"
        BY <1>a, <1>d, <3>3, <4>1 DEF LostInv, Before
      <4>2. CASE ~(stage' = "idle" /\ stage = "sleep")
        BY <1>a, <1>d, <3>3, <4>2 DEF LostInv
      <4>. QED  BY <4>1, <4>2
    <3>4. ASSUME StampedInv  PROVE StampedInv'
      BY <1>a, <1>d, <3>1, <3>4 DEF StampedInv
    <3>. QED  BY <1>a, <1>b, <1>d, <2>2, <3>1, <3>2, <3>3, <3>4 DEF AgeInv, Unset
  <2>. QED  BY <2>1, <2>2
<1>5. CASE PollCommand
  <2>1. UNCHANGED <<now, web>> /\ stage = "poll" /\ stage' = "overfill"
    BY <1>5 DEF PollCommand
  <2>2. CASE lastTankState
    <3>1. pump' = FALSE /\ ran' = ran
      BY <1>5, <2>2 DEF PollCommand
    <3>. QED  BY <1>a, <1>b, <3>1, FreshFacts
  <2>3. CASE ~lastTankState /\ (locked \/ pump)
    <3>1. UNCHANGED <<pump, pumpStart, ran>>
      BY <1>5, <2>3 DEF PollCommand
    <3>. QED  BY <1>d, <2>1, <3>1 DEF Before
  <2>4. CASE ~lastTankState /\ ~(locked \/ pump)
    BY <1>5, <2>4, NewRunFacts DEF PollCommand
  <2>. QED  BY <2>2, <2>3, <2>4
<1>6. CASE OverfillSecurity \/ ManualCycleEnd \/ ReservoirSecurity
  <2>1. /\ UNCHANGED <<now, web, ran>> /\ stage # "idle" /\ stage' # "idle"
        /\ stage \in Before <=> stage' \in Before
    BY <1>6 DEF OverfillSecurity, ManualCycleEnd, ReservoirSecurity, Before
  <2>2. pump' = FALSE \/ UNCHANGED <<pump, pumpStart>>
    BY <1>6 DEF OverfillSecurity, ManualCycleEnd, ReservoirSecurity
  <2>3. CASE pump' = FALSE
    BY <1>a, <1>b, <2>1, <2>3, FreshFacts
  <2>4. CASE UNCHANGED <<pump, pumpStart>>
    BY <1>d, <2>1, <2>4
  <2>. QED  BY <2>2, <2>3, <2>4
<1>7. CASE AutomaticStart
  <2>1. CASE tank > TankLow
    <3>1. ~pump' /\ ran' = ran
      BY <1>7, <2>1 DEF AutomaticStart, WantsRefill
    <3>. QED  BY <1>a, <1>b, <3>1, FreshFacts
  <2>2. CASE ~(tank > TankLow)
    BY <1>7, <2>2, NewRunFacts DEF AutomaticStart
  <2>. QED  BY <2>1, <2>2
<1>8. CASE MaxDurationStop
  <2>1. UNCHANGED <<now, web, ran>> /\ stage = "maxDuration" /\ stage' = "reservoir"
    BY <1>8 DEF MaxDurationStop
  <2>2. CASE pump /\ Since(pumpStart) > Anomaly
    <3>1. pumpStart' = now /\ pump' = pump
      BY <1>8, <2>2 DEF MaxDurationStop
    <3>2. Since(pumpStart)' = 0 /\ pumpStart' # Unset
      BY <2>1, <3>1, StampFacts
    <3>3. Since(pumpStart) \in Nat
      BY <1>a, SinceFacts DEF Ticks
    <3>4. ran <= Slack
      <4>1. CASE pumpStart = Unset
        BY <2>1, <2>2, <4>1 DEF AgeInv, LostInv, Before
      <4>2. CASE pumpStart # Unset
        BY <1>a, <2>1, <2>2, <3>3, <4>2 DEF AgeInv, StampedInv, Before
      <4>. QED  BY <4>1, <4>2
    <3>5. StampedInv'
      BY <1>a, <2>1, <3>2, <3>4 DEF StampedInv, Before
    <3>6. FreshInv'
      BY <1>b, <2>1, <3>1 DEF FreshInv
    <3>. QED  BY <1>a, <1>b, <2>1, <3>2, <3>5, <3>6 DEF AgeInv, Unset
  <2>3. CASE pump /\ ~(Since(pumpStart) > Anomaly) /\ Since(pumpStart) >= Duration
    <3>1. pump' = FALSE
      BY <1>8, <2>3 DEF MaxDurationStop
    <3>. QED  BY <1>a, <1>b, <2>1, <3>1, FreshFacts
  <2>4. CASE ~pump
    <3>1. pump' = FALSE
      BY <1>8, <2>4 DEF MaxDurationStop, TypeOK
    <3>. QED  BY <1>a, <1>b, <2>1, <3>1, FreshFacts
  <2>5. CASE pump /\ ~(Since(pumpStart) > Anomaly \/ Since(pumpStart) >= Duration)
    <3>1. UNCHANGED <<pump, pumpStart>>
      BY <1>8, <2>5 DEF MaxDurationStop
    <3>2. /\ Since(pumpStart) \in Nat /\ Since(pumpStart) < Duration
          /\ Since(pumpStart)' = Since(pumpStart)
      BY <1>a, <2>1, <2>5, <3>1, SinceFacts, StampFacts DEF Ticks
    <3>3. ASSUME pumpStart = Unset  PROVE LostInv'
      <4>1. now < Duration /\ ran <= now + SleepTicks + 1
        BY <2>1, <2>5, <3>2, <3>3, SinceFacts DEF AgeInv, LostInv, Before
      <4>. QED  BY <2>1, <4>1 DEF LostInv, Before
    <3>4. ASSUME pumpStart # Unset  PROVE StampedInv'
      BY <1>a, <2>1, <2>5, <3>2, <3>4 DEF AgeInv, StampedInv, Before
    <3>5. FreshInv'
      BY <1>b, <2>1, <3>1 DEF FreshInv
    <3>. QED  BY <1>a, <1>b, <2>1, <3>1, <3>3, <3>4, <3>5 DEF AgeInv, Unset
  <2>. QED  BY <2>2, <2>3, <2>4, <2>5
<1>9. CASE LightSleep
  <2>1. /\ UNCHANGED <<pump, pumpStart, web>> /\ stage = "sleep" /\ stage' = "idle"
        /\ pumpStart = Unset /\ now' = Later(now, SleepTicks)
        /\ ran' = IF pump THEN ran + SleepTicks ELSE 0
    BY <1>9 DEF LightSleep, CycleEnd
  <2>2. CASE ~pump
    BY <2>1, <2>2, NewRunFacts
  <2>3. CASE pump
    <3>1. ran = 0 \/ (now < Duration /\ ran <= now + SleepTicks + 1)
      BY <2>1, <2>3 DEF AgeInv, LostInv, Before
    <3>2. now < Duration => now' = now + SleepTicks
      <4>1. now \in Ticks
        BY DEF TypeOK
      <4>2. \A d \in Nat : now + d < ClockMod => Later(now, d) = now + d
        BY <4>1, Wrap
      <4>. QED  BY <1>a, <2>1, <4>2
    <3>3. LostInv'
      BY <1>a, <2>1, <2>3, <3>1, <3>2 DEF LostInv, Before
    <3>4. FreshInv'
      BY <1>a, <1>b, <2>1, <2>3 DEF FreshInv
    <3>5. ran' <= Duration + Slack
      BY <1>a, <2>1, <2>3, <3>1
    <3>. QED  BY <1>a, <2>1, <3>3, <3>4, <3>5 DEF AgeInv, Unset
  <2>. QED  BY <2>2, <2>3
<1>10. CASE Quiet
  BY <1>10, <1>d, QuietFacts
<1>11. ASSUME NEW a \in AquaLevels, NEW t \in TankLevels, CycleStart(a, t)  PROVE AgeInv'
  <2>1. /\ UNCHANGED <<pump, pumpStart, web>> /\ web = "idle"
        /\ now' = Later(now, 1) /\ stage = "idle" /\ stage' = "poll"
        /\ ran' = IF pump THEN ran + 1 ELSE 0
    BY <1>11 DEF CycleStart
  <2>2. now' = IF now + 1 < ClockMod THEN now + 1 ELSE 0
    BY <2>1, TickFacts
  <2>3. CASE ~pump
    BY <2>1, <2>3, NewRunFacts
  <2>4. CASE pump /\ pumpStart = Unset
    <3>1. LostInv /\ stage \notin Before
      BY <2>1, <2>4 DEF AgeInv, Before
    <3>2. ran' <= now' + SleepTicks + 1 /\ ran' <= Slack
      BY <1>a, <2>1, <2>2, <2>4, <3>1 DEF LostInv
    <3>3. LostInv'
      BY <2>1, <3>2 DEF LostInv, Before
    <3>. QED  BY <1>a, <2>1, <2>4, <3>2, <3>3 DEF AgeInv, FreshInv, Unset
  <2>5. CASE pump /\ pumpStart # Unset
    <3>1. Since(pumpStart) \in Nat /\ Since(pumpStart)' \in Nat
      BY <1>a, <2>1, <2>5, SinceFacts, Wrap DEF Ticks, Since, TypeOK, Unset
    <3>2. \/ ran <= SleepTicks
          \/ Since(pumpStart) < Duration /\ ran <= Since(pumpStart) + Slack
      BY <2>1, <2>5 DEF AgeInv, StampedInv, Before
    <3>3. CASE ran <= SleepTicks
      BY <1>a, <2>1, <2>5, <3>3 DEF AgeInv, FreshInv, StampedInv, Before, Unset
    <3>4. CASE Since(pumpStart) < Duration /\ ran <= Since(pumpStart) + Slack
      <4>1. Since(pumpStart)' = Since(pumpStart) + 1
        BY <1>a, <2>1, <2>5, <3>1, <3>4, TickFacts
      <4>2. ran' <= Since(pumpStart)' + Slack /\ Since(pumpStart)' <= Duration
        BY <1>a, <2>1, <2>5, <3>1, <3>4, <4>1
      <4>. QED
        BY <1>a, <2>1, <2>5, <3>1, <4>2 DEF AgeInv, FreshInv, StampedInv, Before, Slack, Unset
    <3>. QED  BY <3>2, <3>3, <3>4
  <2>. QED  BY <2>3, <2>4, <2>5
<1>. QED
  BY <1>1, <1>2, <1>3, <1>4, <1>5, <1>6, <1>7, <1>8, <1>9, <1>10, <1>11, NextCases

-------------------------------------------------------------------------------
LEMMA RunInit == Init => RunInv /\ DryInv /\ AgeInv
<1>. SUFFICES ASSUME Init  PROVE RunInv /\ DryInv /\ AgeInv
  OBVIOUS
<1>1. Duration \in Nat /\ 0 < Duration /\ SleepTicks \in Nat /\ Slack \in Nat
  BY ClockConstants DEF Slack
<1>2. ~pump /\ web = "idle" /\ ran = 0 /\ dry = 0
  BY DEF Init
<1>. QED  BY <1>1, <1>2 DEF RunInv, WebInv, TimeInv, DryInv, DryNow, AgeInv, FreshInv

LEMMA RunCorrect == Spec => [](TypeOK /\ LockInv /\ RunInv /\ DryInv /\ AgeInv)
<1>1. TypeOK /\ LockInv /\ RunInv /\ DryInv /\ AgeInv /\ [Next]_vars
        => TypeOK' /\ LockInv' /\ RunInv' /\ DryInv' /\ AgeInv'
  BY TypeStep, LockStep, RunStep, DryStep, AgeStep
<1>. QED  BY <1>1, TypeInit, LockInit, RunInit, PTL DEF Spec

(* Whoever started it and wherever the clock wraps around, a refill ends     *)
(* within its duration (handleRefillMaxDurationStop), and no light sleep     *)
(* begins over a running pump, unless the controller cut into a command of   *)
(* the web page.                                                             *)
THEOREM RefillEndsCorrect == Spec => []RefillEnds
<1>1. RunInv => RefillEnds  BY DEF RunInv, TimeInv, RefillEnds
<1>. QED  BY <1>1, RunCorrect, PTL

(* After a web command was cut into the stamps of the pump may be lost and   *)
(* the board may sleep over it, and it still ends within twice the time.     *)
THEOREM EndsAnywayCorrect == Spec => []EndsAnyway
<1>1. TypeOK /\ AgeInv => EndsAnyway
  BY ClockConstants DEF TypeOK, AgeInv, Slack, EndsAnyway
<1>. QED  BY <1>1, RunCorrect, PTL

(* An automatic refill stops at the second low reading of the tank           *)
(* (ReservoirLowSecurity::evaluate).                                         *)
THEOREM NeverTwiceDryCorrect == Spec => []NeverTwiceDry
<1>1. TypeOK /\ DryInv => NeverTwiceDry
  BY DEF TypeOK, DryInv, NeverTwiceDry
<1>. QED  BY <1>1, RunCorrect, PTL
=============================================================================
