------------------------------ MODULE Sensors -------------------------------
(***************************************************************************)
(* One sensor of the aquarium board, read pass after pass by the sensor    *)
(* task (system_sensors.cpp), with the failure manager that disables it    *)
(* and tests it again: an ultrasonic level (aquarium, vegetable bed or     *)
(* tank), the water probe, the air sensor, and the soil probe of the       *)
(* weather station, whose failure state survives deep sleep.  A reading is *)
(* the level it was taken from; filters are left out, but the one that     *)
(* refuses the jumps of the tank.                                          *)
(***************************************************************************)
EXTENDS Integers, Sequences, FiniteSets, SequencesExt

CONSTANTS MaxFails,   \* failures in a row that disable a sensor
          Wins,       \* good tests in a row that enable it again
          Interval,   \* passes between two tests
          HistSize,   \* HISTORY_SIZE
          Levels,     \* levels, in steps of 100 mm (a temperature for a probe)
          MaxMoves    \* bound: changes of the world, and resets

VARIABLES kind,   \* the sensor this instance is about
          world,  \* level; sensor: "works", "flaky" or "gone"
          mgr,    \* disabled, logged, fails, wins; since: passes since the
                  \* last test
          last,   \* the last valid value, or Unknown
          hist,   \* the last accepted values of the tank, newest first
          shown,  \* what SystemSensors::read gave
          left    \* what the bound leaves
svars == <<kind, world, mgr, last, hist, shown, left>>

Unknown == 0
Default == -1  \* the constant shown for a sensor that was never read
MaxDelta == 3  \* MAX_DELTA_MM: a greater step is a jump
Drain == 4     \* DRAIN_MAX_DELTA_MM
Fill == 1      \* REFILL_MAX_DELTA_MM
Answers == {"good", "few", "scattered", "none"}  \* of a batch of echoes

Enabled == [disabled |-> FALSE, logged |-> FALSE, fails |-> 0, wins |-> 0, since |-> Interval]

(* The probes with a begin() that tests them are disabled at once when     *)
(* they do not answer.                                                     *)
Booted(k, w) == IF k \in {"water", "air"} /\ w.sensor # "works"
                THEN [Enabled EXCEPT !.disabled = TRUE, !.logged = TRUE] ELSE Enabled

Init == /\ kind \in {"aqua", "pota", "tank", "water", "air", "soil"}
        /\ world \in [level : Levels, sensor : {"works", "flaky", "gone"}]
        /\ mgr = Booted(kind, world)
        /\ last = Unknown /\ hist = <<>> /\ shown = Unknown /\ left = MaxMoves

-----------------------------------------------------------------------------
(* SensorFailureManager *)

recordSuccess(m) == [m EXCEPT !.fails = 0]

recordFailure(m) ==
    LET off == m.fails + 1 >= MaxFails /\ ~m.logged IN
    [m EXCEPT !.fails = IF @ = MaxFails THEN @ ELSE @ + 1,
              !.disabled = @ \/ off, !.logged = @ \/ off]

TestDue(m) == kind = "soil" \/ m.since >= Interval

(* Mutant: a good test only counts if the one before was bad.              *)
TestedOnce(m, ok) ==
    IF ~ok THEN [m EXCEPT !.wins = 0, !.since = 0]
    ELSE IF m.wins + 1 >= Wins THEN [Enabled EXCEPT !.since = 0]
    ELSE [m EXCEPT !.wins = 1, !.since = 0]

Tested(m, ok) ==
    IF ~ok THEN [m EXCEPT !.wins = 0, !.since = 0]
    ELSE IF m.wins + 1 >= Wins THEN [Enabled EXCEPT !.since = 0]
    ELSE [m EXCEPT !.wins = @ + 1, !.since = 0]

-----------------------------------------------------------------------------
(* A pass of a driver is a function of its state s = [m, last, hist, got]. *)

State == [m |-> [mgr EXCEPT !.since = IF @ = Interval THEN @ ELSE @ + 1],
          last |-> last, hist |-> hist, got |-> Unknown]

Kept(s) == IF s.last = Unknown THEN Default ELSE s.last

Failed(s, got) == [s EXCEPT !.m = recordFailure(@), !.got = got]
Accepted(s) == [s EXCEPT !.m = recordSuccess(@), !.last = world.level, !.got = world.level]

(* A disabled sensor: one test reading, when it is due.                    *)
TestPass(s, a, got) ==
    LET t == Tested(s.m, a # "none") IN
    IF ~TestDue(s.m) THEN [s EXCEPT !.got = got]
    ELSE IF t.disabled THEN [s EXCEPT !.m = t, !.got = got]
    ELSE [s EXCEPT !.m = t, !.last = IF kind = "air" THEN @ ELSE world.level,
                   !.got = world.level]

(* readReactiveFiltered: 0 is unknown.                                     *)
ReactivePass(s, a) == IF s.m.disabled THEN TestPass(s, a, Unknown)
                      ELSE IF a = "none" THEN Failed(s, Unknown) ELSE Accepted(s)

Median(q) == LET n == Len(q) \div 2 IN
    CHOOSE v \in Range(q) : /\ Cardinality({i \in DOMAIN q : q[i] < v}) <= n
                            /\ Cardinality({i \in DOMAIN q : q[i] <= v}) > n

Reference(s) == IF Len(s.hist) >= 3 THEN Median(s.hist) ELSE s.last
Jump(s) == LET r == Reference(s) IN r # Unknown /\ (world.level - r > MaxDelta \/ r - world.level > MaxDelta)

(* acceptTankJump                                                          *)
AcceptJump(ref, a, drain) ==
    LET tight == a \in {"good", "few"} IN
    IF world.level > ref THEN \/ world.level - ref <= Drain
                              \/ tight /\ (drain \/ a = "good")
    ELSE ref - world.level <= Fill /\ a = "good"

Consensus(s) ==
    Cardinality({i \in DOMAIN s.hist : i <= 3 /\ s.hist[i] = world.level}) >= 2

(* readAdvancedFiltered: a refused jump is neither a success nor a failure.*)
TankPass(s, a, drain) ==
    IF s.m.disabled THEN TestPass(s, a, s.last)
    ELSE IF a = "none" THEN Failed(s, s.last)
    ELSE IF Jump(s) /\ ~AcceptJump(Reference(s), a, drain) /\ ~Consensus(s)
    THEN [s EXCEPT !.got = Reference(s)]
    ELSE [Accepted(s) EXCEPT !.hist = SubSeq(<<world.level>> \o @, 1,
                                             IF Len(@) = HistSize THEN HistSize ELSE Len(@) + 1)]

(* getTemperatureWithFallback: a bad reading is recorded twice.            *)
WaterPass(s, a) == IF s.m.disabled THEN TestPass(s, a, Kept(s))
                   ELSE IF a = "none" THEN Failed(Failed(s, Kept(s)), Kept(s))
                   ELSE Accepted(s)

(* robustTemperatureC: the running mean stands for a reading that failed,  *)
(* and counts as a success; without one, a second reading is tried.        *)
AirPass(s, a, b) ==
    IF s.m.disabled THEN TestPass(s, a, Default)
    ELSE IF a # "none" THEN Accepted(s)
    ELSE IF s.last # Unknown THEN [s EXCEPT !.m = recordSuccess(@), !.got = s.last]
    ELSE IF b # "none" THEN [s EXCEPT !.m = recordSuccess(@), !.got = world.level]
    ELSE Failed(s, Unknown)

SoilPass(s, a) == IF s.m.disabled THEN TestPass(s, a, Kept(s))
                  ELSE IF a = "none" THEN Failed(s, Kept(s)) ELSE Accepted(s)

(* SystemSensors::read, the part of one sensor: a second reading of the    *)
(* levels that came back unknown, then the fallback each of them has.      *)
Read(a, b, drain) ==
    LET one == ReactivePass(State, a)
        tank == TankPass(State, a, drain)
    IN CASE kind = "aqua" -> IF one.got # Unknown \/ b = "none" THEN one
                             ELSE [one EXCEPT !.got = world.level]
         [] kind = "pota" -> [one EXCEPT !.got = IF @ = Unknown THEN Kept(one) ELSE @]
         [] kind = "tank" -> IF tank.got # Unknown THEN tank
                             ELSE LET two == TankPass(tank, b, drain)
                                  IN [two EXCEPT !.got = IF @ = Unknown THEN Default ELSE @]
         [] kind = "water" -> WaterPass(State, a)
         [] kind = "air" -> AirPass(State, a, b)
         [] kind = "soil" -> SoilPass(State, a)

(* A second reading only tells whether there is an echo.                   *)
Pass == \E a \in Answers, b \in {"good", "none"}, drain \in BOOLEAN :
    /\ world.sensor = "works" => a = "good" /\ b = "good"
    /\ world.sensor = "gone" => a = "none" /\ b = "none"
    /\ LET s == Read(a, b, drain) IN
       mgr' = s.m /\ last' = s.last /\ hist' = s.hist /\ shown' = s.got
    /\ UNCHANGED <<kind, world, left>>

(* The level changes, the sensor fails or is repaired.                     *)
Move == /\ left > 0 /\ left' = left - 1
        /\ \E w \in [level : Levels, sensor : {"works", "flaky", "gone"}] :
              w # world /\ world' = w
        /\ UNCHANGED <<kind, mgr, last, hist, shown>>

(* A reset: the water probe has its last value from the flash.             *)
Reset == /\ left > 0 /\ left' = left - 1
         /\ mgr' = Booted(kind, world) /\ hist' = <<>> /\ shown' = Unknown
         /\ last' = IF kind = "water" THEN last ELSE Unknown
         /\ UNCHANGED <<kind, world>>

Next == Pass \/ Move \/ Reset
Spec == Init /\ [][Next]_svars /\ WF_svars(Pass)

-----------------------------------------------------------------------------
(* A sensor that works for good is read for good: whatever it went through *)
(* - failures, disabling, interrupted tests, a reset -, what is shown ends *)
(* up being the level, but for a tank that fills by more than a jump.      *)
Follows == <>[](world.sensor = "works" /\ (kind = "tank" => ~Jump(State)))
           => <>[](shown = world.level)

(* A sensor that is gone is disabled for good, but for an air sensor: once *)
(* it answered, its mean stands for the readings that fail.                *)
GoneIsDisabled == kind # "air" => (<>[](world.sensor = "gone") => <>[]mgr.disabled)

=============================================================================
