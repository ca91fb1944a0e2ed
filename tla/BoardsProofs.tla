---------------------------- MODULE BoardsProofs ----------------------------
(***************************************************************************)
(* The greenhouse node waters as it was meant to, the boards' mails keep   *)
(* to their budgets, the log of events is exact, the camera's photos wait  *)
(* in the queue, the panel stops and a board has a whole image to start:   *)
(* for every cooldown, budget, size of the ring, range of the panel and    *)
(* number of photos, versions and resets.                                  *)
(***************************************************************************)
EXTENDS Boards, WellFoundedInduction, TLAPS

-----------------------------------------------------------------------------
(* The waterings of the greenhouse node (Node), as facts about a world.     *)

Steps == {"asleep", "forever", "config", "restart", "sense", "auto", "drily", "hour", "hourly",
          "manual", "manually", "payload", "report", "sleep"}

Worlds ==
    [rtc : [edge : BOOLEAN, last : BOOLEAN, cool : 0..COOLDOWN, fait : BOOLEAN],
     ram : [step : Steps, wakeUp : BOOLEAN, resetMode : BOOLEAN, manu : BOOLEAN,
            timed : BOOLEAN, dry : BOOLEAN, watered : BOOLEAN],
     server : [manu : BOOLEAN, reset : BOOLEAN, awake : BOOLEAN],
     seen : [since : 0..COOLDOWN, spaced : BOOLEAN, due : BOOLEAN, twice : BOOLEAN,
             doses : Nat, reboots : Nat]]

(* The cooldown counts no more than the time that passed, but for the sleep *)
(* to come, which is counted before it is slept.                            *)
Spaced(w) ==
    /\ w.ram.step \notin {"drily", "asleep", "forever", "sleep"} => w.rtc.cool <= w.seen.since
    /\ w.ram.step = "sleep" /\ w.ram.wakeUp => w.rtc.cool <= w.seen.since
    /\ w.ram.step \in {"sleep", "asleep"} => w.rtc.cool <= w.seen.since + 1
    /\ w.ram.step = "drily" => w.seen.spaced

(* A command that the server or the board knows of is still to serve.       *)
Served(w) ==
    /\ w.ram.step # "manually" => (w.ram.manu \/ w.server.manu => w.seen.due)
    /\ ~w.seen.twice

(* The dose of the hour is on record, from the end of its watering on.      *)
Dosed(w, h) ==
    /\ w.seen.doses <= 1
    /\ w.seen.doses = 1 => h = Dose /\ (w.ram.step # "hourly" => w.rtc.fait)

(* A reset flag that the board has not seen up yet has not restarted it.    *)
Edged(w) ==
    /\ w.seen.reboots <= 1
    /\ w.ram.step = "restart" => w.seen.reboots = 0
    /\ w.rtc.edge /\ ~w.rtc.last /\ (w.server.reset \/ w.ram.resetMode) => w.seen.reboots = 0

Sound(w, h) == Spaced(w) /\ Served(w) /\ Dosed(w, h) /\ Edged(w)
NodeInv == World \in Worlds /\ Sound(World, hour)

LEMMA NodeConstants == COOLDOWN \in Nat \ {0}
BY NodeAssumption

LEMMA WorldFacts ==
    /\ World.rtc = rtc /\ World.ram = ram /\ World.server = server /\ World.seen = seen
    /\ World = [rtc |-> rtc, ram |-> ram, server |-> server, seen |-> seen]
BY DEF World

(* A step to a sound world keeps the invariant.                             *)
LEMMA BecomeSound ==
    ASSUME NEW w \in Worlds, Sound(w, hour'), Become(w)
    PROVE  NodeInv'
<1>1. w = [rtc |-> w.rtc, ram |-> w.ram, server |-> w.server, seen |-> w.seen]
  BY DEF Worlds
<1>2. World' = w
  BY <1>1 DEF World, Become
<1>. QED  BY <1>2 DEF NodeInv

(* A read of the commands, or a read that failed.                           *)
LEMMA FetchFacts ==
    ASSUME NEW w \in Worlds, NEW v \in variablestoesp(w)
    PROVE  /\ v \in Worlds
           /\ v.rtc = w.rtc /\ v.server = w.server /\ v.seen = w.seen
           /\ v.ram.step = w.ram.step
           /\ v.ram.manu \in {w.ram.manu, w.server.manu}
           /\ v.ram.resetMode \in {w.ram.resetMode, w.server.reset}
<1>1. CASE v = w
  BY <1>1
<1>2. CASE v = [w EXCEPT !.ram.manu = w.server.manu, !.ram.resetMode = w.server.reset,
                         !.ram.wakeUp = w.server.awake]
  BY <1>2 DEF Worlds
<1>. QED  BY <1>1, <1>2 DEF variablestoesp

(* A post that arrives, or one that is lost.                                *)
LEMMA PostFacts ==
    ASSUME NEW w \in Worlds, NEW v \in datatobdd(w)
    PROVE  /\ v \in Worlds
           /\ v.rtc = w.rtc /\ v.ram = w.ram /\ v.seen = w.seen
           /\ v.server.reset = w.server.reset
           /\ v.server.manu \in {w.ram.manu, w.server.manu}
<1>1. CASE v = w
  BY <1>1
<1>2. CASE v = [w EXCEPT !.server.manu = w.ram.manu]
  BY <1>2 DEF Worlds
<1>. QED  BY <1>1, <1>2 DEF datatobdd, Posted

LEMMA PostSound ==
    ASSUME NEW w \in Worlds, NEW h, Sound(w, h), w.ram.step # "manually", NEW v \in datatobdd(w)
    PROVE  v \in Worlds /\ Sound(v, h)
BY PostFacts DEF Sound, Spaced, Served, Dosed, Edged

(* The start of a wake-up, from an RTC memory and a history.                *)
Startable(r, s, h) ==
    /\ r \in [edge : BOOLEAN, last : BOOLEAN, cool : 0..COOLDOWN, fait : BOOLEAN]
    /\ s \in [since : 0..COOLDOWN, spaced : BOOLEAN, due : BOOLEAN, twice : BOOLEAN,
              doses : Nat, reboots : Nat]
    /\ r.cool <= s.since /\ (server.manu => s.due) /\ ~s.twice
    /\ s.doses <= 1 /\ (s.doses = 1 => h = Dose /\ r.fait)
    /\ s.reboots <= 1 /\ (r.edge /\ ~r.last /\ server.reset => s.reboots = 0)

LEMMA SetupSound ==
    ASSUME server \in [manu : BOOLEAN, reset : BOOLEAN, awake : BOOLEAN],
           NEW r, NEW s, Startable(r, s, hour'), Setup(r, s)
    PROVE  NodeInv'
<1>. DEFINE w == [rtc |-> r, server |-> server, seen |-> s, ram |-> [Ram0 EXCEPT !.step = "config"]]
<1>1. PICK v \in variablestoesp(w) : Become(v)
  BY DEF Setup
<1>2. w \in Worlds
  <2>1. [Ram0 EXCEPT !.step = "config"]
          \in [step : Steps, wakeUp : BOOLEAN, resetMode : BOOLEAN, manu : BOOLEAN,
               timed : BOOLEAN, dry : BOOLEAN, watered : BOOLEAN]
    BY DEF Ram0, Steps
  <2>. QED  BY <2>1 DEF Startable, Worlds
<1>3. /\ w.rtc = r /\ w.server = server /\ w.seen = s /\ w.ram.step = "config"
      /\ w.ram.manu = FALSE /\ w.ram.resetMode = FALSE
  BY DEF Ram0
<1>. HIDE DEF w
<1>4. /\ v \in Worlds /\ v.rtc = r /\ v.server = server /\ v.seen = s /\ v.ram.step = "config"
      /\ v.ram.manu \in {FALSE, server.manu} /\ v.ram.resetMode \in {FALSE, server.reset}
  BY <1>1, <1>2, <1>3, FetchFacts
<1>5. Sound(v, hour')
  BY <1>4 DEF Startable, Sound, Spaced, Served, Dosed, Edged
<1>. QED  BY <1>1, <1>4, <1>5, BecomeSound

LEMMA NodeTypes ==
    ASSUME NodeInv
    PROVE  /\ rtc \in [edge : BOOLEAN, last : BOOLEAN, cool : 0..COOLDOWN, fait : BOOLEAN]
           /\ ram \in [step : Steps, wakeUp : BOOLEAN, resetMode : BOOLEAN, manu : BOOLEAN,
                       timed : BOOLEAN, dry : BOOLEAN, watered : BOOLEAN]
           /\ server \in [manu : BOOLEAN, reset : BOOLEAN, awake : BOOLEAN]
           /\ seen \in [since : 0..COOLDOWN, spaced : BOOLEAN, due : BOOLEAN, twice : BOOLEAN,
                        doses : Nat, reboots : Nat]
           /\ World \in Worlds /\ Sound(World, hour)
BY DEF NodeInv, World, Worlds

LEMMA SaturatedFacts ==
    ASSUME NEW n \in 0..COOLDOWN, NEW d \in Nat
    PROVE  /\ Saturated(n, d) \in 0..COOLDOWN
           /\ \/ Saturated(n, d) = n + d
              \/ Saturated(n, d) = COOLDOWN /\ COOLDOWN < n + d
BY NodeConstants DEF Saturated

LEMMA NodeStep == NodeInv /\ [Next]_nvars => NodeInv'
<1>. SUFFICES ASSUME NodeInv, [Next]_nvars  PROVE NodeInv'
  OBVIOUS
<1>a. /\ rtc \in [edge : BOOLEAN, last : BOOLEAN, cool : 0..COOLDOWN, fait : BOOLEAN]
      /\ ram \in [step : Steps, wakeUp : BOOLEAN, resetMode : BOOLEAN, manu : BOOLEAN,
                  timed : BOOLEAN, dry : BOOLEAN, watered : BOOLEAN]
      /\ server \in [manu : BOOLEAN, reset : BOOLEAN, awake : BOOLEAN]
      /\ seen \in [since : 0..COOLDOWN, spaced : BOOLEAN, due : BOOLEAN, twice : BOOLEAN,
                   doses : Nat, reboots : Nat]
      /\ World \in Worlds
  BY NodeTypes
<1>b. /\ Spaced(World) /\ Served(World) /\ Dosed(World, hour) /\ Edged(World)
  BY NodeTypes DEF Sound
<1>c. COOLDOWN \in Nat \ {0}
  BY NodeConstants
<1>d. /\ World.rtc = rtc /\ World.ram = ram /\ World.server = server /\ World.seen = seen
      /\ World = [rtc |-> rtc, ram |-> ram, server |-> server, seen |-> seen]
  BY WorldFacts
<1>f. Rtc0 \in [edge : BOOLEAN, last : BOOLEAN, cool : 0..COOLDOWN, fait : BOOLEAN]
  BY <1>c DEF Rtc0
<1>1. CASE WakeTimer
  <2>. DEFINE s == [seen EXCEPT !.since = Saturated(@, 1),
                                !.doses = IF hour' = hour THEN @ ELSE 0]
  <2>1. ram.step = "asleep" /\ Setup(rtc, s)
    BY <1>1 DEF WakeTimer
  <2>2. Saturated(seen.since, 1) \in 0..COOLDOWN /\ rtc.cool <= Saturated(seen.since, 1)
    BY <1>a, <1>b, <1>d, <2>1, SaturatedFacts DEF Spaced
  <2>3. /\ s \in [since : 0..COOLDOWN, spaced : BOOLEAN, due : BOOLEAN, twice : BOOLEAN,
                   doses : Nat, reboots : Nat]
        /\ s.since = Saturated(seen.since, 1) /\ s.due = seen.due /\ s.twice = seen.twice
        /\ s.reboots = seen.reboots /\ s.doses = IF hour' = hour THEN seen.doses ELSE 0
    BY <1>a, <2>2
  <2>. HIDE DEF s
  <2>4. /\ (server.manu => s.due) /\ ~s.twice
        /\ s.doses <= 1 /\ (s.doses = 1 => hour' = Dose /\ rtc.fait)
        /\ s.reboots <= 1 /\ (rtc.edge /\ ~rtc.last /\ server.reset => s.reboots = 0)
    BY <1>b, <1>d, <2>1, <2>3 DEF Served, Dosed, Edged
  <2>5. Startable(rtc, s, hour')
    BY <1>a, <2>2, <2>3, <2>4 DEF Startable
  <2>. QED  BY <1>a, <2>1, <2>5, SetupSound
<1>2. CASE WakeGpio
  <2>. DEFINE s == [seen EXCEPT !.since = COOLDOWN]
  <2>1. ram.step \in {"asleep", "forever"} /\ Setup(rtc, s) /\ hour' = hour
    BY <1>2 DEF WakeGpio
  <2>2. /\ s \in [since : 0..COOLDOWN, spaced : BOOLEAN, due : BOOLEAN, twice : BOOLEAN,
                   doses : Nat, reboots : Nat]
        /\ s.since = COOLDOWN /\ s.due = seen.due /\ s.twice = seen.twice
        /\ s.reboots = seen.reboots /\ s.doses = seen.doses
    BY <1>a, <1>c
  <2>. HIDE DEF s
  <2>3. /\ (server.manu => s.due) /\ ~s.twice
        /\ s.doses <= 1 /\ (s.doses = 1 => hour' = Dose /\ rtc.fait)
        /\ s.reboots <= 1 /\ (rtc.edge /\ ~rtc.last /\ server.reset => s.reboots = 0)
    BY <1>b, <1>d, <2>1, <2>2 DEF Served, Dosed, Edged
  <2>4. rtc.cool <= s.since
    BY <1>a, <1>c, <2>2
  <2>5. Startable(rtc, s, hour')
    BY <1>a, <2>2, <2>3, <2>4 DEF Startable
  <2>. QED  BY <1>a, <2>1, <2>5, SetupSound
<1>3. CASE Reset
  <2>. DEFINE t == [seen EXCEPT !.since = COOLDOWN]
              s == [t EXCEPT !.due = TRUE]
  <2>1. Setup(Rtc0, s) /\ hour' = hour
    BY <1>3 DEF Reset
  <2>a. /\ t \in [since : 0..COOLDOWN, spaced : BOOLEAN, due : BOOLEAN, twice : BOOLEAN,
                   doses : Nat, reboots : Nat]
        /\ t.since = COOLDOWN /\ t.twice = seen.twice
        /\ t.reboots = seen.reboots /\ t.doses = seen.doses
    BY <1>a, <1>c
  <2>. HIDE DEF t
  <2>2. /\ s \in [since : 0..COOLDOWN, spaced : BOOLEAN, due : BOOLEAN, twice : BOOLEAN,
                   doses : Nat, reboots : Nat]
        /\ s.since = COOLDOWN /\ s.due = TRUE /\ s.twice = seen.twice
        /\ s.reboots = seen.reboots /\ s.doses = seen.doses
    BY <1>c, <2>a
  <2>. HIDE DEF s
  <2>3. /\ ~s.twice /\ s.doses <= 1 /\ (s.doses = 1 => hour' = Dose)
        /\ s.reboots <= 1
    BY <1>b, <1>d, <2>1, <2>2 DEF Served, Dosed, Edged
  <2>4. Rtc0.cool = COOLDOWN /\ Rtc0.fait = TRUE /\ Rtc0.edge = FALSE
    BY DEF Rtc0
  <2>5. Rtc0.cool <= s.since
    BY <1>c, <2>2, <2>4
  <2>6. Startable(Rtc0, s, hour')
    BY <1>f, <2>2, <2>3, <2>4, <2>5 DEF Startable
  <2>. QED  BY <1>a, <2>1, <2>6, SetupSound
<1>4. CASE ApplyRemoteConfig
  <2>1. PICK w \in variablestoesp(World) : Become(AfterPoll(w))
    BY <1>4 DEF ApplyRemoteConfig
  <2>2. ram.step = "config" /\ hour' = hour
    BY <1>4 DEF ApplyRemoteConfig
  <2>3. /\ w \in Worlds /\ w.rtc = rtc /\ w.server = server /\ w.seen = seen
        /\ w.ram.step = "config" /\ w.ram.manu \in {ram.manu, server.manu}
        /\ w.ram.resetMode \in {ram.resetMode, server.reset}
    BY <1>a, <1>d, <2>1, <2>2, FetchFacts
  <2>. DEFINE missed == w.server.reset /\ ~w.ram.resetMode
              v == [w EXCEPT !.seen.reboots = IF missed THEN 0 ELSE @]
  <2>4. /\ v \in Worlds /\ v.rtc = rtc /\ v.server = server /\ v.ram = w.ram
        /\ v.seen = [seen EXCEPT !.reboots = IF missed THEN 0 ELSE @]
    BY <2>3 DEF Worlds
  <2>5. /\ v.seen.since = seen.since /\ v.seen.due = seen.due /\ v.seen.twice = seen.twice
        /\ v.seen.doses = seen.doses
        /\ v.seen.reboots = IF missed THEN 0 ELSE seen.reboots
    BY <1>a, <2>4
  <2>. HIDE DEF v
  <2>6. CASE Edge(v)
    <3>. DEFINE x == [v EXCEPT !.ram.step = "restart"]
    <3>1. Become(x)
      BY <2>1, <2>6 DEF AfterPoll, v
    <3>2. /\ x \in Worlds /\ x.rtc = rtc /\ x.server = server /\ x.seen = v.seen
          /\ x.ram.step = "restart" /\ x.ram.manu = w.ram.manu /\ x.ram.resetMode = w.ram.resetMode
      BY <2>4 DEF Worlds, Steps
    <3>. HIDE DEF x
    <3>3. rtc.edge /\ ~rtc.last /\ w.ram.resetMode
      BY <2>4, <2>6 DEF Edge
    <3>4. v.seen.reboots = 0
      BY <1>b, <1>d, <2>3, <2>5, <3>3 DEF Edged
    <3>5. Sound(x, hour')
      BY <1>b, <1>d, <2>2, <2>3, <2>5, <3>2, <3>4 DEF Sound, Spaced, Served, Dosed, Edged
    <3>. QED  BY <3>1, <3>2, <3>5, BecomeSound
  <2>7. CASE ~Edge(v)
    <3>. DEFINE x == [v EXCEPT !.rtc.last = v.ram.resetMode, !.rtc.edge = TRUE,
                               !.ram.step = "sense"]
    <3>1. Become(x)
      BY <2>1, <2>7 DEF AfterPoll, v
    <3>2. /\ x \in Worlds /\ x.server = server /\ x.seen = v.seen
          /\ x.rtc.last = w.ram.resetMode /\ x.rtc.cool = rtc.cool /\ x.rtc.fait = rtc.fait
          /\ x.ram.step = "sense" /\ x.ram.manu = w.ram.manu /\ x.ram.resetMode = w.ram.resetMode
      BY <2>4 DEF Worlds, Steps
    <3>. HIDE DEF x
    <3>3. ~w.ram.resetMode /\ server.reset => v.seen.reboots = 0
      BY <2>3, <2>5
    <3>4. Sound(x, hour')
      BY <1>a, <1>b, <1>d, <2>2, <2>3, <2>5, <3>2, <3>3 DEF Sound, Spaced, Served, Dosed, Edged
    <3>. QED  BY <3>1, <3>2, <3>4, BecomeSound
  <2>. QED  BY <2>6, <2>7
<1>5. CASE Restart
  <2>. DEFINE t == [seen EXCEPT !.reboots = @ + 1]
              s == [t EXCEPT !.since = COOLDOWN]
  <2>1. ram.step = "restart" /\ Setup(Rtc0, s) /\ hour' = hour
    BY <1>5 DEF Restart
  <2>a. /\ t \in [since : 0..COOLDOWN, spaced : BOOLEAN, due : BOOLEAN, twice : BOOLEAN,
                   doses : Nat, reboots : Nat]
        /\ t.due = seen.due /\ t.twice = seen.twice
        /\ t.reboots = seen.reboots + 1 /\ t.doses = seen.doses
    BY <1>a
  <2>. HIDE DEF t
  <2>2. /\ s \in [since : 0..COOLDOWN, spaced : BOOLEAN, due : BOOLEAN, twice : BOOLEAN,
                   doses : Nat, reboots : Nat]
        /\ s.since = COOLDOWN /\ s.due = seen.due /\ s.twice = seen.twice
        /\ s.reboots = seen.reboots + 1 /\ s.doses = seen.doses
    BY <1>c, <2>a
  <2>. HIDE DEF s
  <2>3. /\ (server.manu => s.due) /\ ~s.twice
        /\ s.doses <= 1 /\ (s.doses = 1 => hour' = Dose)
        /\ s.reboots <= 1
    BY <1>b, <1>d, <2>1, <2>2 DEF Served, Dosed, Edged
  <2>4. Rtc0.cool = COOLDOWN /\ Rtc0.fait = TRUE /\ Rtc0.edge = FALSE
    BY DEF Rtc0
  <2>5. Rtc0.cool <= s.since
    BY <1>c, <2>2, <2>4
  <2>6. Startable(Rtc0, s, hour')
    BY <1>f, <2>2, <2>3, <2>4, <2>5 DEF Startable
  <2>. QED  BY <1>a, <2>1, <2>6, SetupSound
<1>6. CASE ReadSensors
  <2>1. ram.step = "sense" /\ hour' = hour
    BY <1>6 DEF ReadSensors
  <2>2. ASSUME NEW dry \in BOOLEAN,
               Become([World EXCEPT !.ram.dry = dry, !.ram.watered = FALSE, !.ram.step = "auto"])
        PROVE  NodeInv'
    <3>. DEFINE x == [World EXCEPT !.ram.dry = dry, !.ram.watered = FALSE, !.ram.step = "auto"]
    <3>1. /\ x \in Worlds /\ x.rtc = rtc /\ x.server = server /\ x.seen = seen
          /\ x.ram.step = "auto" /\ x.ram.manu = ram.manu /\ x.ram.resetMode = ram.resetMode
      BY <1>a, <1>d DEF Worlds, Steps
    <3>. HIDE DEF x
    <3>2. Sound(x, hour')
      BY <1>b, <1>d, <2>1, <3>1 DEF Sound, Spaced, Served, Dosed, Edged
    <3>. QED  BY <2>2, <3>1, <3>2, BecomeSound DEF x
  <2>3. ASSUME NEW w \in datatobdd(World),
               Become([w EXCEPT !.ram = [Ram0 EXCEPT !.step = "forever"]])
        PROVE  NodeInv'
    <3>. DEFINE x == [w EXCEPT !.ram = [Ram0 EXCEPT !.step = "forever"]]
    <3>1. /\ w \in Worlds /\ w.rtc = rtc /\ w.seen = seen /\ w.server.reset = server.reset
          /\ w.server.manu \in {ram.manu, server.manu}
      BY <1>a, <1>d, PostFacts
    <3>2. /\ x \in Worlds /\ x.rtc = rtc /\ x.server = w.server /\ x.seen = seen
          /\ x.ram.step = "forever" /\ x.ram.manu = FALSE /\ x.ram.resetMode = FALSE
      BY <3>1 DEF Worlds, Steps, Ram0
    <3>. HIDE DEF x
    <3>3. Sound(x, hour')
      BY <1>b, <1>d, <2>1, <3>1, <3>2 DEF Sound, Spaced, Served, Dosed, Edged
    <3>. QED  BY <2>3, <3>2, <3>3, BecomeSound DEF x
  <2>. QED  BY <1>6, <2>2, <2>3 DEF ReadSensors
<1>7. CASE WaterDry
  <2>. DEFINE w == [World EXCEPT !.ram.dry = FALSE]
  <2>1. ram.step = "auto" /\ hour' = hour
    BY <1>7 DEF WaterDry
  <2>2. CASE ram.dry /\ Cooled(rtc)
    <3>. DEFINE z == [w EXCEPT !.ram.step = "drily"]
                y == [z EXCEPT !.seen.since = 0]
                x == [y EXCEPT !.seen.spaced = seen.since >= COOLDOWN]
    <3>1. Become(x)
      BY <1>7, <2>2 DEF WaterDry
    <3>2. seen.since >= COOLDOWN
      BY <1>a, <1>b, <1>c, <1>d, <2>1, <2>2 DEF Spaced, Cooled
    <3>b. /\ z \in Worlds /\ z.rtc = rtc /\ z.server = server /\ z.seen = seen
          /\ z.ram.step = "drily" /\ z.ram.manu = ram.manu /\ z.ram.resetMode = ram.resetMode
      BY <1>a, <1>d DEF Worlds, Steps
    <3>. HIDE DEF z
    <3>a. /\ y \in Worlds /\ y.rtc = rtc /\ y.server = server
          /\ y.seen.due = seen.due /\ y.seen.twice = seen.twice
          /\ y.seen.doses = seen.doses /\ y.seen.reboots = seen.reboots
          /\ y.ram.step = "drily" /\ y.ram.manu = ram.manu /\ y.ram.resetMode = ram.resetMode
      BY <1>c, <3>b DEF Worlds
    <3>. HIDE DEF y
    <3>3. /\ x \in Worlds /\ x.rtc = rtc /\ x.server = server
          /\ x.seen.spaced = TRUE /\ x.seen.due = seen.due /\ x.seen.twice = seen.twice
          /\ x.seen.doses = seen.doses /\ x.seen.reboots = seen.reboots
          /\ x.ram.step = "drily" /\ x.ram.manu = ram.manu /\ x.ram.resetMode = ram.resetMode
      BY <3>2, <3>a DEF Worlds
    <3>. HIDE DEF x
    <3>4. Sound(x, hour')
      BY <1>b, <1>d, <2>1, <3>3 DEF Sound, Spaced, Served, Dosed, Edged
    <3>. QED  BY <3>1, <3>3, <3>4, BecomeSound
  <2>3. CASE ~(ram.dry /\ Cooled(rtc))
    <3>. DEFINE x == [w EXCEPT !.ram.step = "hour"]
    <3>1. Become(x)
      BY <1>7, <2>3 DEF WaterDry
    <3>2. /\ x \in Worlds /\ x.rtc = rtc /\ x.server = server /\ x.seen = seen
          /\ x.ram.step = "hour" /\ x.ram.manu = ram.manu /\ x.ram.resetMode = ram.resetMode
      BY <1>a, <1>d DEF Worlds, Steps
    <3>. HIDE DEF x
    <3>3. Sound(x, hour')
      BY <1>b, <1>d, <2>1, <3>2 DEF Sound, Spaced, Served, Dosed, Edged
    <3>. QED  BY <3>1, <3>2, <3>3, BecomeSound
  <2>. QED  BY <2>2, <2>3
<1>8. CASE WaterHour
  <2>. DEFINE fait == rtc.fait /\ hour = Dose
              w == [World EXCEPT !.rtc.fait = fait]
  <2>1. ram.step = "hour" /\ hour' = hour /\ fait \in BOOLEAN
    BY <1>a, <1>8 DEF WaterHour
  <2>2. CASE hour = Dose /\ ~fait /\ ~ram.watered
    <3>. DEFINE y == [w EXCEPT !.ram.step = "hourly"]
                x == [y EXCEPT !.seen.doses = @ + 1]
    <3>1. Become(x)
      BY <1>8, <2>2 DEF WaterHour
    <3>2. seen.doses = 0
      BY <1>a, <1>b, <1>d, <2>1, <2>2 DEF Dosed
    <3>a. /\ y \in Worlds /\ y.server = server /\ y.rtc.cool = rtc.cool
          /\ y.rtc.edge = rtc.edge /\ y.rtc.last = rtc.last /\ y.seen = seen
          /\ y.ram.step = "hourly" /\ y.ram.manu = ram.manu /\ y.ram.resetMode = ram.resetMode
      BY <1>a, <1>d, <2>1 DEF Worlds, Steps
    <3>. HIDE DEF y
    <3>3. /\ x \in Worlds /\ x.server = server /\ x.rtc.cool = rtc.cool
          /\ x.rtc.edge = rtc.edge /\ x.rtc.last = rtc.last
          /\ x.seen.since = seen.since /\ x.seen.due = seen.due /\ x.seen.twice = seen.twice
          /\ x.seen.doses = seen.doses + 1 /\ x.seen.reboots = seen.reboots
          /\ x.ram.step = "hourly" /\ x.ram.manu = ram.manu /\ x.ram.resetMode = ram.resetMode
      BY <1>a, <3>a DEF Worlds
    <3>. HIDE DEF x
    <3>4. Sound(x, hour')
      BY <1>b, <1>d, <2>1, <2>2, <3>2, <3>3 DEF Sound, Spaced, Served, Dosed, Edged
    <3>. QED  BY <3>1, <3>3, <3>4, BecomeSound
  <2>3. CASE ~(hour = Dose /\ ~fait /\ ~ram.watered)
    <3>. DEFINE x == [w EXCEPT !.ram.step = "manual"]
    <3>1. Become(x)
      BY <1>8, <2>3 DEF WaterHour
    <3>2. /\ x \in Worlds /\ x.server = server /\ x.rtc.cool = rtc.cool
          /\ x.rtc.edge = rtc.edge /\ x.rtc.last = rtc.last /\ x.rtc.fait = fait
          /\ x.seen = seen
          /\ x.ram.step = "manual" /\ x.ram.manu = ram.manu /\ x.ram.resetMode = ram.resetMode
      BY <1>a, <1>d, <2>1 DEF Worlds, Steps
    <3>. HIDE DEF x
    <3>3. Sound(x, hour')
      BY <1>b, <1>d, <2>1, <3>2 DEF Sound, Spaced, Served, Dosed, Edged
    <3>. QED  BY <3>1, <3>2, <3>3, BecomeSound
  <2>. QED  BY <2>2, <2>3
<1>9. CASE WaterManual
  <2>1. ram.step = "manual" /\ hour' = hour
    BY <1>9 DEF WaterManual
  <2>2. ASSUME ram.manu, NEW w \in datatobdd(World),
               Become([w EXCEPT !.ram.step = "manually", !.seen.due = FALSE,
                                !.seen.twice = ~seen.due])
        PROVE  NodeInv'
    <3>. DEFINE y == [w EXCEPT !.ram.step = "manually", !.seen.due = FALSE]
                x == [y EXCEPT !.seen.twice = ~seen.due]
    <3>1. /\ w \in Worlds /\ w.rtc = rtc /\ w.ram = ram /\ w.seen = seen
          /\ w.server.reset = server.reset
      BY <1>a, <1>d, PostFacts
    <3>2. seen.due
      BY <1>b, <1>d, <2>1, <2>2 DEF Served
    <3>a. /\ y \in Worlds /\ y.rtc = rtc /\ y.server = w.server
          /\ y.seen.since = seen.since
          /\ y.seen.doses = seen.doses /\ y.seen.reboots = seen.reboots
          /\ y.ram.step = "manually" /\ y.ram.resetMode = ram.resetMode
      BY <1>a, <3>1 DEF Worlds, Steps
    <3>b. Become(x)
      BY <2>2
    <3>. HIDE DEF y
    <3>3. /\ x \in Worlds /\ x.rtc = rtc /\ x.server = w.server
          /\ x.seen.since = seen.since /\ x.seen.twice = FALSE
          /\ x.seen.doses = seen.doses /\ x.seen.reboots = seen.reboots
          /\ x.ram.step = "manually" /\ x.ram.resetMode = ram.resetMode
      BY <3>2, <3>a DEF Worlds
    <3>. HIDE DEF x
    <3>4. Sound(x, hour')
      BY <1>b, <1>d, <2>1, <3>1, <3>3 DEF Sound, Spaced, Served, Dosed, Edged
    <3>. QED  BY <3>b, <3>3, <3>4, BecomeSound
  <2>3. ASSUME Become([World EXCEPT !.ram.step = "payload"])  PROVE NodeInv'
    <3>. DEFINE x == [World EXCEPT !.ram.step = "payload"]
    <3>1. /\ x \in Worlds /\ x.rtc = rtc /\ x.server = server /\ x.seen = seen
          /\ x.ram.step = "payload" /\ x.ram.manu = ram.manu /\ x.ram.resetMode = ram.resetMode
      BY <1>a, <1>d DEF Worlds, Steps
    <3>. HIDE DEF x
    <3>2. Sound(x, hour')
      BY <1>b, <1>d, <2>1, <3>1 DEF Sound, Spaced, Served, Dosed, Edged
    <3>. QED  BY <2>3, <3>1, <3>2, BecomeSound DEF x
  <2>. QED  BY <1>9, <2>2, <2>3 DEF WaterManual
<1>10. CASE WateringEnds
  <2>. DEFINE next == [drily |-> "hour", hourly |-> "manual", manually |-> "payload"]
              w == [Watered(World) EXCEPT !.ram.step = next[ram.step],
                                          !.rtc.fait = @ \/ ram.step = "hourly"]
              v == IF ram.step = "manually" THEN ManualDone(w) ELSE w
  <2>1. ram.step \in {"drily", "hourly", "manually"} /\ hour' = hour
    BY <1>10 DEF WateringEnds
  <2>2. next[ram.step] \in {"hour", "manual", "payload"}
    BY <2>1
  <2>3. /\ v \in Worlds /\ v.server = server /\ v.seen = seen
        /\ v.rtc.cool = 0 /\ v.rtc.edge = rtc.edge /\ v.rtc.last = rtc.last
        /\ (v.rtc.fait <=> rtc.fait \/ ram.step = "hourly")
        /\ v.ram.step = next[ram.step] /\ v.ram.resetMode = ram.resetMode
        /\ (v.ram.manu <=> ram.manu /\ ram.step # "manually")
    <3>. DEFINE s == [World EXCEPT !.ram.watered = TRUE]
                u == [s EXCEPT !.rtc.cool = 0]
                t == [u EXCEPT !.ram.step = next[ram.step]]
    <3>d. /\ s \in Worlds /\ s.server = server /\ s.seen = seen /\ s.rtc = rtc
          /\ s.ram.resetMode = ram.resetMode /\ s.ram.manu = ram.manu
      BY <1>a, <1>d DEF Worlds
    <3>e. Watered(World) = u
      BY DEF Watered
    <3>. HIDE DEF s
    <3>a. /\ u \in Worlds /\ u.server = server /\ u.seen = seen
          /\ u.rtc.cool = 0 /\ u.rtc.edge = rtc.edge /\ u.rtc.last = rtc.last
          /\ u.rtc.fait = rtc.fait /\ u.ram.resetMode = ram.resetMode
          /\ u.ram.manu = ram.manu
      BY <1>c, <3>d DEF Worlds
    <3>. HIDE DEF u
    <3>b. /\ t \in Worlds /\ t.server = server /\ t.seen = seen
          /\ t.rtc = u.rtc /\ t.ram.step = next[ram.step]
          /\ t.ram.resetMode = ram.resetMode /\ t.ram.manu = ram.manu
      BY <2>2, <3>a DEF Worlds, Steps
    <3>c. w = [t EXCEPT !.rtc.fait = @ \/ ram.step = "hourly"]
      BY <3>e
    <3>. HIDE DEF t, w
    <3>1. /\ w \in Worlds /\ w.server = server /\ w.seen = seen
          /\ w.rtc.cool = 0 /\ w.rtc.edge = rtc.edge /\ w.rtc.last = rtc.last
          /\ (w.rtc.fait <=> rtc.fait \/ ram.step = "hourly")
          /\ w.ram.step = next[ram.step] /\ w.ram.resetMode = ram.resetMode
          /\ w.ram.manu = ram.manu
      BY <3>a, <3>b, <3>c DEF Worlds
    <3>2. CASE ram.step = "manually"
      BY <3>1, <3>2 DEF ManualDone, Worlds
    <3>3. CASE ram.step # "manually"
      BY <3>1, <3>3
    <3>. QED  BY <3>2, <3>3
  <2>. HIDE DEF v
  <2>4. CASE Become(Posted(v))
    <3>1. /\ Posted(v) \in Worlds /\ Posted(v).rtc = v.rtc /\ Posted(v).ram = v.ram
          /\ Posted(v).seen = seen /\ Posted(v).server.reset = server.reset
          /\ Posted(v).server.manu = v.ram.manu
      BY <2>3 DEF Posted, Worlds
    <3>2. Sound(Posted(v), hour')
      BY <1>a, <1>b, <1>d, <2>1, <2>2, <2>3, <3>1 DEF Sound, Spaced, Served, Dosed, Edged
    <3>. QED  BY <2>4, <3>1, <3>2, BecomeSound
  <2>5. CASE Become([v EXCEPT !.seen.due = @ \/ ram.step = "manually"])
    <3>. DEFINE x == [v EXCEPT !.seen.due = @ \/ ram.step = "manually"]
    <3>1. /\ x \in Worlds /\ x.rtc = v.rtc /\ x.ram = v.ram /\ x.server = server
          /\ x.seen.since = seen.since /\ x.seen.spaced = seen.spaced
          /\ (x.seen.due <=> seen.due \/ ram.step = "manually") /\ x.seen.twice = seen.twice
          /\ x.seen.doses = seen.doses /\ x.seen.reboots = seen.reboots
      BY <1>a, <2>3 DEF Worlds
    <3>. HIDE DEF x
    <3>2. Sound(x, hour')
      BY <1>a, <1>b, <1>d, <2>1, <2>2, <2>3, <3>1 DEF Sound, Spaced, Served, Dosed, Edged
    <3>. QED  BY <2>5, <3>1, <3>2, BecomeSound DEF x
  <2>6. Become(Posted(v)) \/ Become([v EXCEPT !.seen.due = @ \/ ram.step = "manually"])
    BY <1>10 DEF WateringEnds, v
  <2>. QED  BY <2>4, <2>5, <2>6
<1>11. CASE Payload
  <2>1. PICK w \in datatobdd(World) : Become([w EXCEPT !.ram.step = "report"])
    BY <1>11 DEF Payload
  <2>. DEFINE x == [w EXCEPT !.ram.step = "report"]
  <2>2. ram.step = "payload" /\ hour' = hour
    BY <1>11 DEF Payload
  <2>3. /\ w \in Worlds /\ w.rtc = rtc /\ w.ram = ram /\ w.seen = seen
        /\ w.server.reset = server.reset /\ w.server.manu \in {ram.manu, server.manu}
    BY <1>a, <1>d, PostFacts
  <2>4. /\ x \in Worlds /\ x.rtc = rtc /\ x.server = w.server /\ x.seen = seen
        /\ x.ram.step = "report" /\ x.ram.manu = ram.manu /\ x.ram.resetMode = ram.resetMode
    BY <2>3 DEF Worlds, Steps
  <2>5. Become(x)
    BY <2>1
  <2>. HIDE DEF x
  <2>6. Sound(x, hour')
    BY <1>b, <1>d, <2>2, <2>3, <2>4 DEF Sound, Spaced, Served, Dosed, Edged
  <2>. QED  BY <2>4, <2>5, <2>6, BecomeSound
<1>12. ASSUME NEW d \in 0..1, SendReports(d)  PROVE NodeInv'
  <2>. DEFINE cool == Saturated(rtc.cool, Elapsed(d))
              since == IF ram.wakeUp THEN Saturated(seen.since, d) ELSE seen.since
              x == [World EXCEPT !.rtc.cool = Saturated(@, Elapsed(d)),
                                 !.seen.since = IF ram.wakeUp THEN Saturated(@, d) ELSE @,
                                 !.ram.timed = TRUE, !.ram.step = "sleep"]
  <2>1. ram.step = "report" /\ hour' = hour /\ Become(x)
    BY <1>12 DEF SendReports
  <2>2. /\ Elapsed(d) \in Nat
        /\ (ram.wakeUp => Elapsed(d) <= d) /\ (~ram.wakeUp => Elapsed(d) = 1)
    BY DEF Elapsed
  <2>3. /\ cool \in 0..COOLDOWN
        /\ \/ cool = rtc.cool + Elapsed(d)
           \/ cool = COOLDOWN /\ COOLDOWN < rtc.cool + Elapsed(d)
    BY <1>a, <2>2, SaturatedFacts
  <2>4. /\ Saturated(seen.since, d) \in 0..COOLDOWN
        /\ \/ Saturated(seen.since, d) = seen.since + d
           \/ Saturated(seen.since, d) = COOLDOWN
    <3>1. d \in Nat
      OBVIOUS
    <3>. QED  BY <1>a, <3>1, SaturatedFacts
  <2>5. /\ x \in Worlds /\ x.server = server /\ x.rtc.cool = cool /\ x.rtc.edge = rtc.edge
        /\ x.rtc.last = rtc.last /\ x.rtc.fait = rtc.fait
        /\ x.seen.since = since /\ x.seen.due = seen.due /\ x.seen.twice = seen.twice
        /\ x.seen.doses = seen.doses /\ x.seen.reboots = seen.reboots
        /\ x.ram.step = "sleep" /\ x.ram.manu = ram.manu /\ x.ram.resetMode = ram.resetMode
        /\ x.ram.wakeUp = ram.wakeUp
    BY <1>a, <1>d, <2>3, <2>4 DEF Worlds, Steps
  <2>6. rtc.cool <= seen.since
    BY <1>b, <1>d, <2>1 DEF Spaced
  <2>7. /\ since \in 0..COOLDOWN /\ cool <= since + 1
        /\ ram.wakeUp => cool <= since
    BY <1>a, <1>c, <2>2, <2>3, <2>4, <2>6
  <2>. HIDE DEF x, cool, since
  <2>8. Sound(x, hour')
    BY <1>b, <1>d, <2>1, <2>5, <2>7 DEF Sound, Spaced, Served, Dosed, Edged
  <2>. QED  BY <2>1, <2>5, <2>8, BecomeSound
<1>13. CASE Sommeil
  <2>1. ram.step = "sleep" /\ hour' = hour
    BY <1>13 DEF Sommeil
  <2>2. CASE ram.wakeUp
    <3>. DEFINE x == [World EXCEPT !.ram.step = "config"]
    <3>1. Become(x)
      BY <1>13, <2>2 DEF Sommeil
    <3>2. /\ x \in Worlds /\ x.rtc = rtc /\ x.server = server /\ x.seen = seen
          /\ x.ram.step = "config" /\ x.ram.manu = ram.manu /\ x.ram.resetMode = ram.resetMode
      BY <1>a, <1>d DEF Worlds, Steps
    <3>. HIDE DEF x
    <3>3. Sound(x, hour')
      BY <1>b, <1>d, <2>1, <2>2, <3>2 DEF Sound, Spaced, Served, Dosed, Edged
    <3>. QED  BY <3>1, <3>2, <3>3, BecomeSound
  <2>3. CASE ~ram.wakeUp
    <3>1. PICK w \in datatobdd(World) : Become([w EXCEPT !.ram = Ram0])
      BY <1>13, <2>3 DEF Sommeil
    <3>. DEFINE x == [w EXCEPT !.ram = Ram0]
    <3>2. /\ w \in Worlds /\ w.rtc = rtc /\ w.seen = seen
          /\ w.server.reset = server.reset /\ w.server.manu \in {ram.manu, server.manu}
      BY <1>a, <1>d, PostFacts
    <3>3. /\ x \in Worlds /\ x.rtc = rtc /\ x.server = w.server /\ x.seen = seen
          /\ x.ram.step = "asleep" /\ x.ram.manu = FALSE /\ x.ram.resetMode = FALSE
      BY <3>2 DEF Worlds, Steps, Ram0
    <3>4. Become(x)
      BY <3>1
    <3>. HIDE DEF x
    <3>5. Sound(x, hour')
      BY <1>b, <1>d, <2>1, <3>2, <3>3 DEF Sound, Spaced, Served, Dosed, Edged
    <3>. QED  BY <3>3, <3>4, <3>5, BecomeSound
  <2>. QED  BY <2>2, <2>3
<1>14. CASE Ask
  <2>1. UNCHANGED <<rtc, ram, hour>>
    BY <1>14 DEF Ask
  <2>2. ASSUME server' \in [manu : BOOLEAN, reset : BOOLEAN, awake : BOOLEAN],
               seen' \in [since : 0..COOLDOWN, spaced : BOOLEAN, due : BOOLEAN, twice : BOOLEAN,
                       doses : Nat, reboots : Nat]
        PROVE  World' \in Worlds /\ World'.rtc = rtc /\ World'.ram = ram
    BY <1>a, <2>1, <2>2 DEF World, Worlds
  <2>3. CASE server' = [server EXCEPT !.manu = TRUE] /\ seen' = [seen EXCEPT !.due = TRUE]
    <3>0. /\ server' \in [manu : BOOLEAN, reset : BOOLEAN, awake : BOOLEAN]
          /\ seen' \in [since : 0..COOLDOWN, spaced : BOOLEAN, due : BOOLEAN, twice : BOOLEAN,
                   doses : Nat, reboots : Nat]
      BY <1>a, <2>3
    <3>1. /\ World'.server.manu = TRUE /\ World'.server.reset = server.reset
          /\ World'.seen.since = seen.since /\ World'.seen.spaced = seen.spaced
          /\ World'.seen.due = TRUE /\ World'.seen.twice = seen.twice
          /\ World'.seen.doses = seen.doses /\ World'.seen.reboots = seen.reboots
      BY <1>a, <2>3 DEF World
    <3>2. Sound(World', hour')
      BY <1>b, <1>d, <2>1, <2>2, <3>0, <3>1 DEF Sound, Spaced, Served, Dosed, Edged
    <3>. QED  BY <2>2, <3>0, <3>2 DEF NodeInv
  <2>4. CASE /\ server' = [server EXCEPT !.reset = ~@]
             /\ seen' = [seen EXCEPT !.reboots = IF server.reset THEN @ ELSE 0]
    <3>0. /\ server' \in [manu : BOOLEAN, reset : BOOLEAN, awake : BOOLEAN]
          /\ seen' \in [since : 0..COOLDOWN, spaced : BOOLEAN, due : BOOLEAN, twice : BOOLEAN,
                   doses : Nat, reboots : Nat]
      BY <1>a, <2>4
    <3>1. /\ World'.server.manu = server.manu /\ World'.server.reset = ~server.reset
          /\ World'.seen.since = seen.since /\ World'.seen.spaced = seen.spaced
          /\ World'.seen.due = seen.due /\ World'.seen.twice = seen.twice
          /\ World'.seen.doses = seen.doses
          /\ World'.seen.reboots = IF server.reset THEN seen.reboots ELSE 0
      BY <1>a, <2>4 DEF World
    <3>2. Sound(World', hour')
      BY <1>a, <1>b, <1>d, <2>1, <2>2, <3>0, <3>1 DEF Sound, Spaced, Served, Dosed, Edged
    <3>. QED  BY <2>2, <3>0, <3>2 DEF NodeInv
  <2>. QED  BY <1>14, <2>3, <2>4 DEF Ask
<1>15. CASE UNCHANGED nvars
  BY <1>15 DEF nvars, NodeInv, World
<1>. QED
  BY <1>1, <1>2, <1>3, <1>4, <1>5, <1>6, <1>7, <1>8, <1>9, <1>10, <1>11, <1>12, <1>13, <1>14,
     <1>15 DEF Next

LEMMA NodeInit == Init => NodeInv
<1>. SUFFICES ASSUME Init  PROVE NodeInv
  OBVIOUS
<1>1. World \in Worlds
  <2>1. Rtc0 \in [edge : BOOLEAN, last : BOOLEAN, cool : 0..COOLDOWN, fait : BOOLEAN]
    BY NodeConstants DEF Rtc0
  <2>2. Ram0 \in [step : Steps, wakeUp : BOOLEAN, resetMode : BOOLEAN, manu : BOOLEAN,
                 timed : BOOLEAN, dry : BOOLEAN, watered : BOOLEAN]
    BY DEF Ram0, Steps
  <2>3. Seen0 \in [since : 0..COOLDOWN, spaced : BOOLEAN, due : BOOLEAN, twice : BOOLEAN,
                  doses : Nat, reboots : Nat]
    BY NodeConstants DEF Seen0
  <2>4. server \in [manu : BOOLEAN, reset : BOOLEAN, awake : BOOLEAN]
    <3>1. PICK a \in BOOLEAN : server = [manu |-> FALSE, reset |-> FALSE, awake |-> a]
      BY DEF Init
    <3>. QED  BY <3>1
  <2>. QED  BY <2>1, <2>2, <2>3, <2>4 DEF Init, World, Worlds
<1>2. Sound(World, hour)
  BY NodeConstants DEF Init, World, Sound, Spaced, Served, Dosed, Edged, Rtc0, Ram0, Seen0
<1>. QED  BY <1>1, <1>2 DEF NodeInv

-----------------------------------------------------------------------------
(* The mails of the node's outages (NodeAlerts).                            *)

AlertSteps == {"asleep", "forever", "pump", "soil", "battery", "water", "payload", "report",
               "sleep"}

AlertWorlds ==
    [nv : [postOk : BOOLEAN, mails : Nat, pompe : BOOLEAN, humid : BOOLEAN, pont : BOOLEAN,
           report : Nat],
     wake : [step : AlertSteps, wifi : BOOLEAN, low : BOOLEAN],
     told : [pont : Nat, outage : Nat]]

(* Every mail of the outage was counted before it left, and the mail of a   *)
(* battery that is still low is on record.                                  *)
Budgeted(w) ==
    /\ w \in AlertWorlds
    /\ w.told.outage <= w.nv.mails /\ w.nv.mails <= MailBudget
    /\ w.told.pont <= 1 /\ (w.told.pont = 1 => w.nv.pont)

AlertInv == Budgeted(Alert!World)

LEMMA AlertConstants == MailBudget \in Nat /\ ReportEvery \in Nat
BY BoardsAssumption

(* The posts and the mails, in any order, lead from such a world to another.*)
LEMMA AlertPost ==
    ASSUME NEW w, Budgeted(w), NEW v \in Alert!datatobdd(w)
    PROVE  Budgeted(v)
<1>1. CASE v = Alert!Failed(w)
  BY <1>1, AlertConstants DEF Alert!Failed, Budgeted, AlertWorlds
<1>2. CASE v = Alert!Accepted(w)
  <2>. DEFINE x == [w EXCEPT !.nv.postOk = TRUE]
              y == [x EXCEPT !.nv.mails = 0]
  <2>1. Budgeted(x)
    BY DEF Budgeted, AlertWorlds
  <2>2. v = [y EXCEPT !.told.outage = 0]
    BY <1>2 DEF Alert!Accepted
  <2>. HIDE DEF x
  <2>3. /\ y \in AlertWorlds /\ y.told = x.told /\ y.nv.mails = 0 /\ y.nv.pont = x.nv.pont
    BY <2>1 DEF Budgeted, AlertWorlds
  <2>. HIDE DEF y
  <2>. QED  BY <2>1, <2>2, <2>3, AlertConstants DEF Budgeted, AlertWorlds
<1>. QED  BY <1>1, <1>2 DEF Alert!datatobdd

LEMMA AlertMail ==
    ASSUME NEW w, Budgeted(w), NEW severity, NEW m \in Alert!Mail(w, severity)
    PROVE  /\ Budgeted(m.w) /\ m.done \in BOOLEAN
           /\ m.w.told.pont = w.told.pont /\ m.w.nv.pont = w.nv.pont
<1>. DEFINE u == [Alert!Spend(w) EXCEPT !.told.outage = @ + 1]
<1>0. \/ m.w = w /\ m.done \in BOOLEAN
      \/ w.nv.mails < MailBudget /\ m.w = u /\ m.done \in BOOLEAN
  <2>1. w.nv.mails < MailBudget \/ w.nv.mails >= MailBudget
    BY AlertConstants DEF Budgeted, AlertWorlds
  <2>2. m \in IF w.nv.postOk THEN {[w |-> w, done |-> d] : d \in BOOLEAN}
             ELSE IF severity > 2 THEN {[w |-> w, done |-> TRUE]}
             ELSE IF ~w.wake.wifi \/ w.nv.mails >= MailBudget THEN {[w |-> w, done |-> FALSE]}
             ELSE {[w |-> u, done |-> d] : d \in BOOLEAN}
    BY DEF Alert!Mail
  <2>. HIDE DEF u
  <2>3. CASE m \in {[w |-> w, done |-> d] : d \in BOOLEAN}
    BY <2>3
  <2>4. CASE m \in {[w |-> u, done |-> d] : d \in BOOLEAN} /\ w.nv.mails < MailBudget
    BY <2>4
  <2>. QED  BY <2>1, <2>2, <2>3, <2>4
<1>1. CASE m.w = w /\ m.done \in BOOLEAN
  BY <1>1
<1>2. CASE /\ w.nv.mails < MailBudget /\ m.done \in BOOLEAN
           /\ m.w = [Alert!Spend(w) EXCEPT !.told.outage = @ + 1]
  <2>. DEFINE x == [w EXCEPT !.nv.mails = @ + 1]
  <2>1. /\ x \in AlertWorlds /\ x.told = w.told /\ x.nv.pont = w.nv.pont
        /\ x.nv.mails = w.nv.mails + 1
    BY DEF Budgeted, AlertWorlds
  <2>2. m.w = [x EXCEPT !.told.outage = @ + 1]
    BY <1>2 DEF Alert!Spend
  <2>. HIDE DEF x
  <2>3. /\ m.w \in AlertWorlds /\ m.w.nv = x.nv /\ m.w.told.pont = x.told.pont
        /\ m.w.told.outage = x.told.outage + 1
    BY <2>1, <2>2 DEF AlertWorlds
  <2>. QED  BY <1>2, <2>1, <2>3, AlertConstants DEF Budgeted, AlertWorlds
<1>. QED  BY <1>0, <1>1, <1>2

LEMMA AlertMails ==
    ASSUME NEW w, Budgeted(w)
    PROVE  /\ \A v \in Alert!PompeMail(w) : Budgeted(v)
           /\ \A v \in Alert!HumidMail(w) : Budgeted(v)
           /\ \A v \in Alert!BackMail(w) : Budgeted(v)
           /\ \A v \in Alert!InfoMail(w) : Budgeted(v)
<1>1. ASSUME NEW v \in Alert!PompeMail(w)  PROVE Budgeted(v)
  <2>1. PICK m \in Alert!Mail(w, 1) : v = [m.w EXCEPT !.nv.pompe = m.done]
    BY DEF Alert!PompeMail
  <2>2. Budgeted(m.w) /\ m.done \in BOOLEAN
    BY AlertMail
  <2>. QED  BY <2>1, <2>2 DEF Budgeted, AlertWorlds
<1>2. ASSUME NEW v \in Alert!HumidMail(w)  PROVE Budgeted(v)
  <2>1. PICK m \in Alert!Mail(w, 2) : v = [m.w EXCEPT !.nv.humid = m.done]
    BY DEF Alert!HumidMail
  <2>2. Budgeted(m.w) /\ m.done \in BOOLEAN
    BY AlertMail
  <2>. QED  BY <2>1, <2>2 DEF Budgeted, AlertWorlds
<1>3. ASSUME NEW v \in Alert!BackMail(w)  PROVE Budgeted(v)
  <2>1. PICK m \in Alert!Mail(w, 3) : v = [m.w EXCEPT !.nv.humid = ~m.done]
    BY DEF Alert!BackMail
  <2>2. Budgeted(m.w) /\ m.done \in BOOLEAN
    BY AlertMail
  <2>. QED  BY <2>1, <2>2 DEF Budgeted, AlertWorlds
<1>4. ASSUME NEW v \in Alert!InfoMail(w)  PROVE Budgeted(v)
  BY AlertMail DEF Alert!InfoMail
<1>. QED  BY <1>1, <1>2, <1>3, <1>4

(* The mail of the battery leaves only when none is on record.              *)
LEMMA AlertPont ==
    ASSUME NEW w, Budgeted(w), ~w.nv.pont, NEW v \in Alert!PontMail(w)
    PROVE  Budgeted(v)
<1>1. PICK m \in Alert!Mail(w, 1) :
         v = [m.w EXCEPT !.nv.pont = m.done, !.told.pont = IF m.done THEN @ + 1 ELSE @]
  BY DEF Alert!PontMail
<1>2. /\ Budgeted(m.w) /\ m.done \in BOOLEAN
      /\ m.w.told.pont = w.told.pont
  BY AlertMail
<1>3. w.told.pont = 0
  BY DEF Budgeted, AlertWorlds
<1>. DEFINE u == m.w
            x == [u EXCEPT !.nv.pont = m.done]
<1>4. /\ x \in AlertWorlds /\ x.told = u.told /\ x.nv.pont = m.done /\ x.nv.mails = u.nv.mails
  BY <1>2 DEF Budgeted, AlertWorlds
<1>5. v = [x EXCEPT !.told.pont = IF m.done THEN @ + 1 ELSE @]
  BY <1>1
<1>. HIDE DEF x
<1>6. /\ v \in AlertWorlds /\ v.nv = x.nv /\ v.told.outage = x.told.outage
      /\ v.told.pont = IF m.done THEN 1 ELSE 0
  BY <1>2, <1>3, <1>4, <1>5 DEF AlertWorlds
<1>. QED  BY <1>2, <1>4, <1>6 DEF Budgeted

LEMMA AlertGoto ==
    ASSUME NEW step \in AlertSteps, NEW ws, \A w \in ws : Budgeted(w), Alert!Goto(step, ws)
    PROVE  AlertInv'
<1>1. PICK w \in ws : Alert!Become([w EXCEPT !.wake.step = step])
  BY DEF Alert!Goto
<1>. DEFINE x == [w EXCEPT !.wake.step = step]
<1>2. Budgeted(x)
  BY DEF Budgeted, AlertWorlds
<1>. HIDE DEF x
<1>3. x = [nv |-> x.nv, wake |-> x.wake, told |-> x.told]
  BY <1>2 DEF Budgeted, AlertWorlds
<1>4. Alert!World' = x
  BY <1>1, <1>3 DEF Alert!World, Alert!Become, x
<1>. QED  BY <1>2, <1>4 DEF AlertInv

LEMMA AlertStep == AlertInv /\ [Alert!Next]_alertVars => AlertInv'
<1>. SUFFICES ASSUME AlertInv, [Alert!Next]_alertVars  PROVE AlertInv'
  OBVIOUS
<1>. DEFINE W == Alert!World
<1>a. /\ Budgeted(W)
      /\ W.nv = nv /\ W.wake = wake /\ W.told = told
  BY DEF AlertInv, Alert!World
<1>b. /\ nv \in [postOk : BOOLEAN, mails : Nat, pompe : BOOLEAN, humid : BOOLEAN,
                 pont : BOOLEAN, report : Nat]
      /\ told \in [pont : Nat, outage : Nat]
      /\ told.outage <= nv.mails /\ nv.mails <= MailBudget
      /\ told.pont <= 1 /\ (told.pont = 1 => nv.pont)
  BY <1>a DEF Budgeted, AlertWorlds
<1>c. ASSUME NEW n \in [postOk : BOOLEAN, mails : Nat, pompe : BOOLEAN, humid : BOOLEAN,
                        pont : BOOLEAN, report : Nat],
             NEW t \in [pont : Nat, outage : Nat], Alert!Wake(n), told' = t,
             t.outage <= n.mails, n.mails <= MailBudget, t.pont <= 1, t.pont = 1 => n.pont
      PROVE  AlertInv'
  <2>1. PICK wifi \in BOOLEAN :
            nv' = n /\ wake' = [Alert!Wake0 EXCEPT !.step = "pump", !.wifi = wifi]
    BY <1>c DEF Alert!Wake
  <2>2. wake' \in [step : AlertSteps, wifi : BOOLEAN, low : BOOLEAN]
    BY <2>1 DEF Alert!Wake0, AlertSteps
  <2>3. Alert!World' = [nv |-> n, wake |-> wake', told |-> t]
    BY <1>c, <2>1 DEF Alert!World
  <2>. QED  BY <1>c, <2>2, <2>3 DEF AlertInv, Budgeted, AlertWorlds
<1>d. \A w \in Alert!datatobdd(W) : Budgeted(w)
  BY <1>a, AlertPost
<1>e. \A w \in Alert!LowBattery : Budgeted(w)
  <2>. DEFINE w == [Alert!World EXCEPT !.wake.low = TRUE]
  <2>1. Budgeted(w) /\ w.nv = nv
    BY <1>a DEF Budgeted, AlertWorlds
  <2>. HIDE DEF w
  <2>2. \/ ~w.nv.pont /\ Alert!LowBattery = Alert!PontMail(w)
        \/ Alert!LowBattery = {w}
    BY <2>1 DEF Alert!LowBattery, w
  <2>. QED  BY <2>1, <2>2, AlertPont
<1>. HIDE DEF W
<1>1. CASE Alert!WakeUp
  BY <1>1, <1>b, <1>c DEF Alert!WakeUp
<1>2. CASE Alert!Reset
  <2>1. Alert!Wake(Alert!Nv0) /\ told' = Alert!Told0
    BY <1>2 DEF Alert!Reset
  <2>2. /\ Alert!Nv0 \in [postOk : BOOLEAN, mails : Nat, pompe : BOOLEAN, humid : BOOLEAN,
                          pont : BOOLEAN, report : Nat]
        /\ Alert!Told0 \in [pont : Nat, outage : Nat]
        /\ Alert!Told0.outage = 0 /\ Alert!Nv0.mails = 0 /\ Alert!Told0.pont = 0
    BY DEF Alert!Nv0, Alert!Told0
  <2>. QED  BY <1>c, <2>1, <2>2, AlertConstants
<1>3. CASE Alert!PumpAlert
  <2>1. CASE Alert!Goto("soil", {[W EXCEPT !.nv.pompe = FALSE]})
    <3>. DEFINE x == [W EXCEPT !.nv.pompe = FALSE]
    <3>1. Budgeted(x)
      BY <1>a DEF Budgeted, AlertWorlds
    <3>2. Alert!Goto("soil", {x})
      BY <2>1
    <3>. HIDE DEF x
    <3>. QED  BY <3>1, <3>2, AlertGoto DEF AlertSteps
  <2>2. CASE Alert!Goto("soil", {W})
    BY <1>a, <2>2, AlertGoto DEF AlertSteps
  <2>. DEFINE F(v) == IF v.nv.postOk THEN {[v EXCEPT !.nv.pompe = TRUE]}
                      ELSE Alert!PompeMail(v)
              ws == UNION {F(v) : v \in Alert!datatobdd(W)}
  <2>3. CASE Alert!Goto("soil", ws)
    <3>1. ASSUME NEW w \in ws  PROVE Budgeted(w)
      <4>1. PICK v \in Alert!datatobdd(W) : w \in F(v)
        OBVIOUS
      <4>2. Budgeted(v)
        BY <1>d
      <4>3. CASE w = [v EXCEPT !.nv.pompe = TRUE]
        BY <4>2, <4>3 DEF Budgeted, AlertWorlds
      <4>4. CASE w \in Alert!PompeMail(v)
        BY <4>2, <4>4, AlertMails
      <4>. QED  BY <4>1, <4>3, <4>4
    <3>. HIDE DEF ws
    <3>. QED  BY <2>3, <3>1, AlertGoto DEF AlertSteps
  <2>. QED  BY <1>3, <2>1, <2>2, <2>3 DEF Alert!PumpAlert, Alert!Then, W
<1>4. CASE Alert!SoilAlert
  <2>. DEFINE ws(X) == UNION {Alert!datatobdd(v) : v \in X}
  <2>1. CASE Alert!Goto("battery", {W})
    BY <1>a, <2>1, AlertGoto DEF AlertSteps
  <2>2. CASE Alert!Goto("battery", {[W EXCEPT !.nv.humid = FALSE]})
    <3>. DEFINE x == [W EXCEPT !.nv.humid = FALSE]
    <3>1. Budgeted(x)
      BY <1>a DEF Budgeted, AlertWorlds
    <3>2. Alert!Goto("battery", {x})
      BY <2>2
    <3>. HIDE DEF x
    <3>. QED  BY <3>1, <3>2, AlertGoto DEF AlertSteps
  <2>3. CASE Alert!Goto("battery", ws(Alert!HumidMail(W)))
    <3>1. \A w \in ws(Alert!HumidMail(W)) : Budgeted(w)
      BY <1>a, AlertMails, AlertPost
    <3>. QED  BY <2>3, <3>1, AlertGoto DEF AlertSteps
  <2>4. CASE Alert!Goto("battery", ws(Alert!BackMail(W)))
    <3>1. \A w \in ws(Alert!BackMail(W)) : Budgeted(w)
      BY <1>a, AlertMails, AlertPost
    <3>. QED  BY <2>4, <3>1, AlertGoto DEF AlertSteps
  <2>. QED  BY <1>4, <2>1, <2>2, <2>3, <2>4 DEF Alert!SoilAlert, Alert!Then, W
<1>5. CASE Alert!BatteryAlert
  <2>1. CASE Alert!Goto("water", {[W EXCEPT !.nv.pont = FALSE, !.told.pont = 0]})
    <3>. DEFINE x == [W EXCEPT !.nv.pont = FALSE]
                y == [x EXCEPT !.told.pont = 0]
    <3>1. /\ x \in AlertWorlds /\ x.told.outage = told.outage /\ x.nv.mails = nv.mails
      BY <1>a DEF Budgeted, AlertWorlds
    <3>. HIDE DEF x
    <3>2. /\ y \in AlertWorlds /\ y.told.outage = told.outage /\ y.nv.mails = nv.mails
          /\ y.told.pont = 0
      BY <3>1 DEF AlertWorlds
    <3>. HIDE DEF y
    <3>3. Budgeted(y)
      BY <1>b, <3>2 DEF Budgeted
    <3>4. Alert!Goto("water", {y})
      BY <2>1 DEF y, x
    <3>. QED  BY <3>3, <3>4, AlertGoto DEF AlertSteps
  <2>2. CASE Alert!Goto("water", Alert!LowBattery)
    BY <1>e, <2>2, AlertGoto DEF AlertSteps
  <2>. DEFINE ws == UNION {Alert!datatobdd(v) : v \in Alert!LowBattery}
  <2>3. CASE Alert!Goto("forever", ws)
    <3>1. \A w \in ws : Budgeted(w)
      BY <1>e, AlertPost
    <3>. HIDE DEF ws
    <3>. QED  BY <2>3, <3>1, AlertGoto DEF AlertSteps
  <2>. QED  BY <1>5, <2>1, <2>2, <2>3 DEF Alert!BatteryAlert, Alert!Then, W
<1>6. CASE Alert!Watering
  <2>. DEFINE us == IF nv.postOk THEN {W} ELSE Alert!InfoMail(W)
              ws == UNION {Alert!datatobdd(v) : v \in us}
  <2>1. CASE Alert!Goto("payload", {W})
    BY <1>a, <2>1, AlertGoto DEF AlertSteps
  <2>2. CASE Alert!Goto("payload", ws)
    <3>1. \A v \in us : Budgeted(v)
      BY <1>a, AlertMails
    <3>. HIDE DEF us
    <3>2. \A w \in ws : Budgeted(w)
      BY <3>1, AlertPost
    <3>. HIDE DEF ws
    <3>. QED  BY <2>2, <3>2, AlertGoto DEF AlertSteps
  <2>. QED  BY <1>6, <2>1, <2>2 DEF Alert!Watering, Alert!Then, W
<1>7. CASE Alert!Payload
  <2>1. Alert!Goto("report", {W} \cup Alert!datatobdd(W))
    BY <1>7 DEF Alert!Payload, W
  <2>2. \A w \in {W} \cup Alert!datatobdd(W) : Budgeted(w)
    BY <1>a, <1>d
  <2>. QED  BY <2>1, <2>2, AlertGoto DEF AlertSteps
<1>8. CASE Alert!SendReports
  <2>1. PICK n \in Nat : Alert!Goto("sleep", {[W EXCEPT !.nv.report = n]})
    <3>. DEFINE r == IF nv.report < ReportEvery THEN nv.report + 1 ELSE nv.report
                due == r >= ReportEvery /\ wake.wifi /\ nv.postOk
    <3>1. r \in Nat
      BY <1>b
    <3>2. PICK sent \in {FALSE, due} :
              Alert!Goto("sleep", {[Alert!World EXCEPT !.nv.report = IF sent THEN 0 ELSE r]})
      BY <1>8 DEF Alert!SendReports
    <3>. HIDE DEF r
    <3>3. (IF sent THEN 0 ELSE r) \in Nat
      BY <3>1
    <3>. QED  BY <3>2, <3>3 DEF W
  <2>2. Budgeted([W EXCEPT !.nv.report = n])
    BY <1>a DEF Budgeted, AlertWorlds
  <2>. QED  BY <2>1, <2>2, AlertGoto DEF AlertSteps
<1>9. CASE Alert!Sommeil
  <2>1. Alert!Goto("asleep", Alert!datatobdd(W))
    BY <1>9 DEF Alert!Sommeil, W
  <2>. QED  BY <1>d, <2>1, AlertGoto DEF AlertSteps
<1>10. CASE UNCHANGED alertVars
  BY <1>10 DEF alertVars, AlertInv, Alert!World
<1>. QED
  BY <1>1, <1>2, <1>3, <1>4, <1>5, <1>6, <1>7, <1>8, <1>9, <1>10 DEF Alert!Next

LEMMA AlertInit == Alert!Init => AlertInv
<1>. SUFFICES ASSUME Alert!Init  PROVE AlertInv
  OBVIOUS
<1>1. Alert!World = [nv |-> Alert!Nv0, wake |-> Alert!Wake0, told |-> Alert!Told0]
  BY DEF Alert!Init, Alert!World
<1>. QED
  BY <1>1, AlertConstants
  DEF AlertInv, Budgeted, AlertWorlds, AlertSteps, Alert!Nv0, Alert!Wake0, Alert!Told0

-----------------------------------------------------------------------------
(* The mails of the camera (CameraWake).                                    *)

Mails == [due : BOOLEAN, tries : Nat]
Told == [sessions : Nat, accepted : Nat]
Rtcs == [window : {"unknown", "day", "night"}, elapsed : Nat, streak : Nat,
         mail : [Camera!Kinds -> Mails]]
Seens == [told : [Camera!Kinds -> Told], checked : BOOLEAN]

(* A mail still due was not accepted, and each of its sessions is a try.    *)
Accounted(m, t) ==
    /\ t.sessions <= Tries /\ t.accepted <= 1
    /\ m.due => t.sessions <= m.tries /\ t.accepted = 0

(* The mail of the camera becomes due as its series of failures gets long.  *)
Kept(r, s) ==
    /\ r \in Rtcs /\ s \in Seens
    /\ \A k \in Camera!Kinds : Accounted(r.mail[k], s.told[k])
    /\ r.streak < Threshold =>
          ~r.mail["camera"].due /\ s.told["camera"] = Camera!Told0

CameraInv == Kept(wRtc, wSeen)

LEMMA CameraConstants ==
    Interval \in Nat \ {0} /\ Threshold \in Nat \ {0} /\ Tries \in Nat
BY BoardsAssumption

PutMail(r, k, m) == [r EXCEPT !.mail[k] = m]
PutTold(s, k, t) == [s EXCEPT !.told[k] = t]

(* One mail changes, as its account allows.                                 *)
LEMMA PutKept ==
    ASSUME NEW r, NEW s, Kept(r, s), NEW k \in Camera!Kinds, NEW m \in Mails, NEW t \in Told,
           Accounted(m, t),
           k = "camera" /\ r.streak < Threshold => ~m.due /\ t = Camera!Told0
    PROVE  Kept(PutMail(r, k, m), PutTold(s, k, t))
<1>. DEFINE x == PutMail(r, k, m)
            y == PutTold(s, k, t)
<1>0. /\ r.mail \in [Camera!Kinds -> Mails] /\ s.told \in [Camera!Kinds -> Told]
      /\ r \in Rtcs /\ s \in Seens
  BY DEF Kept, Rtcs, Seens
<1>1. /\ x \in Rtcs /\ x.streak = r.streak
      /\ \A l \in Camera!Kinds : x.mail[l] = IF l = k THEN m ELSE r.mail[l]
  BY <1>0 DEF PutMail, Rtcs
<1>2. /\ y \in Seens
      /\ \A l \in Camera!Kinds : y.told[l] = IF l = k THEN t ELSE s.told[l]
  BY <1>0 DEF PutTold, Seens
<1>. HIDE DEF x, y
<1>3. \A l \in Camera!Kinds : Accounted(x.mail[l], y.told[l])
  BY <1>1, <1>2 DEF Kept
<1>4. "camera" \in Camera!Kinds
  BY DEF Camera!Kinds
<1>5. x.streak < Threshold => ~x.mail["camera"].due /\ y.told["camera"] = Camera!Told0
  BY <1>1, <1>2, <1>4 DEF Kept
<1>6. Kept(x, y)
  BY <1>1, <1>2, <1>3, <1>5 DEF Kept
<1>. QED  BY <1>6 DEF x, y

(* The rest of the memory is free to change.                                *)
LEMMA RestKept ==
    ASSUME NEW r, NEW s, Kept(r, s), NEW x \in Rtcs, x.mail = r.mail, x.streak = r.streak,
           NEW y \in Seens, y.told = s.told
    PROVE  Kept(x, y)
BY DEF Kept

LEMMA KeptFacts ==
    ASSUME NEW r, NEW s, Kept(r, s), NEW k \in Camera!Kinds
    PROVE  /\ r.mail[k] \in Mails /\ s.told[k] \in Told
           /\ Accounted(r.mail[k], s.told[k])
           /\ k = "camera" /\ r.streak < Threshold =>
                 ~r.mail[k].due /\ s.told[k] = Camera!Told0
           /\ PutMail(r, k, r.mail[k]) = r /\ PutTold(s, k, s.told[k]) = s
<1>1. r.mail[k] \in Mails /\ s.told[k] \in Told
  BY DEF Kept, Rtcs, Seens
<1>2. PutMail(r, k, r.mail[k]) = r /\ PutTold(s, k, s.told[k]) = s
  <2>1. [r.mail EXCEPT ![k] = r.mail[k]] = r.mail /\ [s.told EXCEPT ![k] = s.told[k]] = s.told
    BY DEF Kept, Rtcs, Seens
  <2>2. [r EXCEPT !.mail = r.mail] = r /\ [s EXCEPT !.told = s.told] = s
    BY DEF Kept, Rtcs, Seens
  <2>. QED  BY <2>1, <2>2 DEF PutMail, PutTold
<1>. QED  BY <1>1, <1>2 DEF Kept

LEMMA PutTwice ==
    ASSUME NEW r, NEW s, Kept(r, s), NEW k \in Camera!Kinds, NEW m, NEW n
    PROVE  /\ PutMail(r, k, m).mail[k] = m /\ PutTold(s, k, m).told[k] = m
           /\ PutMail(PutMail(r, k, m), k, n) = PutMail(r, k, n)
           /\ PutTold(PutTold(s, k, m), k, n) = PutTold(s, k, n)
<1>1. r.mail \in [Camera!Kinds -> Mails] /\ s.told \in [Camera!Kinds -> Told]
  BY DEF Kept, Rtcs, Seens
<1>2. PutMail(r, k, m).mail = [r.mail EXCEPT ![k] = m]
  BY DEF PutMail, Kept, Rtcs
<1>3. PutTold(s, k, m).told = [s.told EXCEPT ![k] = m]
  BY DEF PutTold, Kept, Seens
<1>4. [[r.mail EXCEPT ![k] = m] EXCEPT ![k] = n] = [r.mail EXCEPT ![k] = n]
  BY <1>1
<1>5. [[s.told EXCEPT ![k] = m] EXCEPT ![k] = n] = [s.told EXCEPT ![k] = n]
  BY <1>1
<1>6. PutMail(PutMail(r, k, m), k, n) = PutMail(r, k, n)
  <2>. DEFINE x == PutMail(r, k, m)
  <2>1. \A y : [x EXCEPT !.mail = y] = [r EXCEPT !.mail = y]
    BY DEF PutMail, Kept, Rtcs
  <2>2. PutMail(x, k, n) = [x EXCEPT !.mail = [r.mail EXCEPT ![k] = n]]
    BY <1>2, <1>4 DEF PutMail
  <2>. HIDE DEF x
  <2>3. PutMail(r, k, n) = [r EXCEPT !.mail = [r.mail EXCEPT ![k] = n]]
    BY DEF PutMail
  <2>4. PutMail(x, k, n) = PutMail(r, k, n)
    BY <2>1, <2>2, <2>3
  <2>. QED  BY <2>4 DEF x
<1>7. PutTold(PutTold(s, k, m), k, n) = PutTold(s, k, n)
  <2>. DEFINE x == PutTold(s, k, m)
  <2>1. \A y : [x EXCEPT !.told = y] = [s EXCEPT !.told = y]
    BY DEF PutTold, Kept, Seens
  <2>2. PutTold(x, k, n) = [x EXCEPT !.told = [s.told EXCEPT ![k] = n]]
    BY <1>3, <1>5 DEF PutTold
  <2>. HIDE DEF x
  <2>3. PutTold(s, k, n) = [s EXCEPT !.told = [s.told EXCEPT ![k] = n]]
    BY DEF PutTold
  <2>4. PutTold(x, k, n) = PutTold(s, k, n)
    BY <2>1, <2>2, <2>3
  <2>. QED  BY <2>4 DEF x
<1>. QED  BY <1>1, <1>2, <1>3, <1>6, <1>7

(* A try is counted before its session.                                     *)
LEMMA TryCounted ==
    ASSUME NEW mail \in Mails, mail.tries < Tries
    PROVE  /\ [mail EXCEPT !.tries = Camera!Up(@, Tries)] \in Mails
           /\ [mail EXCEPT !.tries = Camera!Up(@, Tries)].due = mail.due
           /\ [mail EXCEPT !.tries = Camera!Up(@, Tries)].tries = mail.tries + 1
<1>1. mail.tries \in Nat /\ Camera!Up(mail.tries, Tries) = mail.tries + 1
  BY DEF Mails, Camera!Up
<1>. QED  BY <1>1 DEF Mails

LEMMA SessionCounted ==
    ASSUME NEW t \in Told, t.sessions <= Tries
    PROVE  /\ [t EXCEPT !.sessions = Camera!Up(@, Tries + 1)] \in Told
           /\ [t EXCEPT !.sessions = Camera!Up(@, Tries + 1)].accepted = t.accepted
           /\ [t EXCEPT !.sessions = Camera!Up(@, Tries + 1)].sessions = t.sessions + 1
<1>1. t.sessions \in Nat /\ Camera!Up(t.sessions, Tries + 1) = t.sessions + 1
  BY CameraConstants DEF Told, Camera!Up
<1>. QED  BY <1>1 DEF Told

LEMMA TryKept ==
    ASSUME CameraInv, NEW k \in Camera!Kinds, Camera!Try(k)
    PROVE  CameraInv'
<1>. DEFINE mail == wRtc.mail[k]
            t == wSeen.told[k]
<1>1. /\ mail \in Mails /\ t \in Told /\ Accounted(mail, t)
      /\ k = "camera" /\ wRtc.streak < Threshold => ~mail.due /\ t = Camera!Told0
      /\ PutMail(wRtc, k, mail) = wRtc /\ PutTold(wSeen, k, t) = wSeen
  BY KeptFacts DEF CameraInv
<1>2. CASE wRtc' = wRtc /\ wSeen' = wSeen
  BY <1>2 DEF CameraInv
<1>3. CASE wRtc' = [wRtc EXCEPT !.mail[k].due = FALSE] /\ wSeen' = wSeen
  <2>. DEFINE m == [mail EXCEPT !.due = FALSE]
  <2>1. m \in Mails /\ m.due = FALSE
    BY <1>1 DEF Mails
  <2>2. wRtc' = PutMail(wRtc, k, m)
    BY <1>3 DEF PutMail
  <2>. HIDE DEF m, mail, t
  <2>3. Accounted(m, t)
    BY <1>1, <2>1 DEF Accounted
  <2>4. Kept(PutMail(wRtc, k, m), PutTold(wSeen, k, t))
    BY <1>1, <2>1, <2>3, PutKept DEF CameraInv
  <2>. QED  BY <1>1, <1>3, <2>2, <2>4 DEF CameraInv
<1>4. CASE /\ mail.due /\ mail.tries < Tries
           /\ wRtc' = [wRtc EXCEPT !.mail[k].tries = Camera!Up(@, Tries)] /\ wSeen' = wSeen
  <2>. DEFINE m == [mail EXCEPT !.tries = Camera!Up(@, Tries)]
  <2>1. m \in Mails /\ m.due = mail.due /\ m.tries = mail.tries + 1
    BY <1>1, <1>4, TryCounted
  <2>2. wRtc' = PutMail(wRtc, k, m)
    BY <1>4 DEF PutMail
  <2>. HIDE DEF m, mail, t
  <2>3. Accounted(m, t)
    BY <1>1, <2>1, CameraConstants DEF Accounted, Mails, Told
  <2>4. Kept(PutMail(wRtc, k, m), PutTold(wSeen, k, t))
    BY <1>1, <2>1, <2>3, PutKept DEF CameraInv
  <2>. QED  BY <1>1, <1>4, <2>2, <2>4 DEF CameraInv
<1>5. ASSUME mail.due, mail.tries < Tries, NEW accepted \in BOOLEAN,
             wRtc' = [[wRtc EXCEPT !.mail[k].tries = Camera!Up(@, Tries)]
                      EXCEPT !.mail[k].due = ~accepted],
             wSeen' = [wSeen EXCEPT
                         !.told[k].sessions = Camera!Up(@, Tries + 1),
                         !.told[k].accepted = IF accepted THEN Camera!Up(@, 2) ELSE @]
      PROVE  CameraInv'
  <2>. DEFINE m == [mail EXCEPT !.tries = Camera!Up(@, Tries)]
              n == [m EXCEPT !.due = ~accepted]
              u == [t EXCEPT !.sessions = Camera!Up(@, Tries + 1)]
              v == [u EXCEPT !.accepted = IF accepted THEN Camera!Up(@, 2) ELSE @]
  <2>1. m \in Mails /\ m.due = mail.due /\ m.tries = mail.tries + 1
    BY <1>1, <1>5, TryCounted
  <2>2. u \in Told /\ u.accepted = t.accepted /\ u.sessions = t.sessions + 1
    BY <1>1, SessionCounted DEF Accounted
  <2>3. wRtc' = PutMail(wRtc, k, n)
    <3>. DEFINE r == PutMail(wRtc, k, m)
    <3>1. wRtc' = [r EXCEPT !.mail[k].due = ~accepted]
      BY <1>5 DEF PutMail
    <3>. HIDE DEF m
    <3>2. r.mail[k] = m /\ PutMail(r, k, n) = PutMail(wRtc, k, n)
      BY PutTwice DEF CameraInv
    <3>. HIDE DEF r
    <3>3. wRtc' = PutMail(r, k, n)
      BY <3>1, <3>2 DEF PutMail
    <3>. QED  BY <3>2, <3>3
  <2>4. wSeen' = PutTold(wSeen, k, v)
    <3>. DEFINE s == PutTold(wSeen, k, u)
    <3>1. wSeen' = [s EXCEPT !.told[k].accepted = IF accepted THEN Camera!Up(@, 2) ELSE @]
      BY <1>5 DEF PutTold
    <3>. HIDE DEF u
    <3>2. s.told[k] = u /\ PutTold(s, k, v) = PutTold(wSeen, k, v)
      BY PutTwice DEF CameraInv
    <3>. HIDE DEF s
    <3>3. wSeen' = PutTold(s, k, v)
      BY <3>1, <3>2 DEF PutTold
    <3>. QED  BY <3>2, <3>3
  <2>. HIDE DEF m, u, mail, t
  <2>5. n \in Mails /\ n.tries = mail.tries + 1 /\ (n.due <=> ~accepted)
    BY <2>1 DEF Mails
  <2>6. t.accepted = 0 /\ t.sessions <= mail.tries
    BY <1>1, <1>5 DEF Accounted
  <2>7. v \in Told /\ v.sessions = t.sessions + 1 /\ v.accepted = IF accepted THEN 1 ELSE 0
    BY <2>2, <2>6 DEF Told, Camera!Up
  <2>. HIDE DEF n, v
  <2>8. Accounted(n, v)
    BY <1>1, <1>5, <2>5, <2>6, <2>7, CameraConstants DEF Accounted, Mails, Told
  <2>9. Kept(PutMail(wRtc, k, n), PutTold(wSeen, k, v))
    BY <1>1, <1>5, <2>5, <2>7, <2>8, PutKept DEF CameraInv
  <2>. QED  BY <2>3, <2>4, <2>9 DEF CameraInv
<1>6. mail.tries \in Nat /\ Tries \in Nat
  BY <1>1, CameraConstants DEF Mails
<1>. DEFINE counted == [wRtc EXCEPT !.mail[k].tries = Camera!Up(@, Tries)]
            rtcAt(accepted) == [counted EXCEPT !.mail[k].due = ~accepted]
            seenAt(accepted) == [wSeen EXCEPT
                        !.told[k].sessions = Camera!Up(@, Tries + 1),
                        !.told[k].accepted = IF accepted THEN Camera!Up(@, 2) ELSE @]
<1>7. IF ~mail.due \/ ~wWake.wifi THEN UNCHANGED <<wRtc, wSeen>>
      ELSE IF mail.tries >= Tries
      THEN wRtc' = [wRtc EXCEPT !.mail[k].due = FALSE] /\ UNCHANGED wSeen
      ELSE IF ~Camera!Allows(k)
      THEN wRtc' = (IF k = "ota" THEN counted ELSE wRtc) /\ UNCHANGED wSeen
      ELSE \E accepted, closed \in BOOLEAN :
              wRtc' = rtcAt(accepted) /\ wSeen' = seenAt(accepted)
  BY Zenon DEF Camera!Try, Camera!Sent
<1>8. ASSUME mail.due, mail.tries < Tries, NEW accepted \in BOOLEAN,
             wRtc' = rtcAt(accepted), wSeen' = seenAt(accepted)
      PROVE  CameraInv'
  BY <1>5, <1>8
<1>9. CASE mail.due /\ mail.tries < Tries /\ wRtc' = counted /\ wSeen' = wSeen
  BY <1>4, <1>9
<1>. DEFINE undue == [wRtc EXCEPT !.mail[k].due = FALSE]
<1>10. CASE wRtc' = undue /\ wSeen' = wSeen
  BY <1>3, <1>10
<1>11. mail.due /\ ~(mail.tries >= Tries) => mail.tries < Tries
  BY <1>6
<1>. HIDE DEF mail, t, counted, rtcAt, seenAt, undue
<1>. QED
  BY <1>2, <1>7, <1>8, <1>9, <1>10, <1>11 DEF undue

(* A reset, and the start: no mail is due.                                  *)
LEMMA ResetKept ==
    ASSUME NEW b \in BOOLEAN
    PROVE  Kept(Camera!Rtc0, [told |-> [k \in Camera!Kinds |-> Camera!Told0], checked |-> b])
<1>. DEFINE r == Camera!Rtc0
            s == [told |-> [k \in Camera!Kinds |-> Camera!Told0], checked |-> b]
<1>1. Camera!NoMail \in Mails /\ Camera!Told0 \in Told
  BY DEF Camera!NoMail, Camera!Told0, Mails, Told
<1>2. r \in Rtcs /\ s \in Seens
  BY <1>1, CameraConstants DEF Camera!Rtc0, Rtcs, Seens
<1>3. \A k \in Camera!Kinds : r.mail[k] = Camera!NoMail /\ s.told[k] = Camera!Told0
  BY DEF Camera!Rtc0
<1>4. "camera" \in Camera!Kinds
  BY DEF Camera!Kinds
<1>. HIDE DEF r, s
<1>5. Accounted(Camera!NoMail, Camera!Told0)
  BY CameraConstants DEF Accounted, Camera!NoMail, Camera!Told0
<1>6. Kept(r, s)
  BY <1>2, <1>3, <1>4, <1>5 DEF Kept, Camera!NoMail
<1>. QED  BY <1>6 DEF r, s

(* A mail becomes due, its account new.                                     *)
LEMMA ArmKept ==
    ASSUME CameraInv, NEW k \in Camera!Kinds
    PROVE  /\ k # "camera" => Kept(Camera!Arm(k, wRtc), Camera!Forgotten(k))
           /\ Kept(wRtc, Camera!Forgotten(k))
<1>. DEFINE m == [due |-> TRUE, tries |-> 0]
<1>1. m \in Mails /\ Camera!Told0 \in Told
  BY DEF Mails, Camera!Told0, Told
<1>2. Accounted(m, Camera!Told0)
  BY CameraConstants DEF Accounted, Camera!Told0
<1>3. Camera!Arm(k, wRtc) = PutMail(wRtc, k, m)
  BY DEF Camera!Arm, PutMail
<1>4. Camera!Forgotten(k) = PutTold(wSeen, k, Camera!Told0)
  BY DEF Camera!Forgotten, PutTold
<1>. HIDE DEF m
<1>5. k # "camera" => Kept(Camera!Arm(k, wRtc), Camera!Forgotten(k))
  BY <1>1, <1>2, <1>3, <1>4, PutKept DEF CameraInv
<1>6. /\ wRtc.mail[k] \in Mails /\ PutMail(wRtc, k, wRtc.mail[k]) = wRtc
      /\ k = "camera" /\ wRtc.streak < Threshold => ~wRtc.mail[k].due
  BY KeptFacts DEF CameraInv
<1>7. Accounted(wRtc.mail[k], Camera!Told0)
  BY <1>6, CameraConstants DEF Accounted, Camera!Told0, Mails
<1>8. Kept(PutMail(wRtc, k, wRtc.mail[k]), PutTold(wSeen, k, Camera!Told0))
  BY <1>1, <1>6, <1>7, PutKept DEF CameraInv
<1>. QED  BY <1>4, <1>5, <1>6, <1>8

LEMMA OtaKept == CameraInv /\ Camera!Ota => CameraInv'
<1>. SUFFICES ASSUME CameraInv, Camera!Ota  PROVE CameraInv'
  OBVIOUS
<1>1. ASSUME NEW r, NEW s, Kept(r, s), NEW e \in Nat, NEW b \in BOOLEAN
      PROVE  Kept([r EXCEPT !.elapsed = e], [s EXCEPT !.checked = b])
  <2>. DEFINE x == [r EXCEPT !.elapsed = e]
              y == [s EXCEPT !.checked = b]
  <2>1. x \in Rtcs /\ x.mail = r.mail /\ x.streak = r.streak /\ y \in Seens /\ y.told = s.told
    BY <1>1 DEF Kept, Rtcs, Seens
  <2>. HIDE DEF x, y
  <2>2. Kept(x, y)
    BY <1>1, <2>1, RestKept
  <2>. QED  BY <2>2 DEF x, y
<1>2. "ota" \in Camera!Kinds /\ "ota" # "camera"
  BY DEF Camera!Kinds
<1>3. CASE /\ wRtc' = IF Camera!CheckDone THEN [wRtc EXCEPT !.elapsed = 0] ELSE wRtc
           /\ wSeen' = [wSeen EXCEPT !.checked = wRtc.elapsed = Interval /\ wWake.wifi]
  <2>. DEFINE b == wRtc.elapsed = Interval /\ wWake.wifi
  <2>1. b \in BOOLEAN /\ wSeen' = [wSeen EXCEPT !.checked = b]
    BY <1>3
  <2>2. wRtc.elapsed \in Nat /\ wRtc = [wRtc EXCEPT !.elapsed = wRtc.elapsed]
    BY DEF CameraInv, Kept, Rtcs
  <2>. HIDE DEF b
  <2>3. /\ Kept([wRtc EXCEPT !.elapsed = 0], wSeen')
        /\ Kept([wRtc EXCEPT !.elapsed = wRtc.elapsed], wSeen')
    BY <1>1, <2>1, <2>2 DEF CameraInv
  <2>. QED  BY <1>3, <2>2, <2>3 DEF CameraInv
<1>4. CASE /\ wRtc' = [(IF wWake.mode = "none" THEN wRtc ELSE Camera!Arm("ota", wRtc))
                       EXCEPT !.elapsed = 0]
           /\ wSeen' = [Camera!Forgotten("ota") EXCEPT !.checked = TRUE]
  <2>. DEFINE r == IF wWake.mode = "none" THEN wRtc ELSE Camera!Arm("ota", wRtc)
              s == Camera!Forgotten("ota")
  <2>1. Kept(r, s)
    BY <1>2, ArmKept
  <2>2. wRtc' = [r EXCEPT !.elapsed = 0] /\ wSeen' = [s EXCEPT !.checked = TRUE]
    BY <1>4
  <2>. HIDE DEF r, s
  <2>3. Kept([r EXCEPT !.elapsed = 0], [s EXCEPT !.checked = TRUE])
    BY <1>1, <2>1
  <2>. QED  BY <2>2, <2>3 DEF CameraInv
<1>5. CASE /\ wRtc' = Camera!Rtc0
           /\ wSeen' = [told |-> [k \in Camera!Kinds |-> Camera!Told0], checked |-> TRUE]
  BY <1>5, ResetKept DEF CameraInv
<1>. QED  BY <1>3, <1>4, <1>5 DEF Camera!Ota

LEMMA WindowKept == CameraInv /\ Camera!Window => CameraInv'
<1>. SUFFICES ASSUME CameraInv, Camera!Window  PROVE CameraInv'
  OBVIOUS
<1>. DEFINE now == IF wWorld.day THEN "day" ELSE "night"
<1>0. "window" \in Camera!Kinds /\ "window" # "camera"
  BY DEF Camera!Kinds
<1>1. ASSUME NEW r, NEW s, Kept(r, s)
      PROVE  Kept([r EXCEPT !.window = now], s)
  <2>. DEFINE x == [r EXCEPT !.window = now]
  <2>1. x \in Rtcs /\ x.mail = r.mail /\ x.streak = r.streak /\ s \in Seens
    BY <1>1 DEF Kept, Rtcs
  <2>. HIDE DEF x
  <2>2. Kept(x, s)
    BY <1>1, <2>1, RestKept
  <2>. QED  BY <2>2 DEF x
<1>2. CASE UNCHANGED <<wRtc, wSeen>>
  BY <1>2 DEF CameraInv
<1>3. CASE wRtc' = [wRtc EXCEPT !.window = now] /\ UNCHANGED wSeen
  BY <1>1, <1>3 DEF CameraInv
<1>4. CASE /\ wRtc' = [Camera!Arm("window", wRtc) EXCEPT !.window = now]
           /\ wSeen' = Camera!Forgotten("window")
  <2>1. Kept(Camera!Arm("window", wRtc), Camera!Forgotten("window"))
    BY <1>0, ArmKept
  <2>. QED  BY <1>1, <1>4, <2>1 DEF CameraInv
<1>5. CASE Camera!Try("window")
  BY <1>0, <1>5, TryKept
<1>. QED  BY <1>2, <1>3, <1>4, <1>5 DEF Camera!Window

LEMMA OtaMailKept == CameraInv /\ Camera!OtaMail => CameraInv'
<1>. SUFFICES ASSUME CameraInv, Camera!OtaMail  PROVE CameraInv'
  OBVIOUS
<1>0. "ota" \in Camera!Kinds
  BY DEF Camera!Kinds
<1>1. CASE wRtc' = [wRtc EXCEPT !.mail["ota"].due = FALSE] /\ UNCHANGED wSeen
  <2>. DEFINE m == [wRtc.mail["ota"] EXCEPT !.due = FALSE]
              t == wSeen.told["ota"]
  <2>1. /\ wRtc.mail["ota"] \in Mails /\ t \in Told /\ PutTold(wSeen, "ota", t) = wSeen
        /\ Accounted(wRtc.mail["ota"], t)
    BY <1>0, KeptFacts DEF CameraInv
  <2>2. m \in Mails /\ m.due = FALSE
    BY <2>1 DEF Mails
  <2>3. wRtc' = PutMail(wRtc, "ota", m)
    BY <1>1 DEF PutMail
  <2>. HIDE DEF m, t
  <2>4. Accounted(m, t)
    BY <2>1, <2>2 DEF Accounted
  <2>5. Kept(PutMail(wRtc, "ota", m), PutTold(wSeen, "ota", t))
    BY <1>0, <2>1, <2>2, <2>4, PutKept DEF CameraInv
  <2>. QED  BY <1>1, <2>1, <2>3, <2>5 DEF CameraInv
<1>2. CASE Camera!Try("ota")
  BY <1>0, <1>2, TryKept
<1>. QED  BY <1>1, <1>2 DEF Camera!OtaMail

(* The series of failures: its mail is armed as it reaches the threshold,   *)
(* and only then, and a success disarms it.                                 *)
LEMMA ShootKept == CameraInv /\ Camera!Shoot => CameraInv'
<1>. SUFFICES ASSUME CameraInv, Camera!Shoot  PROVE CameraInv'
  OBVIOUS
<1>0. "camera" \in Camera!Kinds
  BY DEF Camera!Kinds
<1>1. /\ wRtc \in Rtcs /\ wSeen \in Seens /\ wRtc.streak \in Nat
      /\ wRtc.mail \in [Camera!Kinds -> Mails]
      /\ \A k \in Camera!Kinds : Accounted(wRtc.mail[k], wSeen.told[k])
      /\ wRtc.streak < Threshold =>
            ~wRtc.mail["camera"].due /\ wSeen.told["camera"] = Camera!Told0
  BY DEF CameraInv, Kept, Rtcs
<1>2. CASE UNCHANGED <<wRtc, wSeen>>
  BY <1>2 DEF CameraInv
<1>3. CASE /\ wRtc' = [wRtc EXCEPT !.streak = 0, !.mail["camera"] = Camera!NoMail]
           /\ wSeen' = Camera!Forgotten("camera")
  <2>. DEFINE r == PutMail(wRtc, "camera", Camera!NoMail)
              x == [r EXCEPT !.streak = 0]
  <2>1. Camera!NoMail \in Mails /\ Camera!Told0 \in Told /\ ~Camera!NoMail.due
        /\ Accounted(Camera!NoMail, Camera!Told0)
    BY CameraConstants DEF Camera!NoMail, Camera!Told0, Mails, Told, Accounted
  <2>2. Kept(r, PutTold(wSeen, "camera", Camera!Told0))
    BY <1>0, <2>1, PutKept DEF CameraInv
  <2>3. wSeen' = PutTold(wSeen, "camera", Camera!Told0)
    BY <1>3 DEF Camera!Forgotten, PutTold
  <2>4. wRtc' = x
    BY <1>1, <1>3 DEF PutMail, Rtcs
  <2>5. r.mail["camera"] = Camera!NoMail /\ wSeen'.told["camera"] = Camera!Told0
    BY <1>0, <2>3, PutTwice DEF CameraInv
  <2>. HIDE DEF r
  <2>6. x \in Rtcs /\ x.mail = r.mail
    BY <2>2 DEF Kept, Rtcs
  <2>. HIDE DEF x
  <2>. QED  BY <2>1, <2>2, <2>3, <2>4, <2>5, <2>6 DEF CameraInv, Kept
<1>4. CASE /\ wRtc' = [(IF wRtc.streak + 1 = Threshold THEN Camera!Arm("camera", wRtc) ELSE wRtc)
                       EXCEPT !.streak = Camera!Up(@, Threshold)]
           /\ UNCHANGED wSeen
  <2>1. CASE wRtc.streak + 1 = Threshold
    <3>. DEFINE m == [due |-> TRUE, tries |-> 0]
                r == Camera!Arm("camera", wRtc)
    <3>1. /\ r \in Rtcs /\ r.streak = wRtc.streak
          /\ \A k \in Camera!Kinds : r.mail[k] = IF k = "camera" THEN m ELSE wRtc.mail[k]
      BY <1>0, <1>1 DEF Camera!Arm, Rtcs, Mails
    <3>2. wRtc' = [r EXCEPT !.streak = Camera!Up(@, Threshold)]
      BY <1>4, <2>1
    <3>3. wSeen.told["camera"] = Camera!Told0
      BY <1>1, <2>1, CameraConstants
    <3>4. Accounted(m, Camera!Told0)
      BY CameraConstants DEF Accounted, Camera!Told0
    <3>. HIDE DEF r, m
    <3>5. Camera!Up(r.streak, Threshold) = Threshold
      BY <1>1, <2>1, <3>1, CameraConstants DEF Camera!Up
    <3>6. wRtc' \in Rtcs /\ wRtc'.streak = Threshold /\ wRtc'.mail = r.mail
      BY <3>1, <3>2, <3>5, CameraConstants DEF Rtcs
    <3>. QED  BY <1>1, <1>4, <3>1, <3>3, <3>4, <3>6, CameraConstants DEF CameraInv, Kept
  <2>2. CASE wRtc.streak + 1 # Threshold
    <3>1. wRtc' = [wRtc EXCEPT !.streak = Camera!Up(@, Threshold)]
      BY <1>4, <2>2
    <3>2. /\ Camera!Up(wRtc.streak, Threshold) \in Nat
          /\ Camera!Up(wRtc.streak, Threshold) < Threshold => wRtc.streak < Threshold
      BY <1>1, CameraConstants DEF Camera!Up
    <3>3. /\ wRtc' \in Rtcs /\ wRtc'.mail = wRtc.mail
          /\ wRtc'.streak = Camera!Up(wRtc.streak, Threshold)
      BY <1>1, <3>1, <3>2 DEF Rtcs
    <3>. QED  BY <1>1, <1>4, <3>2, <3>3 DEF CameraInv, Kept
  <2>. QED  BY <2>1, <2>2
<1>. QED  BY <1>2, <1>3, <1>4 DEF Camera!Shoot

LEMMA CameraStep == CameraInv /\ [Camera!Next]_cameraVars => CameraInv'
<1>. SUFFICES ASSUME CameraInv, [Camera!Next]_cameraVars  PROVE CameraInv'
  OBVIOUS
<1>1. CASE UNCHANGED <<wRtc, wSeen>>
  BY <1>1 DEF CameraInv
<1>2. CASE Camera!Alert
  <2>1. "camera" \in Camera!Kinds
    BY DEF Camera!Kinds
  <2>. QED  BY <1>2, <2>1, TryKept DEF Camera!Alert
<1>3. CASE Camera!DeepSleep
  <2>1. wRtc.elapsed \in Nat
    BY DEF CameraInv, Kept, Rtcs
  <2>2. Camera!Up(wRtc.elapsed, Interval) \in Nat
    BY <2>1 DEF Camera!Up
  <2>3. wRtc' \in Rtcs /\ wRtc'.mail = wRtc.mail /\ wRtc'.streak = wRtc.streak
    BY <1>3, <2>2 DEF Camera!DeepSleep, CameraInv, Kept, Rtcs
  <2>4. wSeen' \in Seens /\ wSeen'.told = wSeen.told
    BY <1>3 DEF Camera!DeepSleep, CameraInv, Kept, Seens
  <2>. QED  BY <2>3, <2>4, RestKept DEF CameraInv
<1>4. CASE Camera!Reset
  BY <1>4, ResetKept DEF Camera!Reset, CameraInv
<1>5. Camera!Connect \/ Camera!Remote \/ Camera!World \/ UNCHANGED cameraVars
        => UNCHANGED <<wRtc, wSeen>>
  BY DEF Camera!Connect, Camera!Remote, Camera!World, cameraVars
<1>. QED
  BY <1>1, <1>2, <1>3, <1>4, <1>5, OtaKept, WindowKept, OtaMailKept, ShootKept
  DEF Camera!Next, Camera!Step

LEMMA CameraInit == Camera!Init => CameraInv
BY ResetKept DEF Camera!Init, CameraInv

-----------------------------------------------------------------------------
(* The log of events (EventLog).                                            *)

Events == [seq : Nat, id : Nat]

LogTypes ==
    /\ slots \in [Log!Slots -> Events] /\ logNvs \in [Log!Slots -> Events]
    /\ nextSeq \in Nat \ {0} /\ logFails \in Nat
    /\ logSeen \in [logged : Nat, bad : Nat]
    /\ up \in [step : {"down", "begun", "up", "acking"}, healthy : BOOLEAN, safe : BOOLEAN]

(* The numbers in flash are distinct and were given to events logged.       *)
FlashInv ==
    /\ \A i \in Log!Slots : logNvs[i].seq <= logSeen.logged
    /\ \A i, j \in Log!Slots : logNvs[i].seq # 0 /\ logNvs[i].seq = logNvs[j].seq => i = j

(* The ring in RAM is part of the one in flash, and the next number is new. *)
RamInv ==
    /\ up.step = "down" => \A i \in Log!Slots : slots[i].seq = 0
    /\ \A i \in Log!Slots : slots[i].seq # 0 => logNvs[i] = slots[i]
    /\ up.step # "down" => /\ \A i \in Log!Slots : logNvs[i].seq < nextSeq
                           /\ nextSeq <= logSeen.logged + 1

SafeInv ==
    /\ logFails = logSeen.bad
    /\ up.step = "begun" => (up.safe <=> logFails >= SafeAfter)

LogInv == LogTypes /\ FlashInv /\ RamInv /\ SafeInv

LEMMA LogConstants == Capacity \in Nat \ {0} /\ SafeAfter \in Nat \ {0} /\ 0 \in Log!Slots
<1>1. Capacity \in Nat \ {0} /\ SafeAfter \in Nat \ {0}
  BY BoardsAssumption
<1>. QED  BY <1>1 DEF Log!Slots

(* A set of numbers with a bound has a highest one.                         *)
(* A bounded set of numbers has a highest one.                              *)
LEMMA Highest ==
    ASSUME NEW S \in SUBSET Nat, S # {}, NEW b \in Nat, \A x \in S : x <= b
    PROVE  \E m \in S : \A y \in S : y <= m
<1>. DEFINE T == {n \in Nat : \A x \in S : x <= n}
<1>1. PICK m \in T : \A n \in T : ~(n < m)
  <2>1. T \subseteq Nat /\ b \in T
    OBVIOUS
  <2>. HIDE DEF T
  <2>2. PICK m \in T : \A n \in T : ~(<<n, m>> \in OpToRel(<, Nat))
    BY <2>1, NatLessThanWellFounded, WFMin
  <2>. QED  BY <2>1, <2>2 DEF OpToRel
<1>2. m \in S
  <2>. SUFFICES ASSUME m \notin S  PROVE FALSE
    OBVIOUS
  <2>1. m \in Nat /\ \A x \in S : x < m
    BY <1>1
  <2>2. m - 1 \in Nat
    <3>1. PICK x \in S : TRUE
      OBVIOUS
    <3>2. x \in Nat /\ x < m
      BY <2>1
    <3>. QED  BY <2>1, <3>2
  <2>3. \A x \in S : x <= m - 1
    BY <2>1
  <2>4. m - 1 \in T
    BY <2>2, <2>3
  <2>. QED  BY <1>1, <2>1, <2>4
<1>. QED  BY <1>1, <1>2

LEMMA MaxFacts ==
    ASSUME NEW S \in SUBSET Nat, S # {}, NEW b \in Nat, \A x \in S : x <= b
    PROVE  Log!Max(S) \in S /\ \A y \in S : y <= Log!Max(S)
<1>1. \E x \in S : \A y \in S : x >= y
  BY Highest
<1>2. Log!Max(S) \in S /\ \A y \in S : Log!Max(S) >= y
  BY <1>1 DEF Log!Max
<1>. QED  BY <1>2

(* The number of the next event after a load of the flash.                  *)
LEMMA DecodedFacts ==
    ASSUME LogInv
    PROVE  /\ Log!decodedSeq(logNvs) \in Nat \ {0}
           /\ \A i \in Log!Slots : logNvs[i].seq < Log!decodedSeq(logNvs)
           /\ Log!decodedSeq(logNvs) <= logSeen.logged + 1
<1>. DEFINE S == {logNvs[i].seq : i \in Log!Slots}
<1>1. /\ \A i \in Log!Slots : logNvs[i].seq \in Nat /\ logNvs[i].seq <= logSeen.logged
      /\ logSeen.logged \in Nat
  BY DEF LogInv, LogTypes, FlashInv, Events
<1>2. S \in SUBSET Nat /\ S # {} /\ \A x \in S : x <= logSeen.logged
  BY <1>1, LogConstants
<1>3. \A i \in Log!Slots : logNvs[i].seq \in S
  OBVIOUS
<1>4. Log!decodedSeq(logNvs) = Log!Max(S) + 1
  BY DEF Log!decodedSeq
<1>. HIDE DEF S
<1>5. Log!Max(S) \in S /\ \A y \in S : y <= Log!Max(S)
  BY <1>1, <1>2, MaxFacts
<1>6. Log!Max(S) \in Nat /\ Log!Max(S) <= logSeen.logged
  BY <1>2, <1>5
<1>. QED  BY <1>1, <1>3, <1>4, <1>5, <1>6

(* An event pushed and saved has a number that no slot of the flash has.    *)
LEMMA PushSound ==
    ASSUME LogInv, up.step # "down", Log!Log, logFails' = logFails,
           up' \in [step : {"up", "acking"}, healthy : BOOLEAN, safe : BOOLEAN]
    PROVE  LogInv'
<1>. DEFINE id == logSeen.logged + 1
            e == [seq |-> nextSeq, id |-> id]
<1>1. /\ slots \in [Log!Slots -> Events] /\ logNvs \in [Log!Slots -> Events]
      /\ nextSeq \in Nat \ {0} /\ logFails \in Nat
      /\ logSeen \in [logged : Nat, bad : Nat]
      /\ \A i \in Log!Slots : logNvs[i].seq <= logSeen.logged /\ logNvs[i].seq < nextSeq
      /\ \A i, j \in Log!Slots :
            logNvs[i].seq # 0 /\ logNvs[i].seq = logNvs[j].seq => i = j
      /\ \A i \in Log!Slots : slots[i].seq # 0 => logNvs[i] = slots[i]
      /\ nextSeq <= logSeen.logged + 1 /\ logFails = logSeen.bad
  BY DEF LogInv, LogTypes, FlashInv, RamInv, SafeInv
<1>2. /\ slots' = [slots EXCEPT ![head] = e] /\ nextSeq' = nextSeq + 1
      /\ logNvs' = [logNvs EXCEPT ![head] = slots'[head]]
      /\ logSeen' = [logSeen EXCEPT !.logged = id]
  BY DEF Log!Log, Log!savedSlot
<1>3. e \in Events /\ e.seq = nextSeq
  BY <1>1 DEF Events
<1>. HIDE DEF e
<1>4. /\ slots' \in [Log!Slots -> Events] /\ logNvs' \in [Log!Slots -> Events]
      /\ \A i \in Log!Slots : slots'[i] = IF i = head THEN e ELSE slots[i]
      /\ \A i \in Log!Slots : logNvs'[i] = IF i = head THEN e ELSE logNvs[i]
  BY <1>1, <1>2, <1>3
<1>5. /\ logSeen' \in [logged : Nat, bad : Nat] /\ logSeen'.logged = logSeen.logged + 1
      /\ logSeen'.bad = logSeen.bad
  BY <1>1, <1>2
<1>6. nextSeq' \in Nat \ {0} /\ nextSeq' <= logSeen'.logged + 1
  BY <1>1, <1>2, <1>5
<1>7. up'.step \notin {"down", "begun"}
      /\ up' \in [step : {"down", "begun", "up", "acking"}, healthy : BOOLEAN, safe : BOOLEAN]
  OBVIOUS
<1>8. LogTypes'
  BY <1>1, <1>4, <1>5, <1>6, <1>7 DEF LogTypes
<1>9. \A i \in Log!Slots : logNvs[i].seq \in Nat
  BY <1>1 DEF Events
<1>10. \A i \in Log!Slots : logNvs'[i].seq <= logSeen'.logged /\ logNvs'[i].seq < nextSeq'
  BY <1>1, <1>2, <1>3, <1>4, <1>5, <1>9
<1>11. FlashInv'
  BY <1>1, <1>3, <1>4, <1>9, <1>10 DEF FlashInv
<1>12. RamInv'
  BY <1>1, <1>4, <1>6, <1>7, <1>10 DEF RamInv
<1>13. SafeInv'
  BY <1>1, <1>5, <1>7 DEF SafeInv
<1>. QED  BY <1>8, <1>11, <1>12, <1>13 DEF LogInv

LEMMA AckSound ==
    ASSUME LogInv, Log!AckLoop
    PROVE  LogInv'
<1>. DEFINE i == report.at
<1>1. /\ slots \in [Log!Slots -> Events] /\ logNvs \in [Log!Slots -> Events]
      /\ \A j \in Log!Slots : slots[j].seq \in Nat /\ logNvs[j].seq \in Nat
  BY DEF LogInv, LogTypes, Events
<1>2. UNCHANGED <<nextSeq, logFails, up, logSeen>> /\ up.step = "acking"
  BY DEF Log!AckLoop
<1>3. CASE UNCHANGED <<slots, logNvs>>
  BY <1>2, <1>3 DEF LogInv, LogTypes, FlashInv, RamInv, SafeInv
<1>4. CASE /\ slots' = Log!ackSlot(i)
           /\ logNvs' = [logNvs EXCEPT ![i] = Log!Empty]
  <2>1. Log!Empty \in Events /\ Log!Empty.seq = 0
    BY DEF Log!Empty, Events
  <2>2. \A j \in Log!Slots : slots'[j] = IF slots[j].seq # 0 /\ slots[j].seq <= slots[i].seq
                                         THEN Log!Empty ELSE slots[j]
    BY <1>4 DEF Log!ackSlot
  <2>3. slots' \in [Log!Slots -> Events]
    BY <1>1, <1>4, <2>1 DEF Log!ackSlot
  <2>4. /\ logNvs' \in [Log!Slots -> Events]
        /\ \A j \in Log!Slots : logNvs'[j] = IF j = i THEN Log!Empty ELSE logNvs[j]
    BY <1>1, <1>4, <2>1
  <2>. HIDE DEF i
  <2>5. LogTypes'
    BY <1>2, <2>3, <2>4 DEF LogInv, LogTypes
  <2>6. FlashInv'
    <3>1. logSeen.logged \in Nat
      BY DEF LogInv, LogTypes
    <3>2. \A j \in Log!Slots : logNvs'[j].seq <= logSeen'.logged
      BY <1>2, <2>1, <2>4, <3>1 DEF LogInv, FlashInv
    <3>3. \A j, k \in Log!Slots :
              logNvs'[j].seq # 0 /\ logNvs'[j].seq = logNvs'[k].seq => j = k
      BY <2>1, <2>4 DEF LogInv, FlashInv
    <3>. QED  BY <3>2, <3>3 DEF FlashInv
  <2>7. RamInv'
    <3>1. \A j \in Log!Slots : slots'[j].seq # 0 => logNvs'[j] = slots'[j]
      BY <1>1, <2>1, <2>2, <2>4 DEF LogInv, RamInv
    <3>2. nextSeq \in Nat \ {0} /\ \A j \in Log!Slots : logNvs'[j].seq < nextSeq'
      BY <1>2, <2>1, <2>4 DEF LogInv, LogTypes, RamInv
    <3>. QED  BY <1>2, <3>1, <3>2 DEF LogInv, RamInv
  <2>8. SafeInv'
    BY <1>2 DEF LogInv, SafeInv
  <2>. QED  BY <2>5, <2>6, <2>7, <2>8 DEF LogInv
<1>. QED  BY <1>3, <1>4 DEF Log!AckLoop

LEMMA BeginSound ==
    ASSUME LogInv, Log!Begin
    PROVE  LogInv'
<1>1. /\ logNvs \in [Log!Slots -> Events] /\ logFails \in Nat
      /\ logSeen \in [logged : Nat, bad : Nat] /\ logFails = logSeen.bad
  BY DEF LogInv, LogTypes, SafeInv
<1>2. /\ slots' = logNvs /\ nextSeq' = Log!decodedSeq(logNvs) /\ UNCHANGED logNvs
      /\ logFails' = IF logFails < SafeAfter THEN logFails + 1 ELSE logFails
      /\ up' = [Log!Down EXCEPT !.step = "begun", !.safe = logFails' >= SafeAfter]
      /\ logSeen' = [logSeen EXCEPT !.bad = IF @ < SafeAfter THEN @ + 1 ELSE @]
  BY DEF Log!Begin, Log!Start
<1>3. /\ up' \in [step : {"down", "begun", "up", "acking"}, healthy : BOOLEAN, safe : BOOLEAN]
      /\ up'.step = "begun" /\ (up'.safe <=> logFails' >= SafeAfter)
  <2>. DEFINE b == logFails' >= SafeAfter
              u == [Log!Down EXCEPT !.step = "begun"]
  <2>1. up' = [u EXCEPT !.safe = b]
    BY <1>2
  <2>2. b \in BOOLEAN
    <3>1. logFails' \in Nat /\ SafeAfter \in Nat
      BY <1>1, <1>2, LogConstants
    <3>. QED  BY <3>1
  <2>3. /\ u \in [step : {"down", "begun", "up", "acking"}, healthy : BOOLEAN, safe : BOOLEAN]
        /\ u.step = "begun"
    BY DEF Log!Down
  <2>. HIDE DEF b, u
  <2>4. /\ up' \in [step : {"down", "begun", "up", "acking"}, healthy : BOOLEAN, safe : BOOLEAN]
        /\ up'.step = "begun" /\ up'.safe = b
    BY <2>1, <2>2, <2>3
  <2>. QED  BY <2>4 DEF b
<1>4. /\ logSeen' \in [logged : Nat, bad : Nat] /\ logSeen'.logged = logSeen.logged
      /\ logSeen'.bad = IF logSeen.bad < SafeAfter THEN logSeen.bad + 1 ELSE logSeen.bad
  BY <1>1, <1>2
<1>5. logFails' \in Nat /\ logFails' = logSeen'.bad
  BY <1>1, <1>2, <1>4
<1>6. LogTypes'
  BY <1>1, <1>2, <1>3, <1>4, <1>5, DecodedFacts DEF LogTypes
<1>7. FlashInv'
  BY <1>2, <1>4 DEF LogInv, FlashInv
<1>8. RamInv'
  BY <1>2, <1>3, <1>4, DecodedFacts DEF RamInv
<1>9. SafeInv'
  BY <1>3, <1>5 DEF SafeInv
<1>. QED  BY <1>6, <1>7, <1>8, <1>9 DEF LogInv

LEMMA LogStep == LogInv /\ [Log!Next]_logVars => LogInv'
<1>. SUFFICES ASSUME LogInv, [Log!Next]_logVars  PROVE LogInv'
  OBVIOUS
<1>a. up \in [step : {"down", "begun", "up", "acking"}, healthy : BOOLEAN, safe : BOOLEAN]
  BY DEF LogInv, LogTypes
<1>b. ASSUME UNCHANGED <<slots, nextSeq, logNvs, logFails, logSeen>>, up.step # "down",
             up' \in [step : {"up", "acking"}, healthy : BOOLEAN, safe : BOOLEAN]
      PROVE  LogInv'
  BY <1>b DEF LogInv, LogTypes, FlashInv, RamInv, SafeInv
<1>1. CASE Log!Begin
  BY <1>1, BeginSound
<1>2. CASE Log!LogBoot
  <2>1. /\ up.step = "begun" /\ up' = [up EXCEPT !.step = "up"] /\ logFails' = logFails
        /\ Log!Log \/ UNCHANGED <<slots, nextSeq, logNvs, logSeen>>
    BY <1>2 DEF Log!LogBoot, Log!ring
  <2>2. up' \in [step : {"up", "acking"}, healthy : BOOLEAN, safe : BOOLEAN]
    BY <1>a, <2>1
  <2>. QED  BY <1>b, <2>1, <2>2, PushSound
<1>3. CASE Log!LogEvent
  <2>1. up.step = "up" /\ Log!Log /\ UNCHANGED <<logFails, up>>
    BY <1>3 DEF Log!LogEvent
  <2>2. up' \in [step : {"up", "acking"}, healthy : BOOLEAN, safe : BOOLEAN]
    BY <1>a, <2>1
  <2>. QED  BY <2>1, <2>2, PushSound
<1>4. CASE Log!Stop
  <2>1. /\ up' = Log!Down /\ slots' = [i \in Log!Slots |-> Log!Empty] /\ nextSeq' = 1
        /\ UNCHANGED <<logNvs, logFails, logSeen>>
    BY <1>4 DEF Log!Stop
  <2>2. Log!Empty \in Events /\ Log!Empty.seq = 0
    BY DEF Log!Empty, Events
  <2>3. /\ up' \in [step : {"down", "begun", "up", "acking"}, healthy : BOOLEAN, safe : BOOLEAN]
        /\ up'.step = "down"
    BY <2>1 DEF Log!Down
  <2>4. LogTypes'
    BY <2>1, <2>2, <2>3 DEF LogInv, LogTypes
  <2>. QED  BY <2>1, <2>2, <2>3, <2>4 DEF LogInv, FlashInv, RamInv, SafeInv
<1>5. CASE Log!MarkHealthy
  <2>1. /\ up.step = "up" /\ up' = [up EXCEPT !.healthy = TRUE] /\ logFails' = 0
        /\ logSeen' = [logSeen EXCEPT !.bad = 0] /\ UNCHANGED <<slots, nextSeq, logNvs>>
    BY <1>5 DEF Log!MarkHealthy, Log!ring
  <2>2. /\ up' \in [step : {"down", "begun", "up", "acking"}, healthy : BOOLEAN, safe : BOOLEAN]
        /\ up'.step = "up"
    BY <1>a, <2>1
  <2>3. /\ logSeen' \in [logged : Nat, bad : Nat] /\ logSeen'.logged = logSeen.logged
        /\ logSeen'.bad = 0
    BY <2>1 DEF LogInv, LogTypes
  <2>4. LogTypes' /\ FlashInv' /\ RamInv' /\ SafeInv'
    BY <2>1, <2>2, <2>3 DEF LogInv, LogTypes, FlashInv, RamInv, SafeInv
  <2>. QED  BY <2>4 DEF LogInv
<1>6. CASE Log!Flush
  <2>1. /\ up.step = "up" /\ UNCHANGED <<slots, nextSeq, logNvs, logFails, logSeen>>
        /\ up' = [up EXCEPT !.step = "acking"] \/ up' = up
    BY <1>6 DEF Log!Flush, Log!ring
  <2>2. up' \in [step : {"up", "acking"}, healthy : BOOLEAN, safe : BOOLEAN]
    BY <1>a, <2>1
  <2>. QED  BY <1>b, <2>1, <2>2
<1>7. CASE Log!LogDuringPost
  <2>1. up.step = "acking" /\ Log!Log /\ UNCHANGED <<logFails, up>>
    BY <1>7 DEF Log!LogDuringPost
  <2>2. up' \in [step : {"up", "acking"}, healthy : BOOLEAN, safe : BOOLEAN]
    BY <1>a, <2>1
  <2>. QED  BY <2>1, <2>2, PushSound
<1>8. CASE Log!AckLoop
  BY <1>8, AckSound
<1>9. CASE Log!AckDone
  <2>1. /\ up.step = "acking" /\ up' = [up EXCEPT !.step = "up"]
        /\ UNCHANGED <<slots, nextSeq, logNvs, logFails, logSeen>>
    BY <1>9 DEF Log!AckDone, Log!ring
  <2>2. up' \in [step : {"up", "acking"}, healthy : BOOLEAN, safe : BOOLEAN]
    BY <1>a, <2>1
  <2>. QED  BY <1>b, <2>1, <2>2
<1>10. CASE UNCHANGED logVars
  BY <1>10 DEF logVars, LogInv, LogTypes, FlashInv, RamInv, SafeInv
<1>. QED
  BY <1>1, <1>2, <1>3, <1>4, <1>5, <1>6, <1>7, <1>8, <1>9, <1>10 DEF Log!Next

LEMMA LogInit == Log!Init => LogInv
<1>. SUFFICES ASSUME Log!Init  PROVE LogInv
  OBVIOUS
<1>1. /\ slots = [i \in Log!Slots |-> Log!Empty] /\ logNvs = slots /\ nextSeq = 1
      /\ logFails = 0 /\ up = Log!Down /\ logSeen = Log!Seen0
  BY DEF Log!Init
<1>2. Log!Empty \in Events /\ Log!Empty.seq = 0
  BY DEF Log!Empty, Events
<1>3. /\ up \in [step : {"down", "begun", "up", "acking"}, healthy : BOOLEAN, safe : BOOLEAN]
      /\ up.step = "down"
      /\ logSeen \in [logged : Nat, bad : Nat] /\ logSeen.logged = 0 /\ logSeen.bad = 0
  BY <1>1 DEF Log!Down, Log!Seen0
<1>4. LogTypes
  BY <1>1, <1>2, <1>3 DEF LogTypes
<1>. QED  BY <1>1, <1>2, <1>3, <1>4 DEF LogInv, FlashInv, RamInv, SafeInv

-----------------------------------------------------------------------------
(* The camera's queue of photos.                                            *)

Files == [n : Nat, id : Nat, whole : BOOLEAN]
QueueSteps == {"off", "reconcile", "card", "nocard", "write", "written", "direct", "confirm",
               "drain", "send", "acked", "done"}

(* A photo in hand has the number after the counters.                       *)
QueueTypes ==
    /\ qPc \in QueueSteps /\ qNvs \in [count : Nat, cursor : Nat]
    /\ card \subseteq Files /\ cur \in Files /\ todo \in [files : SUBSET Files, left : Int]
    /\ env \in [net : BOOLEAN, sd : BOOLEAN, cold : BOOLEAN, resets : Nat, faults : Nat,
                bad : SUBSET Nat]
    /\ qSeen \in [taken : Nat, sent : SUBSET Nat, skipped : SUBSET Nat, failed : BOOLEAN]
    /\ \E b \in Nat : \A f \in card : f.n <= b
    /\ \A f \in card \cup {cur} : f.id <= qSeen.taken
    /\ todo.files \subseteq card
    /\ qPc \in {"write", "written", "direct"} => cur.n = Queue!Known + 1
    /\ qPc = "reconcile" => todo.left \in Nat

(* While the card is mounted no file is beyond the counters, but for one    *)
(* that a reset or the last write left, and each has a number of its own.   *)
Numbered ==
    /\ \A f, g \in card : f.n = g.n => f = g
    /\ qSeen.taken = 0 \/ \A f \in card : f.n <= Queue!Known + 1
    /\ qPc = "reconcile" => \A f \in card : f.n <= qNvs.count
    /\ qPc \in {"card", "write", "drain", "send", "acked", "done"}
         \/ (qPc = "off" /\ ~env.cold)
       => \A f \in card : f.n <= Queue!Known
    /\ qPc = "written" => \A f \in card : f.n <= Queue!Known \/ f = cur
    /\ qPc \in {"send", "acked"} => qNvs.cursor <= qNvs.count

Own(f) == f.id \in Queue!Photos /\ f.whole /\ f.id \notin qSeen.sent \cup qSeen.skipped

(* A photo of the board is behind the cursor only when it was sent or       *)
(* given up, and the drain has it on its list.                              *)
Waits ==
    /\ qPc \notin {"nocard", "direct", "confirm"}
    /\ qPc = "acked" => cur \in card
    /\ \A f \in card : Own(f) =>
         /\ f.n > qNvs.cursor
         /\ qPc = "reconcile" => f.n > todo.left
         /\ qPc = "send" => f \in todo.files
         /\ qPc = "acked" => f \in todo.files /\ f.n > cur.n

QueueInv == QueueTypes /\ (qSeen.failed \/ (Numbered /\ Waits))

LEMMA QueueConstants == MaxPhotos \in Nat /\ PerWake \in Nat
BY BoardsAssumption

LEMMA QueueInit == Queue!Init => QueueInv
<1>. SUFFICES ASSUME Queue!Init  PROVE QueueInv
  OBVIOUS
<1>a. qNvs \in {[count |-> 0, cursor |-> 0], [count |-> 0, cursor |-> 1]}
  BY DEF Queue!Init
<1>b. qNvs \in [count : Nat, cursor : Nat] /\ qNvs.count = 0
  BY <1>a
<1>1. /\ qPc = "off"
      /\ cur = Queue!NoFile /\ todo = [files |-> {}, left |-> 0]
      /\ env \in [net : BOOLEAN, sd : BOOLEAN, cold : {TRUE}, resets : {0}, faults : {0},
                  bad : {{}, {1}}]
      /\ qSeen = [taken |-> 0, sent |-> {}, skipped |-> {}, failed |-> FALSE]
  BY DEF Queue!Init
<1>2. \/ card = {}
      \/ card = {[n |-> 2, id |-> 0, whole |-> TRUE]}
  BY DEF Queue!Init
<1>c. [n |-> 2, id |-> 0, whole |-> TRUE] \in Files
  BY DEF Files
<1>3. card \subseteq Files /\ Queue!NoFile \in Files /\ Queue!NoFile.id = 0
  BY <1>2, <1>c DEF Files, Queue!NoFile
<1>4. \A f \in card : f.n <= 2 /\ f.id = 0
  BY <1>2
<1>5. \A f, g \in card : f = g
  BY <1>2
<1>6. env \in [net : BOOLEAN, sd : BOOLEAN, cold : BOOLEAN, resets : Nat, faults : Nat,
                bad : SUBSET Nat] /\ env.cold
  <2>1. {0} \subseteq Nat /\ {TRUE} \subseteq BOOLEAN /\ {{}, {1}} \subseteq SUBSET Nat
    OBVIOUS
  <2>2. /\ env.net \in BOOLEAN /\ env.sd \in BOOLEAN /\ env.cold = TRUE /\ env.resets \in Nat
        /\ env.faults \in Nat /\ env.bad \in SUBSET Nat
    BY <1>1, <2>1
  <2>3. env = [net |-> env.net, sd |-> env.sd, cold |-> env.cold, resets |-> env.resets,
               faults |-> env.faults, bad |-> env.bad]
    BY <1>1
  <2>. HIDE <1>1
  <2>. QED  BY <2>2, <2>3
<1>7. QueueTypes
  BY <1>b, <1>1, <1>3, <1>4, <1>6 DEF QueueTypes, QueueSteps
<1>8. Numbered
  BY <1>1, <1>3, <1>4, <1>5, <1>6 DEF Numbered
<1>9. Waits
  BY <1>1, <1>3, <1>4, QueueConstants DEF Waits, Own, Queue!Photos, Files
<1>. QED  BY <1>7, <1>8, <1>9 DEF QueueInv

(* The world around the board.                                              *)
LEMMA WorldKept == QueueInv /\ Queue!World => QueueInv'
<1>. SUFFICES ASSUME QueueInv, Queue!World  PROVE QueueInv'
  OBVIOUS
<1>1. /\ UNCHANGED <<qPc, qNvs, card, cur, todo, qSeen>>
      /\ env' = [env EXCEPT !.net = ~@] \/ env' = [env EXCEPT !.sd = ~@]
  BY DEF Queue!World
<1>2. /\ env' \in [net : BOOLEAN, sd : BOOLEAN, cold : BOOLEAN, resets : Nat, faults : Nat,
                bad : SUBSET Nat] 
      /\ env'.cold = env.cold
  BY <1>1 DEF QueueInv, QueueTypes
<1>3. QueueTypes'
  BY <1>1, <1>2 DEF QueueInv, QueueTypes, Queue!Known, Queue!Bigger
<1>4. Numbered => Numbered'
  BY <1>1, <1>2 DEF Numbered, Queue!Known, Queue!Bigger
<1>5. Waits => Waits'
  BY <1>1 DEF Waits, Own
<1>. QED  BY <1>1, <1>3, <1>4, <1>5 DEF QueueInv

(* The highest number on the card.                                          *)
LEMMA StoredFacts ==
    ASSUME QueueTypes
    PROVE  /\ Queue!MaxStored \in Nat /\ \A f \in card : f.n <= Queue!MaxStored
           /\ card # {} => \E f \in card : f.n = Queue!MaxStored
<1>1. CASE card = {}
  BY <1>1 DEF Queue!MaxStored
<1>2. CASE card # {}
  <2>. DEFINE S == {f.n : f \in card}
  <2>1. PICK b \in Nat : \A f \in card : f.n <= b
    BY DEF QueueTypes
  <2>2. S \in SUBSET Nat /\ S # {} /\ \A x \in S : x <= b
    BY <1>2, <2>1 DEF QueueTypes, Files
  <2>3. PICK m \in S : \A y \in S : y <= m
    <3>. HIDE DEF S
    <3>. QED  BY <2>1, <2>2, Highest
  <2>4. m \in Nat /\ \A f \in card : f.n <= m
    BY <2>2, <2>3
  <2>5. Queue!MaxStored = CHOOSE n \in S : \A f \in card : f.n <= n
    BY <1>2 DEF Queue!MaxStored
  <2>6. Queue!MaxStored \in S /\ \A f \in card : f.n <= Queue!MaxStored
    <3>1. \E n \in S : \A f \in card : f.n <= n
      BY <2>3, <2>4
    <3>. QED  BY <3>1, <2>5
  <2>. QED  BY <2>2, <2>6
<1>. QED  BY <1>1, <1>2

LEMMA MountKept == QueueInv /\ Queue!Mount => QueueInv'
<1>. SUFFICES ASSUME QueueInv, Queue!Mount  PROVE QueueInv'
  OBVIOUS
<1>1. /\ qPc = "off" /\ UNCHANGED <<card, cur, env>>
      /\ qNvs \in [count : Nat, cursor : Nat] /\ todo \in [files : SUBSET Files, left : Int]
      /\ qSeen \in [taken : Nat, sent : SUBSET Nat, skipped : SUBSET Nat, failed : BOOLEAN]
  BY DEF Queue!Mount, QueueInv, QueueTypes
<1>2. CASE env.sd /\ env.cold
  <2>1. /\ qNvs' = [qNvs EXCEPT !.count = Queue!Reconciled.count]
        /\ todo' = [todo EXCEPT !.left = Queue!Reconciled.cursor] /\ qPc' = "reconcile"
        /\ qSeen' = qSeen
    BY <1>2 DEF Queue!Mount
  <2>2. /\ Queue!MaxStored \in Nat /\ Queue!Known \in Nat /\ qNvs.cursor <= Queue!Known
        /\ qNvs.count <= Queue!Known /\ \A f \in card : f.n <= Queue!MaxStored
    BY <1>1, StoredFacts DEF QueueInv, Queue!Known, Queue!Bigger
  <2>3. /\ Queue!Reconciled.count \in Nat /\ Queue!Reconciled.cursor \in Nat
        /\ Queue!MaxStored <= Queue!Reconciled.count /\ Queue!Known <= Queue!Reconciled.count
        /\ \/ Queue!Reconciled.cursor = qNvs.cursor
           \/ Queue!MaxStored > Queue!Known + 1
    BY <1>1, <2>2 DEF Queue!Reconciled, Queue!Bigger
  <2>4. /\ qNvs' \in [count : Nat, cursor : Nat] /\ qNvs'.cursor = qNvs.cursor
        /\ qNvs'.count = Queue!Reconciled.count
        /\ todo' \in [files : SUBSET Files, left : Int] /\ todo'.files = todo.files
        /\ todo'.left = Queue!Reconciled.cursor
    BY <1>1, <2>1, <2>3
  <2>5. Queue!Known' = Queue!Reconciled.count
    BY <2>2, <2>3, <2>4 DEF Queue!Known, Queue!Bigger
  <2>6. QueueTypes'
    BY <1>1, <2>1, <2>3, <2>4 DEF QueueInv, QueueTypes, QueueSteps
  <2>7. \A f \in card : f \in Files /\ f.n <= Queue!Reconciled.count
    BY <2>2, <2>3 DEF QueueInv, QueueTypes, Files
  <2>8. Numbered => Numbered'
    BY <1>1, <2>1, <2>3, <2>5, <2>7 DEF Numbered, Files
  <2>9. ASSUME Numbered, Waits  PROVE Waits'
    <3>1. CASE Queue!Reconciled.cursor = qNvs.cursor
      BY <1>1, <2>1, <2>4, <2>9, <3>1 DEF Waits, Own
    <3>2. CASE Queue!MaxStored > Queue!Known + 1
      <4>1. qSeen.taken = 0
        <5>. SUFFICES ASSUME qSeen.taken # 0  PROVE FALSE
          OBVIOUS
        <5>1. \A f \in card : f.n <= Queue!Known + 1
          BY <2>9 DEF Numbered
        <5>2. card # {}
          BY <2>2, <3>2 DEF Queue!MaxStored
        <5>3. PICK f \in card : f.n = Queue!MaxStored
          BY <5>2, StoredFacts DEF QueueInv
        <5>. QED  BY <2>2, <3>2, <5>1, <5>3
      <4>2. \A f \in card : ~Own(f)
        BY <4>1, QueueConstants DEF Own, Queue!Photos, QueueInv, QueueTypes, Files
      <4>3. \A f \in card' : ~Own(f)'
        BY <1>1, <2>1, <4>2 DEF Own
      <4>. QED  BY <1>1, <2>1, <2>4, <2>9, <4>3 DEF Waits
    <3>. QED  BY <2>3, <3>1, <3>2
  <2>. QED  BY <2>1, <2>6, <2>8, <2>9 DEF QueueInv
<1>3. CASE ~(env.sd /\ env.cold)
  <2>1. /\ UNCHANGED <<qNvs, todo>> /\ qPc' = IF env.sd THEN "card" ELSE "nocard"
        /\ IF env.sd THEN qSeen' = qSeen ELSE qSeen' = [qSeen EXCEPT !.failed = TRUE]
    BY <1>3 DEF Queue!Mount, Queue!CardFailed
  <2>2. /\ qSeen' \in [taken : Nat, sent : SUBSET Nat, skipped : SUBSET Nat, failed : BOOLEAN]
        /\ qSeen'.taken = qSeen.taken /\ (~env.sd => qSeen'.failed)
    BY <1>1, <2>1
  <2>3. Queue!Known' = Queue!Known
    BY <2>1 DEF Queue!Known, Queue!Bigger
  <2>4. QueueTypes'
    BY <1>1, <2>1, <2>2, <2>3 DEF QueueInv, QueueTypes, QueueSteps
  <2>5. CASE ~env.sd
    BY <2>2, <2>4, <2>5 DEF QueueInv
  <2>6. CASE env.sd
    <3>1. ~env.cold /\ qPc' = "card" /\ qSeen' = qSeen
      BY <1>3, <2>1, <2>6
    <3>2. Numbered => Numbered'
      BY <1>1, <2>1, <2>3, <3>1 DEF Numbered
    <3>3. Waits => Waits'
      BY <1>1, <2>1, <3>1 DEF Waits, Own
    <3>. QED  BY <2>4, <3>1, <3>2, <3>3 DEF QueueInv
  <2>. QED  BY <2>5, <2>6
<1>. QED  BY <1>2, <1>3

Nvs == [count : Nat, cursor : Nat]
Todos == [files : SUBSET Files, left : Int]
QueueEnv == [net : BOOLEAN, sd : BOOLEAN, cold : BOOLEAN, resets : Nat, faults : Nat,
             bad : SUBSET Nat]
QueueSeen == [taken : Nat, sent : SUBSET Nat, skipped : SUBSET Nat, failed : BOOLEAN]

LEMMA QueueFacts ==
    ASSUME QueueTypes
    PROVE  /\ qNvs \in Nvs /\ todo \in Todos /\ env \in QueueEnv /\ qSeen \in QueueSeen
           /\ cur \in Files /\ card \subseteq Files
           /\ Queue!Known \in Nat /\ qNvs.count <= Queue!Known /\ qNvs.cursor <= Queue!Known
           /\ Queue!Known = qNvs.count \/ Queue!Known = qNvs.cursor
BY DEF QueueTypes, Nvs, Todos, QueueEnv, QueueSeen, Queue!Known, Queue!Bigger

LEMMA ReconcileKept == QueueInv /\ Queue!Reconcile => QueueInv'
<1>. SUFFICES ASSUME QueueInv, Queue!Reconcile  PROVE QueueInv'
  OBVIOUS
<1>1. /\ qPc = "reconcile" /\ qPc' = "card" /\ UNCHANGED <<card, cur, env, qSeen>>
      /\ qNvs' = [qNvs EXCEPT !.cursor = todo.left] /\ todo' = [todo EXCEPT !.left = 0]
      /\ todo.left \in Nat
  BY DEF Queue!Reconcile, QueueInv, QueueTypes
<1>2. QueueTypes
  BY DEF QueueInv
<1>3. /\ qNvs' \in Nvs /\ qNvs'.cursor = todo.left /\ qNvs'.count = qNvs.count
      /\ todo' \in Todos /\ todo'.files = todo.files
  BY <1>1, <1>2, QueueFacts DEF Nvs, Todos
<1>4. Queue!Known' \in Nat /\ qNvs.count <= Queue!Known'
  BY <1>3 DEF Queue!Known, Queue!Bigger, Nvs
<1>5. QueueTypes'
  BY <1>1, <1>2, <1>3 DEF QueueTypes, QueueSteps, Nvs, Todos
<1>6. ASSUME Numbered, Waits  PROVE Numbered' /\ Waits'
  <2>1. \A f \in card : f.n \in Nat /\ f.n <= qNvs.count /\ f.n <= Queue!Known'
    BY <1>1, <1>2, <1>4, <1>6, QueueFacts DEF Numbered, Files, Nvs
  <2>2. Numbered'
    BY <1>1, <1>4, <1>6, <2>1 DEF Numbered
  <2>3. Waits'
    BY <1>1, <1>3, <1>6 DEF Waits, Own
  <2>. QED  BY <2>2, <2>3
<1>. QED  BY <1>1, <1>5, <1>6 DEF QueueInv

LEMMA CaptureKept == QueueInv /\ Queue!Capture => QueueInv'
<1>. SUFFICES ASSUME QueueInv, Queue!Capture  PROVE QueueInv'
  OBVIOUS
<1>1. QueueTypes
  BY DEF QueueInv
<1>2. qPc \in {"card", "nocard"} /\ UNCHANGED <<qNvs, card, todo, env>> /\ Queue!Known' = Queue!Known
  BY DEF Queue!Capture, Queue!Known, Queue!Bigger
<1>3. CASE UNCHANGED <<cur, qSeen>>
           /\ qPc' = (IF qPc = "card" THEN "drain" ELSE "done")
  <2>1. QueueTypes'
    BY <1>1, <1>2, <1>3 DEF QueueTypes, QueueSteps
  <2>2. Numbered /\ Waits => Numbered' /\ Waits'
    BY <1>2, <1>3 DEF Numbered, Waits, Own
  <2>. QED  BY <1>3, <2>1, <2>2 DEF QueueInv
<1>4. CASE /\ qSeen' = [qSeen EXCEPT !.taken = @ + 1]
           /\ cur' = [n |-> Queue!NextNumber, id |-> qSeen'.taken, whole |-> TRUE]
           /\ qPc' = IF qPc = "card" THEN "write" ELSE "direct"
  <2>1. /\ qSeen' \in QueueSeen /\ qSeen'.taken = qSeen.taken + 1 /\ qSeen'.failed = qSeen.failed
        /\ qSeen'.sent = qSeen.sent /\ qSeen'.skipped = qSeen.skipped
    BY <1>1, <1>4, QueueFacts DEF QueueSeen
  <2>2. Queue!NextNumber = Queue!Known + 1
    BY DEF Queue!NextNumber, Queue!Known
  <2>3. cur' \in Files /\ cur'.n = Queue!Known + 1 /\ cur'.id = qSeen'.taken
    BY <1>1, <1>4, <2>1, <2>2, QueueFacts DEF QueueSeen, Files
  <2>4. \A f \in card : f.id \in Nat /\ f.id <= qSeen.taken
    BY <1>1, QueueFacts DEF QueueTypes, Files
  <2>5. \A f \in card \cup {cur'} : f.id <= qSeen'.taken
    BY <1>1, <2>1, <2>3, <2>4, QueueFacts DEF QueueSeen
  <2>6. QueueTypes'
    BY <1>1, <1>2, <1>4, <2>1, <2>3, <2>5 DEF QueueTypes, QueueSteps, QueueSeen
  <2>7. ASSUME Numbered, Waits  PROVE Numbered' /\ Waits'
    <3>1. qPc = "card" /\ qPc' = "write"
      BY <1>2, <1>4, <2>7 DEF Waits
    <3>2. \A f \in card : f.n \in Nat /\ f.n <= Queue!Known
      BY <1>1, <2>7, <3>1, QueueFacts DEF Numbered, Files
    <3>3. Numbered'
      BY <1>1, <1>2, <2>7, <3>1, <3>2, QueueFacts DEF Numbered
    <3>4. Waits'
      BY <1>2, <2>1, <2>7, <3>1 DEF Waits, Own
    <3>. QED  BY <3>3, <3>4
  <2>. QED  BY <2>1, <2>6, <2>7 DEF QueueInv
<1>. QED  BY <1>3, <1>4 DEF Queue!Capture

(* Part of a file, or the whole of it: it has the number of the photo.      *)
LEMMA FileFacts ==
    ASSUME QueueTypes, NEW f \in {cur, [cur EXCEPT !.whole = FALSE]}
    PROVE  f \in Files /\ f.n = cur.n /\ f.id = cur.id
BY QueueFacts DEF Files

(* The bound of the numbers on the card.                                    *)
LEMMA BoundFacts ==
    ASSUME QueueTypes, NEW f \in Files
    PROVE  \E b \in Nat : \A g \in card \cup {f} : g.n <= b
<1>1. PICK b \in Nat : \A g \in card : g.n <= b
  BY DEF QueueTypes
<1>2. PICK c \in Nat : b <= c /\ f.n <= c
  BY DEF Files
<1>3. \A g \in card \cup {f} : g.n <= c
  BY <1>1, <1>2, QueueFacts DEF Files
<1>. QED  BY <1>3

LEMMA WriteKept == QueueInv /\ Queue!Write => QueueInv'
<1>. SUFFICES ASSUME QueueInv, Queue!Write  PROVE QueueInv'
  OBVIOUS
<1>1. QueueTypes /\ qPc = "write" /\ cur.n = Queue!Known + 1
  BY DEF QueueInv, QueueTypes, Queue!Write
<1>2. UNCHANGED <<qNvs, cur, todo, env>> /\ Queue!Known' = Queue!Known
  BY DEF Queue!Write, Queue!Known, Queue!Bigger
<1>3. CASE card' = card \cup {cur} /\ qPc' = "written" /\ qSeen' = qSeen
  <2>1. QueueTypes'
    <3>1. \E b \in Nat : \A f \in card' : f.n <= b
      BY <1>1, <1>3, BoundFacts, QueueFacts
    <3>2. card' \subseteq Files /\ card' \cup {cur'} = card \cup {cur}
      BY <1>1, <1>2, <1>3, QueueFacts
    <3>. QED  BY <1>1, <1>2, <1>3, <3>1, <3>2 DEF QueueTypes, QueueSteps
  <2>2. ASSUME Numbered, Waits  PROVE Numbered' /\ Waits'
    <3>1. \A f \in card : f.n \in Nat /\ f.n <= Queue!Known
      BY <1>1, <2>2, QueueFacts DEF Numbered, Files
    <3>2. Numbered'
      BY <1>1, <1>2, <1>3, <2>2, <3>1, QueueFacts DEF Numbered
    <3>3. Waits'
      BY <1>1, <1>2, <1>3, <2>2, QueueFacts DEF Waits, Own, Nvs
    <3>. QED  BY <3>2, <3>3
  <2>. QED  BY <1>3, <2>1, <2>2 DEF QueueInv
<1>4. CASE /\ card' \in {card, card \cup {[cur EXCEPT !.whole = FALSE]}}
           /\ Queue!CardFailed /\ qPc' = "direct"
  <2>1. /\ qSeen' \in QueueSeen /\ qSeen'.taken = qSeen.taken /\ qSeen'.failed
    BY <1>1, <1>4, QueueFacts DEF QueueSeen, Queue!CardFailed
  <2>2. /\ card' \subseteq Files /\ \E b \in Nat : \A f \in card' : f.n <= b
        /\ \A f \in card' \cup {cur'} : f.id <= qSeen'.taken
    <3>1. CASE card' = card
      BY <1>1, <1>2, <2>1, <3>1 DEF QueueTypes
    <3>2. CASE card' = card \cup {[cur EXCEPT !.whole = FALSE]}
      BY <1>1, <1>2, <2>1, <3>2, FileFacts, BoundFacts, QueueFacts DEF QueueTypes
    <3>. QED  BY <1>4, <3>1, <3>2
  <2>3. QueueTypes'
    BY <1>1, <1>2, <1>4, <2>1, <2>2 DEF QueueTypes, QueueSteps, QueueSeen
  <2>. QED  BY <2>1, <2>3 DEF QueueInv
<1>. QED  BY <1>3, <1>4 DEF Queue!Write

LEMMA EngageKept == QueueInv /\ Queue!Engage => QueueInv'
<1>. SUFFICES ASSUME QueueInv, Queue!Engage  PROVE QueueInv'
  OBVIOUS
<1>1. QueueTypes /\ qPc = "written" /\ cur.n = Queue!Known + 1
  BY DEF QueueInv, QueueTypes, Queue!Engage
<1>2. /\ UNCHANGED <<card, todo, env, qSeen>> /\ qPc' = "drain" /\ cur' = Queue!NoFile
      /\ qNvs' = [qNvs EXCEPT !.count = Queue!Bigger(@, cur.n)]
  BY DEF Queue!Engage
<1>3. /\ qNvs' \in Nvs /\ qNvs'.cursor = qNvs.cursor /\ qNvs'.count = Queue!Known + 1
      /\ Queue!Known' = Queue!Known + 1
  <2>1. Queue!Bigger(qNvs.count, cur.n) = Queue!Known + 1
    BY <1>1, QueueFacts DEF Nvs, Queue!Bigger
  <2>2. qNvs' \in Nvs /\ qNvs'.cursor = qNvs.cursor /\ qNvs'.count = Queue!Known + 1
    BY <1>1, <1>2, <2>1, QueueFacts DEF Nvs
  <2>. QED  BY <1>1, <2>2, QueueFacts DEF Queue!Known, Queue!Bigger, Nvs
<1>4. Queue!NoFile \in Files /\ Queue!NoFile.id = 0
  BY DEF Queue!NoFile, Files
<1>5. QueueTypes'
  BY <1>1, <1>2, <1>3, <1>4, QueueFacts DEF QueueTypes, QueueSteps, Nvs, QueueSeen
<1>6. ASSUME Numbered, Waits  PROVE Numbered' /\ Waits'
  <2>1. \A f \in card : f.n \in Nat /\ f.n <= Queue!Known + 1
    BY <1>1, <1>6, QueueFacts DEF Numbered, Files
  <2>2. Numbered'
    BY <1>1, <1>2, <1>3, <1>6, <2>1, QueueFacts DEF Numbered
  <2>3. Waits'
    BY <1>1, <1>2, <1>3, <1>6 DEF Waits, Own
  <2>. QED  BY <2>2, <2>3
<1>. QED  BY <1>2, <1>5, <1>6 DEF QueueInv

(* Without a card, the counter, then the cursor.                            *)
LEMMA DirectKept == QueueInv /\ (Queue!Direct \/ Queue!Confirm) => QueueInv'
<1>. SUFFICES ASSUME QueueInv, Queue!Direct \/ Queue!Confirm  PROVE QueueInv'
  OBVIOUS
<1>1. QueueTypes /\ qSeen.failed /\ qPc \in {"direct", "confirm"}
  BY DEF QueueInv, Waits, Queue!Direct, Queue!Confirm
<1>2. /\ UNCHANGED <<card, todo, env>> /\ qPc' \in {"done", "confirm"}
      /\ cur' \in {cur, Queue!NoFile}
      /\ \/ qNvs' = qNvs
         \/ qNvs' = [qNvs EXCEPT !.count = Queue!Bigger(@, cur.n)]
         \/ qNvs' = [qNvs EXCEPT !.cursor = Queue!Bigger(@, cur.n)]
      /\ \/ qSeen' = qSeen
         \/ qSeen' = [qSeen EXCEPT !.sent = @ \cup {cur.id}]
  BY DEF Queue!Direct, Queue!Confirm
<1>3. Queue!NoFile \in Files /\ Queue!NoFile.id = 0
  BY DEF Queue!NoFile, Files
<1>4. qNvs' \in Nvs
  BY <1>1, <1>2, QueueFacts DEF Nvs, Files, Queue!Bigger
<1>5. qSeen' \in QueueSeen /\ qSeen'.taken = qSeen.taken /\ qSeen'.failed
  BY <1>1, <1>2, QueueFacts DEF QueueSeen, Files
<1>6. cur' \in Files /\ cur'.id <= qSeen'.taken
  BY <1>1, <1>2, <1>3, <1>5, QueueFacts DEF QueueTypes, QueueSeen
<1>7. QueueTypes'
  BY <1>1, <1>2, <1>4, <1>5, <1>6 DEF QueueTypes, QueueSteps, Nvs, QueueSeen
<1>. QED  BY <1>5, <1>7 DEF QueueInv

(* A queue that was read is handed to the drain; one without files is       *)
(* passed over, and one that was not read is lost sight of.                 *)
LEMMA ScanKept == QueueInv /\ Queue!Scan => QueueInv'
<1>. SUFFICES ASSUME QueueInv, Queue!Scan  PROVE QueueInv'
  OBVIOUS
<1>1. QueueTypes /\ qPc = "drain" /\ UNCHANGED <<card, cur>>
  BY DEF QueueInv, Queue!Scan
<1>2. CASE qPc' = "done" /\ UNCHANGED <<qNvs, todo, env, qSeen>>
  <2>1. Queue!Known' = Queue!Known
    BY <1>2 DEF Queue!Known, Queue!Bigger
  <2>2. QueueTypes'
    BY <1>1, <1>2 DEF QueueTypes, QueueSteps
  <2>3. Numbered /\ Waits => Numbered' /\ Waits'
    BY <1>1, <1>2, <2>1 DEF Numbered, Waits, Own
  <2>. QED  BY <1>2, <2>2, <2>3 DEF QueueInv
<1>3. CASE /\ Queue!Pending # 0
           /\ todo' = [files |-> Queue!Queue, left |-> PerWake]
           /\ qPc' = "send" /\ UNCHANGED <<qNvs, env, qSeen>>
  <2>1. Queue!Known' = Queue!Known /\ Queue!Known = qNvs.count /\ qNvs.cursor <= qNvs.count
    BY <1>1, <1>3, QueueFacts DEF Queue!Known, Queue!Bigger, Queue!Pending, Nvs
  <2>2. Queue!Queue \subseteq card /\ todo'.files = Queue!Queue
    BY <1>3 DEF Queue!Queue
  <2>3. todo' \in Todos
    BY <1>1, <1>3, <2>2, QueueConstants, QueueFacts DEF Todos
  <2>4. QueueTypes'
    BY <1>1, <1>3, <2>2, <2>3 DEF QueueTypes, QueueSteps, Todos
  <2>5. Numbered => Numbered'
    BY <1>1, <1>3, <2>1 DEF Numbered
  <2>6. ASSUME Numbered, Waits  PROVE Waits'
    <3>1. \A f \in card : Own(f) => f \in Queue!Queue
      BY <1>1, <2>1, <2>6 DEF Numbered, Waits, Queue!Queue, Queue!InQueue
    <3>. QED  BY <1>1, <1>3, <2>2, <2>6, <3>1 DEF Waits, Own
  <2>. QED  BY <1>3, <2>4, <2>5, <2>6 DEF QueueInv
<1>4. CASE /\ Queue!Pending # 0
           /\ env' = IF Queue!Queue = {} THEN env ELSE [env EXCEPT !.faults = @ + 1]
           /\ IF Queue!Queue = {} THEN UNCHANGED qSeen ELSE Queue!CardFailed
           /\ qNvs' = [qNvs EXCEPT !.cursor = qNvs.count]
           /\ qPc' = "done" /\ UNCHANGED todo
  <2>1. /\ qNvs' \in Nvs /\ qNvs'.count = qNvs.count /\ qNvs'.cursor = qNvs.count
        /\ Queue!Known = qNvs.count /\ Queue!Known' = qNvs.count
    BY <1>1, <1>4, QueueFacts DEF Queue!Known, Queue!Bigger, Queue!Pending, Nvs
  <2>2. env' \in QueueEnv
    BY <1>1, <1>4, QueueFacts DEF QueueEnv
  <2>3. qSeen' \in QueueSeen /\ qSeen'.taken = qSeen.taken
        /\ (Queue!Queue # {} => qSeen'.failed)
    BY <1>1, <1>4, QueueFacts DEF QueueSeen, Queue!CardFailed
  <2>4. QueueTypes'
    BY <1>1, <1>4, <2>1, <2>2, <2>3 DEF QueueTypes, QueueSteps, Nvs, QueueEnv, QueueSeen
  <2>5. CASE Queue!Queue # {}
    BY <2>3, <2>4, <2>5 DEF QueueInv
  <2>6. CASE Queue!Queue = {}
    <3>1. qSeen' = qSeen /\ env' = env
      BY <1>4, <2>6
    <3>2. ASSUME Numbered, Waits  PROVE Numbered' /\ Waits'
      <4>1. \A f \in card : ~Own(f)
        BY <1>1, <2>1, <2>6, <3>2 DEF Numbered, Waits, Queue!Queue, Queue!InQueue
      <4>2. Numbered'
        BY <1>1, <1>4, <2>1, <3>1, <3>2 DEF Numbered
      <4>3. Waits'
        BY <1>1, <1>4, <3>1, <3>2, <4>1 DEF Waits, Own
      <4>. QED  BY <4>2, <4>3
    <3>. QED  BY <2>4, <3>1, <3>2 DEF QueueInv
  <2>. QED  BY <2>5, <2>6
<1>. QED  BY <1>2, <1>3, <1>4 DEF Queue!Scan

(* The head of the queue is sent, given up, or left where it is.            *)
LEMMA SendKept == QueueInv /\ Queue!Send => QueueInv'
<1>. SUFFICES ASSUME QueueInv, Queue!Send  PROVE QueueInv'
  OBVIOUS
<1>1. QueueTypes /\ qPc = "send" /\ UNCHANGED <<qNvs, card, env>> /\ Queue!Known' = Queue!Known
  BY DEF QueueInv, Queue!Send, Queue!Known, Queue!Bigger
<1>2. PICK f \in Queue!Heads :
          /\ todo' = [files |-> todo.files \ {f}, left |-> todo.left - 1]
          /\ \/ qSeen' = [qSeen EXCEPT !.sent = @ \cup {f.id}] /\ cur' = f /\ qPc' = "acked"
             \/ /\ Queue!Refused(f)
                /\ qSeen' = [qSeen EXCEPT !.skipped = @ \cup IF Queue!Refused(f) THEN {f.id} ELSE {}]
                /\ cur' = f /\ qPc' = "acked"
             \/ qPc' = "done" /\ UNCHANGED <<cur, qSeen>>
  BY DEF Queue!Send, Queue!GivesUp, Queue!Skip
<1>3. f \in todo.files /\ f \in Files /\ \A g \in todo.files : g \in Files /\ f.n <= g.n
  BY <1>1, <1>2, QueueFacts DEF Queue!Heads, Todos
<1>4. todo' \in Todos /\ todo'.files = todo.files \ {f}
  BY <1>1, <1>2, QueueFacts DEF Todos
<1>5. CASE cur' = f /\ qPc' = "acked"
           /\ \/ qSeen' = [qSeen EXCEPT !.sent = @ \cup {f.id}]
              \/ qSeen' = [qSeen EXCEPT !.skipped = @ \cup {f.id}]
  <2>1. /\ qSeen' \in QueueSeen /\ qSeen'.taken = qSeen.taken /\ qSeen'.failed = qSeen.failed
        /\ qSeen'.sent \cup qSeen'.skipped = qSeen.sent \cup qSeen.skipped \cup {f.id}
    BY <1>1, <1>3, <1>5, QueueFacts DEF QueueSeen, Files
  <2>2. ASSUME Numbered, Waits  PROVE QueueTypes' /\ Numbered' /\ Waits'
    <3>1. f \in card /\ todo'.files \subseteq card
      BY <1>1, <1>3, <1>4 DEF QueueTypes
    <3>2. QueueTypes'
      BY <1>1, <1>3, <1>4, <1>5, <2>1, <3>1 DEF QueueTypes, QueueSteps, Todos, QueueSeen
    <3>3. Numbered'
      BY <1>1, <1>5, <2>1, <2>2 DEF Numbered
    <3>4. ASSUME NEW g \in card, Own(g)'  PROVE g \in todo'.files /\ g.n > f.n /\ g.n > qNvs.cursor
      <4>1. Own(g) /\ g # f
        BY <2>1, <3>4 DEF Own
      <4>2. g \in todo.files /\ g.n > qNvs.cursor /\ g.n # f.n
        BY <1>1, <2>2, <3>1, <4>1 DEF Waits, Numbered
      <4>. QED  BY <1>3, <1>4, <4>1, <4>2 DEF Files
    <3>5. Waits'
      BY <1>1, <1>5, <3>1, <3>4 DEF Waits
    <3>. QED  BY <3>2, <3>3, <3>5
  <2>3. ASSUME qSeen.failed  PROVE QueueTypes'
    <3>1. f \in card /\ todo'.files \subseteq card
      BY <1>1, <1>3, <1>4 DEF QueueTypes
    <3>. QED
      BY <1>1, <1>3, <1>4, <1>5, <2>1, <3>1 DEF QueueTypes, QueueSteps, Todos, QueueSeen
  <2>. QED  BY <2>1, <2>2, <2>3 DEF QueueInv
<1>6. CASE qPc' = "done" /\ UNCHANGED <<cur, qSeen>>
  <2>1. QueueTypes'
    BY <1>1, <1>4, <1>6 DEF QueueTypes, QueueSteps, Todos
  <2>2. Numbered /\ Waits => Numbered' /\ Waits'
    BY <1>1, <1>4, <1>6 DEF Numbered, Waits, Own
  <2>. QED  BY <1>6, <2>1, <2>2 DEF QueueInv
<1>. QED  BY <1>2, <1>5, <1>6

LEMMA CommitKept == QueueInv /\ Queue!Commit => QueueInv'
<1>. SUFFICES ASSUME QueueInv, Queue!Commit  PROVE QueueInv'
  OBVIOUS
<1>1. /\ QueueTypes /\ qPc = "acked" /\ UNCHANGED <<card, todo, env, qSeen>>
      /\ qNvs' = [qNvs EXCEPT !.cursor = cur.n] /\ cur' = Queue!NoFile
      /\ qPc' \in {"done", "send"}
  BY DEF QueueInv, Queue!Commit
<1>2. /\ qNvs' \in Nvs /\ qNvs'.cursor = cur.n /\ qNvs'.count = qNvs.count
  BY <1>1, QueueFacts DEF Nvs, Files
<1>3. Queue!NoFile \in Files /\ Queue!NoFile.id = 0
  BY DEF Queue!NoFile, Files
<1>4. QueueTypes'
  BY <1>1, <1>2, <1>3, QueueFacts DEF QueueTypes, QueueSteps, Nvs, QueueSeen
<1>5. ASSUME Numbered, Waits  PROVE Numbered' /\ Waits'
  <2>1. cur \in card /\ qNvs.cursor <= qNvs.count /\ Queue!Known = qNvs.count
    BY <1>1, <1>5, QueueFacts DEF Numbered, Waits, Nvs
  <2>2. cur.n <= qNvs.count /\ Queue!Known' = qNvs.count
    BY <1>1, <1>2, <1>5, <2>1, QueueFacts DEF Numbered, Queue!Known, Queue!Bigger, Files, Nvs
  <2>3. Numbered'
    BY <1>1, <1>2, <1>5, <2>1, <2>2 DEF Numbered
  <2>4. Waits'
    BY <1>1, <1>2, <1>5 DEF Waits, Own
  <2>. QED  BY <2>3, <2>4
<1>. QED  BY <1>1, <1>4, <1>5 DEF QueueInv

LEMMA SleepKept == QueueInv /\ Queue!DeepSleep => QueueInv'
<1>. SUFFICES ASSUME QueueInv, Queue!DeepSleep  PROVE QueueInv'
  OBVIOUS
<1>1. /\ QueueTypes /\ qPc = "done" /\ qPc' = "off" /\ UNCHANGED <<qNvs, card, cur, qSeen>>
      /\ env' = [env EXCEPT !.cold = FALSE] /\ todo' = [files |-> {}, left |-> 0]
  BY DEF QueueInv, Queue!DeepSleep
<1>2. env' \in QueueEnv /\ ~env'.cold /\ Queue!Known' = Queue!Known
  BY <1>1, QueueFacts DEF QueueEnv, Queue!Known, Queue!Bigger
<1>3. QueueTypes'
  BY <1>1, <1>2 DEF QueueTypes, QueueSteps, QueueEnv
<1>4. Numbered /\ Waits => Numbered' /\ Waits'
  BY <1>1, <1>2 DEF Numbered, Waits, Own
<1>. QED  BY <1>1, <1>3, <1>4 DEF QueueInv

(* A reset leaves at most one file beyond the counters, and the next wake   *)
(* takes the card's numbers over.                                           *)
LEMMA CutKept == QueueInv /\ Queue!Reset => QueueInv'
<1>. SUFFICES ASSUME QueueInv, Queue!Reset  PROVE QueueInv'
  OBVIOUS
<1>. DEFINE part0 == [cur EXCEPT !.whole = FALSE]
<1>1. /\ QueueTypes /\ qPc # "off" /\ qPc' = "off" /\ cur' = Queue!NoFile
      /\ todo' = [files |-> {}, left |-> 0] /\ UNCHANGED <<qNvs, qSeen>>
      /\ env' = [env EXCEPT !.resets = @ + 1, !.cold = TRUE]
      /\ card' = card \/ (qPc = "write" /\ card' = card \cup {part0})
  BY DEF QueueInv, Queue!Reset
<1>2. env' \in QueueEnv /\ env'.cold /\ Queue!Known' = Queue!Known
  <2>1. Queue!Known' = Queue!Known
    BY <1>1 DEF Queue!Known, Queue!Bigger
  <2>2. env \in QueueEnv /\ env.resets + 1 \in Nat
    BY <1>1, QueueFacts DEF QueueEnv
  <2>. QED  BY <1>1, <2>1, <2>2 DEF QueueEnv
<1>3. Queue!NoFile \in Files /\ Queue!NoFile.id = 0
  BY DEF Queue!NoFile, Files
<1>4. part0 \in Files /\ part0.n = cur.n /\ part0.id = cur.id /\ ~part0.whole
  BY <1>1, QueueFacts DEF Files
<1>. HIDE DEF part0
<1>5. QueueTypes'
  <2>1. card' \subseteq Files /\ \E b \in Nat : \A f \in card' : f.n <= b
    BY <1>1, <1>4, BoundFacts, QueueFacts DEF QueueTypes
  <2>2. \A f \in card' \cup {cur'} : f.id <= qSeen'.taken
    BY <1>1, <1>3, <1>4, QueueFacts DEF QueueTypes, QueueSeen
  <2>. QED  BY <1>1, <1>2, <1>3, <2>1, <2>2 DEF QueueTypes, QueueSteps, QueueEnv
<1>6. ASSUME Numbered, Waits  PROVE Numbered' /\ Waits'
  <2>1. CASE card' = card
    <3>1. qSeen.taken = 0 \/ \A f \in card : f.n <= Queue!Known + 1
      BY <1>6 DEF Numbered
    <3>2. Numbered'
      BY <1>1, <1>2, <1>6, <2>1, <3>1 DEF Numbered
    <3>3. Waits'
      BY <1>1, <1>6, <2>1 DEF Waits, Own
    <3>. QED  BY <3>2, <3>3
  <2>2. CASE qPc = "write" /\ card' = card \cup {part0}
    <3>1. cur.n = Queue!Known + 1 /\ \A f \in card : f.n \in Nat /\ f.n <= Queue!Known
      BY <1>1, <1>6, <2>2, QueueFacts DEF QueueTypes, Numbered, Files
    <3>2. Numbered'
      BY <1>1, <1>2, <1>4, <1>6, <2>2, <3>1, QueueFacts DEF Numbered
    <3>3. Waits'
      BY <1>1, <1>4, <1>6, <2>2 DEF Waits, Own
    <3>. QED  BY <3>2, <3>3
  <2>. QED  BY <1>1, <2>1, <2>2
<1>. QED  BY <1>1, <1>5, <1>6 DEF QueueInv

LEMMA QueueStep == QueueInv /\ [Queue!Next]_queueVars => QueueInv'
<1>. SUFFICES ASSUME QueueInv, [Queue!Next]_queueVars  PROVE QueueInv'
  OBVIOUS
<1>1. CASE UNCHANGED queueVars
  <2>1. Queue!Known' = Queue!Known
    BY <1>1 DEF queueVars, Queue!Known, Queue!Bigger
  <2>2. QueueTypes => QueueTypes'
    BY <1>1, <2>1 DEF queueVars, QueueTypes
  <2>3. Numbered => Numbered'
    BY <1>1, <2>1 DEF queueVars, Numbered
  <2>4. Waits => Waits'
    BY <1>1 DEF queueVars, Waits, Own
  <2>. QED  BY <1>1, <2>2, <2>3, <2>4 DEF queueVars, QueueInv
<1>. QED
  BY <1>1, MountKept, ReconcileKept, CaptureKept, WriteKept, EngageKept, DirectKept, ScanKept,
     SendKept, CommitKept, SleepKept, CutKept, WorldKept DEF Queue!Next, Queue!Setup

LEMMA PhotosFacts == QueueInv => Queue!BornPending /\ Queue!KeptWhileMounted
<1>. SUFFICES ASSUME QueueInv  PROVE Queue!BornPending /\ Queue!KeptWhileMounted
  OBVIOUS
<1>1. Queue!BornPending
  BY QueueFacts DEF QueueInv, QueueTypes, Nvs, Queue!BornPending
<1>2. Queue!KeptWhileMounted
  BY DEF QueueInv, Waits, Own, Queue!KeptWhileMounted, Queue!BacklogKept, Queue!Undelivered,
         Queue!InQueue
<1>. QED  BY <1>1, <1>2

-----------------------------------------------------------------------------
(* The solar tracker: its calibrations and one turn of its panel.           *)

TRtc == [edge : BOOLEAN, last : 0..2, pending : BOOLEAN, angle : -1..Top]
TRam == [step : {"asleep", "config", "calib", "light", "track", "sleep"}, cmd : 0..2,
         mode : Panel!Modes, awake : BOOLEAN, angle : 0..Top]
TSeen == [asked : BOOLEAN, credit : 0..2, from : 0..Top, clear : BOOLEAN, tracked : BOOLEAN]
TWorld == [sun : Suns, light : BOOLEAN, mount : {1, -1}, resets : Nat]
TServer == [cmd : 0..2, mode : Panel!Modes, awake : BOOLEAN]
TAxis == [dir : {-1, 0, 1}, mag : Int, count : Nat, steps : Nat]

PanelTypes ==
    /\ tRtc \in TRtc /\ tRam \in TRam /\ tSeen \in TSeen /\ tWorld \in TWorld
    /\ tServer \in TServer /\ axis \in TAxis
    /\ axis.count < Limit /\ axis.steps <= MaxSteps

(* The commands allow the calibration under way and the one that the        *)
(* server's command, not seen yet, will ask for.                            *)
Coming(r) == r.edge /\ r.last # 1 /\ tServer.cmd = 1
Needed(r) == (IF r.pending THEN 1 ELSE 0) + (IF Coming(r) THEN 1 ELSE 0)
Read == IF tRam.step = "calib" THEN Panel!Commanded(tRtc, tRam.cmd) ELSE tRtc
CreditInv == tSeen.credit >= Needed(Read)

Gap == tWorld.sun - tRam.angle

(* The way of that many steps.                                              *)
Far(k) == k * StepDeg

(* Mounted well, the panel nears the sun by a step, until it has passed it. *)
Ahead == (axis.dir = 1 /\ Gap > 0) \/ (axis.dir = -1 /\ Gap < 0)
Nears ==
    /\ axis.dir # 0
    /\ ~Ahead => Panel!Abs(Gap) < StepDeg
    /\ Ahead => /\ Panel!Abs(Gap) < axis.mag /\ axis.count = 0
                /\ axis.dir = 1 => tRam.angle = tSeen.from + Far(axis.steps)
                /\ axis.dir = -1 => tRam.angle = tSeen.from - Far(axis.steps)

(* Mounted the wrong way round it flees, and every step counts.             *)
Flees ==
    /\ (axis.dir = 1 /\ Gap < 0) \/ (axis.dir = -1 /\ Gap > 0)
    /\ 0 <= axis.mag /\ axis.mag < Panel!Abs(Gap) /\ axis.steps = axis.count + 1
    /\ Panel!Abs(tRam.angle - tSeen.from) <= Far(axis.steps)

TrackInv ==
    tRam.step = "track" /\ tSeen.clear =>
       \/ axis = Panel!Axis0 /\ tRam.angle = tSeen.from
       \/ tWorld.mount = 1 /\ Nears
       \/ tWorld.mount = -1 /\ Flees

PanelInv == PanelTypes /\ CreditInv /\ TrackInv /\ Panel!PanelStops

LEMMA PanelConstants ==
    /\ Top \in Nat \ {0} /\ StepDeg \in Nat \ {0} /\ Limit \in Nat \ {0} /\ MaxSteps \in Nat \ {0}
    /\ Suns \subseteq 0..Top
BY TrackerAssumption

LEMMA PanelFields ==
    ASSUME PanelTypes
    PROVE  /\ tRtc.edge \in BOOLEAN /\ tRtc.last \in 0..2 /\ tRtc.pending \in BOOLEAN
           /\ tRam.cmd \in 0..2 /\ tRam.angle \in 0..Top /\ tServer.cmd \in 0..2
           /\ tRam.step \in {"asleep", "config", "calib", "light", "track", "sleep"}
           /\ tSeen.credit \in 0..2 /\ tSeen.from \in 0..Top
           /\ tWorld.sun \in 0..Top /\ tWorld.mount \in {1, -1}
BY PanelConstants DEF PanelTypes, TRtc, TRam, TSeen, TWorld, TServer

LEMMA PanelInit == Panel!Init => PanelInv
<1>. SUFFICES ASSUME Panel!Init  PROVE PanelInv
  OBVIOUS
<1>1. /\ tRtc = Panel!Rtc0 /\ tRam = Panel!Ram0 /\ axis = Panel!Axis0 /\ tSeen = Panel!Seen0
      /\ tServer \in [cmd : {0}, mode : Panel!Modes, awake : BOOLEAN]
      /\ tWorld \in [sun : Suns, light : {TRUE}, mount : {1, -1}, resets : {0}]
  BY DEF Panel!Init
<1>2. tServer \in TServer /\ tWorld \in TWorld
  <2>1. tServer.cmd \in 0..2 /\ tServer.mode \in Panel!Modes /\ tServer.awake \in BOOLEAN
    BY <1>1
  <2>2. tServer = [cmd |-> tServer.cmd, mode |-> tServer.mode, awake |-> tServer.awake]
    BY <1>1
  <2>3. /\ tWorld.sun \in Suns /\ tWorld.light \in BOOLEAN /\ tWorld.mount \in {1, -1}
        /\ tWorld.resets \in Nat
    <3>1. {TRUE} \subseteq BOOLEAN /\ {0} \subseteq Nat
      OBVIOUS
    <3>. QED  BY <1>1, <3>1
  <2>4. tWorld = [sun |-> tWorld.sun, light |-> tWorld.light, mount |-> tWorld.mount,
                  resets |-> tWorld.resets]
    BY <1>1
  <2>. HIDE <1>1
  <2>5. tServer \in TServer
    BY <2>1, <2>2 DEF TServer
  <2>6. tWorld \in TWorld
    BY <2>3, <2>4 DEF TWorld
  <2>. QED  BY <2>5, <2>6
<1>3. Panel!Rtc0 \in TRtc /\ Panel!Ram0 \in TRam /\ Panel!Seen0 \in TSeen /\ Panel!Axis0 \in TAxis
  BY PanelConstants
  DEF Panel!Rtc0, Panel!Ram0, Panel!Seen0, Panel!Axis0, TRtc, TRam, TSeen, TAxis, Panel!Modes
<1>4. PanelTypes
  BY <1>1, <1>2, <1>3, PanelConstants DEF PanelTypes, Panel!Axis0
<1>5. CreditInv
  BY <1>1 DEF CreditInv, Read, Needed, Coming, Panel!Ram0, Panel!Rtc0, Panel!Seen0
<1>. QED  BY <1>1, <1>4, <1>5 DEF PanelInv, TrackInv, Panel!PanelStops, Panel!Ram0

(* The start of a wake, with the commands the board remembers or with none. *)
LEMMA SetupPanel ==
    ASSUME PanelTypes, NEW r \in TRtc, Panel!Setup(r), axis' \in {axis, Panel!Axis0},
           tSeen' \in TSeen, tServer' = tServer, tWorld' \in TWorld, tSeen'.credit >= Needed(r)
    PROVE  PanelInv'
<1>1. PICK m \in Panel!Fetched :
        tRam' = [m EXCEPT !.step = "config",
                          !.angle = IF r.angle \in 0..Top THEN r.angle ELSE Top \div 2]
  BY DEF Panel!Setup
<1>2. tRtc' = r
  BY DEF Panel!Setup
<1>3. m \in TRam
  BY <1>1 DEF Panel!Fetched, PanelTypes, TRam, TServer
<1>4. Top \div 2 \in 0..Top
  BY PanelConstants
<1>5. tRam' \in TRam /\ tRam'.step = "config"
  BY <1>1, <1>3, <1>4 DEF TRam
<1>6. Panel!Axis0 \in TAxis /\ Panel!Axis0.count = 0 /\ Panel!Axis0.steps = 0
  BY DEF Panel!Axis0, TAxis
<1>7. PanelTypes'
  BY <1>2, <1>5, <1>6, PanelConstants DEF PanelTypes
<1>8. CreditInv'
  BY <1>2, <1>5 DEF CreditInv, Read, Needed, Coming
<1>. QED  BY <1>5, <1>7, <1>8 DEF PanelInv, TrackInv, Panel!PanelStops

LEMMA WakePanel == PanelInv /\ (Panel!Wake \/ Panel!Reset) => PanelInv'
<1>. SUFFICES ASSUME PanelInv, Panel!Wake \/ Panel!Reset  PROVE PanelInv'
  OBVIOUS
<1>1. PanelTypes
  BY DEF PanelInv
<1>2. CASE Panel!Wake
  <2>1. tRam.step = "asleep" /\ Panel!Setup(tRtc) /\ UNCHANGED <<axis, tServer, tWorld, tSeen>>
    BY <1>2 DEF Panel!Wake
  <2>2. tSeen.credit >= Needed(tRtc)
    BY <2>1 DEF PanelInv, CreditInv, Read
  <2>. QED  BY <1>1, <2>1, <2>2, SetupPanel DEF PanelTypes
<1>3. CASE Panel!Reset
  <2>1. /\ Panel!Setup(Panel!Rtc0) /\ axis' = Panel!Axis0 /\ tSeen' = Panel!Seen0
        /\ tServer' = tServer /\ tWorld' = [tWorld EXCEPT !.resets = @ + 1]
    BY <1>3 DEF Panel!Reset
  <2>2. Panel!Rtc0 \in TRtc /\ Panel!Seen0 \in TSeen /\ tWorld' \in TWorld
    BY <1>1, <2>1, PanelConstants DEF PanelTypes, TRtc, TSeen, TWorld, Panel!Rtc0, Panel!Seen0
  <2>3. Panel!Seen0.credit >= Needed(Panel!Rtc0)
    BY DEF Needed, Coming, Panel!Rtc0, Panel!Seen0
  <2>. QED  BY <1>1, <2>1, <2>2, <2>3, SetupPanel
<1>. QED  BY <1>2, <1>3

(* What a command read by the board asks for.                               *)
LEMMA CommandedFacts ==
    ASSUME NEW r \in TRtc, NEW c \in 0..2
    PROVE  /\ Panel!Commanded(r, c) \in TRtc /\ Panel!Commanded(r, c).last \in 0..2
           /\ Panel!Commanded(r, c).angle = r.angle
           /\ Panel!Commanded(r, c).edge
           /\ ~r.edge => /\ Panel!Commanded(r, c).last = c
                         /\ Panel!Commanded(r, c).pending = r.pending
           /\ r.edge /\ c = r.last => /\ Panel!Commanded(r, c).last = r.last
                                      /\ Panel!Commanded(r, c).pending = r.pending
           /\ r.edge /\ c # r.last =>
                /\ Panel!Commanded(r, c).last = c
                /\ Panel!Commanded(r, c).pending => r.pending \/ c = 1
                /\ c = 1 => Panel!Commanded(r, c).pending
<1>1. r.edge \in BOOLEAN /\ r.last \in 0..2 /\ r.pending \in BOOLEAN
  BY DEF TRtc
<1>2. CASE ~r.edge
  <2>1. Panel!Commanded(r, c) = [r EXCEPT !.edge = TRUE, !.last = c]
    BY <1>2 DEF Panel!Commanded
  <2>2. Panel!Commanded(r, c) \in TRtc /\ Panel!Commanded(r, c).last = c
    BY <2>1 DEF TRtc
  <2>3. /\ Panel!Commanded(r, c).angle = r.angle /\ Panel!Commanded(r, c).edge
        /\ Panel!Commanded(r, c).pending = r.pending
    BY <2>1 DEF TRtc
  <2>4. Panel!Commanded(r, c).last \in 0..2
    BY <2>2
  <2>6. /\ r.edge /\ c = r.last => /\ Panel!Commanded(r, c).last = r.last
                                   /\ Panel!Commanded(r, c).pending = r.pending
        /\ r.edge /\ c # r.last => /\ Panel!Commanded(r, c).last = c
                                   /\ Panel!Commanded(r, c).pending => r.pending \/ c = 1
                                   /\ c = 1 => Panel!Commanded(r, c).pending
    BY <1>2
  <2>. QED  BY <2>2, <2>3, <2>4, <2>6
<1>3. CASE r.edge /\ c = r.last
  <2>1. Panel!Commanded(r, c) = r
    BY <1>3 DEF Panel!Commanded
  <2>. QED  BY <1>1, <1>3, <2>1
<1>4. CASE r.edge /\ c # r.last
  <2>. DEFINE p == IF c = 0 THEN r.pending ELSE c = 1
  <2>1. Panel!Commanded(r, c) = [r EXCEPT !.last = c, !.pending = p]
    BY <1>4 DEF Panel!Commanded
  <2>2. p \in BOOLEAN /\ (p => r.pending \/ c = 1) /\ (c = 1 => p)
    <3>1. CASE c = 0
      BY <1>1, <3>1
    <3>2. CASE c # 0
      BY <3>2
    <3>. QED  BY <3>1, <3>2
  <2>. HIDE DEF p
  <2>3. Panel!Commanded(r, c) \in TRtc
    BY <2>1, <2>2 DEF TRtc
  <2>4. /\ Panel!Commanded(r, c).last = c /\ Panel!Commanded(r, c).pending = p
        /\ Panel!Commanded(r, c).angle = r.angle /\ Panel!Commanded(r, c).edge = r.edge
    BY <2>1 DEF TRtc
  <2>. QED  BY <1>4, <2>2, <2>3, <2>4
<1>. QED  BY <1>2, <1>3, <1>4

(* A board that reads another command than the server's gets a credit.      *)
LEMMA ReadFacts ==
    ASSUME PanelTypes, NEW c \in 0..2
    PROVE  /\ c = tServer.cmd => Needed(Panel!Commanded(tRtc, c)) <= Needed(tRtc)
           /\ Needed(Panel!Commanded(tRtc, c)) <= Needed(tRtc) + 1
           /\ Needed(Panel!Commanded(tRtc, c)) \in 0..2 /\ Needed(tRtc) \in 0..2
<1>1. tRtc \in TRtc
  BY DEF PanelTypes
<1>. DEFINE r == Panel!Commanded(tRtc, c)
<1>2. /\ r.edge /\ r.last \in 0..2 /\ r.pending \in BOOLEAN
      /\ tRtc.edge \in BOOLEAN /\ tRtc.last \in 0..2 /\ tRtc.pending \in BOOLEAN
  BY <1>1, CommandedFacts DEF TRtc
<1>3. /\ tRtc.edge /\ c = tRtc.last => r.last = tRtc.last /\ r.pending = tRtc.pending
      /\ ~(tRtc.edge /\ c = tRtc.last) => r.last = c
      /\ ~tRtc.edge => r.pending = tRtc.pending
      /\ r.pending => tRtc.pending \/ (tRtc.edge /\ c # tRtc.last /\ c = 1)
  BY <1>1, <1>2, CommandedFacts
<1>. HIDE DEF r
<1>4. /\ c = tServer.cmd => Needed(r) <= Needed(tRtc)
      /\ Needed(r) <= Needed(tRtc) + 1
      /\ Needed(r) \in 0..2 /\ Needed(tRtc) \in 0..2
  BY <1>2, <1>3 DEF Needed, Coming
<1>. QED  BY <1>4 DEF r

LEMMA CreditedFacts ==
    ASSUME PanelTypes
    PROVE  /\ Panel!Credited \in 0..2 /\ tSeen.credit <= Panel!Credited
           /\ \A n \in 0..2 : n <= tSeen.credit + 1 => n <= Panel!Credited
BY PanelFields DEF Panel!Credited

LEMMA ConfigPanel == PanelInv /\ Panel!ApplyRemoteConfig => PanelInv'
<1>. SUFFICES ASSUME PanelInv, Panel!ApplyRemoteConfig  PROVE PanelInv'
  OBVIOUS
<1>1. PanelTypes /\ tRam.step = "config" /\ UNCHANGED <<tRtc, axis, tServer, tWorld>>
  BY DEF PanelInv, Panel!ApplyRemoteConfig
<1>2. PICK m \in Panel!Fetched :
        /\ tRam' = [m EXCEPT !.step = "calib"]
        /\ tSeen' = [tSeen EXCEPT !.credit = IF m.cmd = tServer.cmd THEN @ ELSE Panel!Credited]
  BY DEF Panel!ApplyRemoteConfig
<1>3. m \in TRam
  BY <1>1, <1>2 DEF Panel!Fetched, PanelTypes, TRam, TServer
<1>4. tRam' \in TRam /\ tRam'.step = "calib" /\ tRam'.cmd = m.cmd /\ m.cmd \in 0..2
  BY <1>2, <1>3 DEF TRam
<1>5. /\ tSeen' \in TSeen
      /\ tSeen'.credit = IF m.cmd = tServer.cmd THEN tSeen.credit ELSE Panel!Credited
  BY <1>1, <1>2, CreditedFacts DEF PanelTypes, TSeen
<1>6. PanelTypes'
  BY <1>1, <1>4, <1>5 DEF PanelTypes
<1>7. tSeen.credit >= Needed(tRtc)
  BY <1>1 DEF PanelInv, CreditInv, Read
<1>8. tSeen'.credit >= Needed(Panel!Commanded(tRtc, m.cmd))
  BY <1>1, <1>4, <1>5, <1>7, ReadFacts, CreditedFacts, PanelFields
<1>9. Panel!Commanded(tRtc, m.cmd)' = Panel!Commanded(tRtc, m.cmd)
  BY <1>1 DEF Panel!Commanded
<1>10. CreditInv'
  BY <1>1, <1>4, <1>8 DEF CreditInv, Read, Needed, Coming
<1>. QED  BY <1>4, <1>6, <1>10 DEF PanelInv, TrackInv, Panel!PanelStops

LEMMA CalibratePanel == PanelInv /\ Panel!Calibrate => PanelInv'
<1>. SUFFICES ASSUME PanelInv, Panel!Calibrate  PROVE PanelInv'
  OBVIOUS
<1>. DEFINE r == Panel!Commanded(tRtc, tRam.cmd)
<1>1. PanelTypes /\ tRam.step = "calib" /\ UNCHANGED <<axis, tServer, tWorld>>
  BY DEF PanelInv, Panel!Calibrate
<1>2. tSeen.credit >= Needed(r) /\ tSeen.credit \in 0..2
  BY <1>1, PanelFields DEF PanelInv, CreditInv, Read
<1>3. r \in TRtc
  BY <1>1, CommandedFacts, PanelFields DEF PanelTypes
<1>4. CASE r.pending /\ tWorld.light
  <2>1. PICK a \in Panel!Swept :
           /\ tRtc' = [r EXCEPT !.pending = FALSE, !.angle = a]
           /\ tRam' = [tRam EXCEPT !.step = "light", !.angle = a]
           /\ tSeen' = [tSeen EXCEPT !.asked = FALSE, !.credit = IF @ >= 0 THEN @ - 1 ELSE @]
    BY <1>4 DEF Panel!Calibrate
  <2>. HIDE DEF r
  <2>2. a \in 0..Top
    BY <1>1, <2>1, PanelFields DEF Panel!Swept
  <2>3. tRtc' \in TRtc /\ tRtc'.edge = r.edge /\ tRtc'.last = r.last /\ tRtc'.pending = FALSE
    <3>1. tRtc' = [r EXCEPT !.pending = FALSE, !.angle = a]
      BY <2>1
    <3>2. a \in -1..Top
      BY <2>2, PanelConstants
    <3>. QED  BY <1>3, <3>1, <3>2 DEF TRtc
  <2>4. tRam' \in TRam /\ tRam'.step = "light"
    <3>1. tRam' = [tRam EXCEPT !.step = "light", !.angle = a] /\ tRam \in TRam
      BY <1>1, <2>1 DEF PanelTypes
    <3>. QED  BY <2>2, <3>1 DEF TRam
  <2>5. Needed(r) >= 1 /\ Needed(tRtc') = Needed(r) - 1
    <3>1. Coming(tRtc') <=> Coming(r)
      BY <2>3 DEF Coming
    <3>2. Needed(r) = 1 + (IF Coming(r) THEN 1 ELSE 0)
      BY <1>4 DEF Needed
    <3>3. Needed(tRtc') = IF Coming(r) THEN 1 ELSE 0
      BY <2>3, <3>1 DEF Needed
    <3>. QED  BY <3>2, <3>3
  <2>6. tSeen.credit >= 1
    BY <1>2, <2>5 DEF Needed
  <2>7. tSeen' \in TSeen /\ tSeen'.credit = tSeen.credit - 1
    <3>1. tSeen \in TSeen /\ tSeen.credit - 1 \in 0..2
      BY <1>1, <1>2, <2>6 DEF PanelTypes
    <3>. DEFINE n == IF tSeen.credit >= 0 THEN tSeen.credit - 1 ELSE tSeen.credit
    <3>2. tSeen' = [tSeen EXCEPT !.asked = FALSE, !.credit = n]
      BY <2>1
    <3>3. n = tSeen.credit - 1
      BY <1>2, <2>6
    <3>. HIDE DEF n
    <3>. QED  BY <3>1, <3>2, <3>3 DEF TSeen
  <2>8. PanelTypes'
    BY <1>1, <2>3, <2>4, <2>7 DEF PanelTypes
  <2>9. CreditInv'
    BY <1>1, <1>2, <2>4, <2>5, <2>7 DEF CreditInv, Read, Needed, Coming
  <2>. QED  BY <2>4, <2>8, <2>9 DEF PanelInv, TrackInv, Panel!PanelStops
<1>5. CASE ~(r.pending /\ tWorld.light)
  <2>. DEFINE asked == r.pending /\ (~tRtc.pending \/ tSeen.asked)
              s == asked \/ (tSeen.asked /\ tRam.cmd # 2)
              n == IF r.pending \/ r.last # tServer.cmd THEN tSeen.credit ELSE 0
  <2>1. /\ tRtc' = r /\ tRam' = [tRam EXCEPT !.step = "light"]
        /\ tSeen' = [tSeen EXCEPT !.asked = s, !.credit = n]
    BY <1>5 DEF Panel!Calibrate
  <2>2. s \in BOOLEAN
    OBVIOUS
  <2>3. n \in 0..2 /\ n >= Needed(r)
    <3>. HIDE DEF r
    <3>. QED  BY <1>2 DEF Needed, Coming
  <2>. HIDE DEF r, s, n
  <2>4. tSeen' \in TSeen /\ tSeen'.credit = n
    BY <1>1, <2>1, <2>2, <2>3 DEF PanelTypes, TSeen
  <2>5. tRam' \in TRam /\ tRam'.step = "light"
    BY <1>1, <2>1 DEF PanelTypes, TRam
  <2>6. PanelTypes'
    BY <1>1, <1>3, <2>1, <2>4, <2>5 DEF PanelTypes
  <2>7. CreditInv'
    BY <1>1, <2>1, <2>3, <2>4, <2>5 DEF CreditInv, Read, Needed, Coming
  <2>. QED  BY <2>5, <2>6, <2>7 DEF PanelInv, TrackInv, Panel!PanelStops
<1>. QED  BY <1>4, <1>5

LEMMA LightPanel == PanelInv /\ Panel!Light => PanelInv'
<1>. SUFFICES ASSUME PanelInv, Panel!Light  PROVE PanelInv'
  OBVIOUS
<1>. DEFINE t == tRam.mode = "track" /\ tWorld.light
<1>1. /\ PanelTypes /\ tRam.step = "light" /\ UNCHANGED <<tServer, tWorld>>
      /\ axis' = Panel!Axis0
      /\ tSeen' = [tSeen EXCEPT !.from = tRam.angle, !.clear = TRUE, !.tracked = t]
  BY DEF PanelInv, Panel!Light
<1>2. t \in BOOLEAN
  OBVIOUS
<1>3. /\ tSeen' \in TSeen /\ tSeen'.credit = tSeen.credit /\ tSeen'.from = tRam.angle
      /\ (tSeen'.tracked => t)
  <2>. HIDE DEF t
  <2>. QED  BY <1>1, <1>2, PanelFields DEF PanelTypes, TSeen
<1>4. \/ ~t /\ \E a \in 0..Top : /\ tRam' = [tRam EXCEPT !.angle = a, !.step = "sleep"]
                                /\ tRtc' = [tRtc EXCEPT !.angle = a]
      \/ ~t /\ tRam' = [tRam EXCEPT !.step = "sleep"] /\ tRtc' = tRtc
      \/ tRam' = [tRam EXCEPT !.step = "track"] /\ tRtc' = tRtc
  <2>1. CASE tRam.mode = "manual"
    <3>1. \A a \in {0, Top + 1} : Panel!clampAngle(a) \in 0..Top
      BY PanelConstants DEF Panel!clampAngle
    <3>. QED  BY <2>1, <3>1 DEF Panel!Light
  <2>2. CASE tRam.mode # "manual" /\ tWorld.light /\ tRam.mode = "sweep"
    <3>1. \A a \in Panel!Swept : a \in 0..Top
      BY <1>1, PanelFields DEF Panel!Swept
    <3>. QED  BY <2>2, <3>1 DEF Panel!Light
  <2>3. CASE tRam.mode # "manual" /\ ~(tWorld.light /\ tRam.mode = "sweep")
    BY <2>3 DEF Panel!Light
  <2>. QED  BY <2>1, <2>2, <2>3
<1>. HIDE DEF t
<1>5. Panel!Axis0 \in TAxis /\ Panel!Axis0.count = 0 /\ Panel!Axis0.steps = 0
  BY DEF Panel!Axis0, TAxis
<1>6. /\ tRam' \in TRam /\ tRam'.step \in {"sleep", "track"} /\ (tRam'.step = "sleep" => ~t)
      /\ (tRam'.step = "track" => tRam'.angle = tRam.angle)
  <2>1. tRam \in TRam
    BY <1>1 DEF PanelTypes
  <2>2. CASE ~t /\ \E a \in 0..Top : tRam' = [tRam EXCEPT !.angle = a, !.step = "sleep"]
    BY <2>1, <2>2 DEF TRam
  <2>3. CASE ~t /\ tRam' = [tRam EXCEPT !.step = "sleep"]
    BY <2>1, <2>3 DEF TRam
  <2>4. CASE tRam' = [tRam EXCEPT !.step = "track"]
    BY <2>1, <2>4 DEF TRam
  <2>. QED  BY <1>4, <2>2, <2>3, <2>4
<1>7. /\ tRtc' \in TRtc /\ tRtc'.edge = tRtc.edge /\ tRtc'.last = tRtc.last
      /\ tRtc'.pending = tRtc.pending
  <2>1. tRtc \in TRtc
    BY <1>1 DEF PanelTypes
  <2>2. CASE \E a \in 0..Top : tRtc' = [tRtc EXCEPT !.angle = a]
    BY <2>1, <2>2, PanelConstants DEF TRtc
  <2>3. CASE tRtc' = tRtc
    BY <2>1, <2>3
  <2>. QED  BY <1>4, <2>2, <2>3
<1>8. PanelTypes'
  BY <1>1, <1>3, <1>5, <1>6, <1>7, PanelConstants DEF PanelTypes
<1>9. CreditInv'
  BY <1>1, <1>3, <1>6, <1>7 DEF PanelInv, CreditInv, Read, Needed, Coming
<1>10. TrackInv'
  BY <1>1, <1>3, <1>6 DEF TrackInv
<1>. QED  BY <1>3, <1>6, <1>8, <1>9, <1>10 DEF PanelInv, Panel!PanelStops

LEMMA QuietPanel == PanelInv /\ (Panel!Sommeil \/ Panel!Ask \/ Panel!Sky) => PanelInv'
<1>. SUFFICES ASSUME PanelInv, Panel!Sommeil \/ Panel!Ask \/ Panel!Sky  PROVE PanelInv'
  OBVIOUS
<1>1. PanelTypes
  BY DEF PanelInv
<1>2. CASE Panel!Sommeil
  <2>1. /\ tRam.step = "sleep" /\ UNCHANGED <<tRtc, axis, tServer, tWorld>>
        /\ tRam' \in {[tRam EXCEPT !.step = "config"], Panel!Ram0}
        /\ tSeen' = [Panel!Seen0 EXCEPT !.asked = tSeen.asked, !.credit = tSeen.credit]
    BY <1>2 DEF Panel!Sommeil
  <2>2. tSeen' \in TSeen /\ tSeen'.credit = tSeen.credit
    <3>1. Panel!Seen0 \in TSeen /\ tSeen.asked \in BOOLEAN /\ tSeen.credit \in 0..2
      BY <1>1, PanelConstants DEF PanelTypes, TSeen, Panel!Seen0
    <3>. QED  BY <2>1, <3>1 DEF TSeen
  <2>3. tRam' \in TRam /\ tRam'.step \in {"config", "asleep"}
    <3>1. Panel!Ram0 \in TRam /\ Panel!Ram0.step = "asleep"
      BY PanelConstants DEF Panel!Ram0, TRam, Panel!Modes
    <3>. QED  BY <1>1, <2>1, <3>1 DEF PanelTypes, TRam
  <2>4. PanelTypes'
    BY <1>1, <2>1, <2>2, <2>3 DEF PanelTypes
  <2>5. CreditInv'
    BY <2>1, <2>2, <2>3 DEF PanelInv, CreditInv, Read, Needed, Coming
  <2>. QED  BY <2>3, <2>4, <2>5 DEF PanelInv, TrackInv, Panel!PanelStops
<1>3. CASE Panel!Ask
  <2>1. PICK c \in 0..2 : tServer' = [tServer EXCEPT !.cmd = c]
    BY <1>3 DEF Panel!Ask
  <2>2. /\ tSeen' = [tSeen EXCEPT !.credit = Panel!Credited]
        /\ UNCHANGED <<tRtc, tRam, axis, tWorld>>
    BY <1>3 DEF Panel!Ask
  <2>3. tServer' \in TServer
    BY <1>1, <2>1 DEF PanelTypes, TServer
  <2>4. /\ tSeen' \in TSeen /\ tSeen'.credit = Panel!Credited /\ tSeen'.clear = tSeen.clear
        /\ tSeen'.from = tSeen.from /\ tSeen'.tracked = tSeen.tracked
    BY <1>1, <2>2, CreditedFacts DEF PanelTypes, TSeen
  <2>5. PanelTypes'
    BY <1>1, <2>2, <2>3, <2>4 DEF PanelTypes
  <2>6. CreditInv'
    <3>1. Read' = Read
      BY <2>2 DEF Read, Panel!Commanded
    <3>2. Needed(Read)' \in 0..2 /\ Needed(Read)' <= Needed(Read) + 1
      BY <3>1 DEF Needed, Coming
    <3>3. Needed(Read) \in 0..2 /\ Needed(Read) <= tSeen.credit
      BY DEF PanelInv, CreditInv, Needed
    <3>4. Needed(Read)' <= tSeen.credit + 1
      BY <1>1, <3>2, <3>3, PanelFields
    <3>5. Needed(Read)' <= Panel!Credited
      BY <1>1, <3>2, <3>4, CreditedFacts
    <3>. QED  BY <1>1, <2>4, <3>5, CreditedFacts DEF CreditInv, Needed
  <2>7. TrackInv' /\ Panel!PanelStops'
    BY <2>2, <2>4 DEF PanelInv, TrackInv, Nears, Flees, Ahead, Gap, Panel!PanelStops, Far
  <2>. QED  BY <2>5, <2>6, <2>7 DEF PanelInv
<1>4. CASE Panel!Sky
  <2>1. PICK u \in Suns, l \in BOOLEAN : tWorld' = [tWorld EXCEPT !.sun = u, !.light = l]
    BY <1>4 DEF Panel!Sky
  <2>2. tRam.step \in {"asleep", "config"} /\ UNCHANGED <<tRtc, tRam, axis, tServer, tSeen>>
    BY <1>4 DEF Panel!Sky
  <2>3. tWorld' \in TWorld
    BY <1>1, <2>1 DEF PanelTypes, TWorld
  <2>4. PanelTypes'
    BY <1>1, <2>2, <2>3 DEF PanelTypes
  <2>5. CreditInv'
    BY <2>2 DEF PanelInv, CreditInv, Read, Needed, Coming
  <2>. QED  BY <2>2, <2>4, <2>5 DEF PanelInv, TrackInv, Panel!PanelStops
<1>. QED  BY <1>2, <1>3, <1>4

LEMMA FarFacts ==
    /\ Far(0) = 0 /\ Far(MaxSteps) >= Top
    /\ \A k \in Nat : Far(k) \in Nat /\ Far(k + 1) = Far(k) + StepDeg
    /\ \A j, k \in Nat : j <= k => Far(j) <= Far(k)
<1>. USE PanelConstants
<1>1. Far(0) = 0 /\ Far(MaxSteps) >= Top
  BY TrackerAssumption DEF Far
<1>2. \A k \in Nat : Far(k) \in Nat /\ Far(k + 1) = Far(k) + StepDeg
  BY DEF Far
<1>3. ASSUME NEW j \in Nat, NEW k \in Nat, j <= k  PROVE Far(j) <= Far(k)
  <2>1. PICK i \in Nat : k = j + i
    <3>1. k - j \in Nat /\ k = j + (k - j)
      BY <1>3
    <3>. QED  BY <3>1
  <2>2. k * StepDeg = j * StepDeg + i * StepDeg /\ i * StepDeg >= 0 /\ j * StepDeg \in Nat
    BY <2>1
  <2>. QED  BY <2>2 DEF Far
<1>. QED  BY <1>1, <1>2, <1>3

(* Where a step leads, within the range of the axis.                        *)
Moved(a, d) == Panel!clampAngle(a + d * StepDeg)

LEMMA MovedFacts ==
    ASSUME NEW a \in 0..Top
    PROVE  /\ Moved(a, 1) \in a..Top /\ Moved(a, 1) <= a + StepDeg
           /\ Moved(a, 1) # Top => Moved(a, 1) = a + StepDeg
           /\ Moved(a, -1) \in 0..a /\ Moved(a, -1) >= a - StepDeg
           /\ Moved(a, -1) # 0 => Moved(a, -1) = a - StepDeg
<1>. USE PanelConstants
<1>1. Moved(a, 1) = IF a + StepDeg > Top THEN Top ELSE a + StepDeg
  BY DEF Moved, Panel!clampAngle
<1>2. Moved(a, -1) = IF a - StepDeg < 0 THEN 0 ELSE a - StepDeg
  BY DEF Moved, Panel!clampAngle
<1>. QED  BY <1>1, <1>2

(* One turn of the differential tracking: the axis stops, or goes on one    *)
(* step in the direction that the difference of the readings says.          *)
Toward(error) == IF error > 0 THEN 1 ELSE -1
Diverged(error) ==
    IF axis.dir = Toward(error) THEN Panel!Diverges(Panel!Abs(error)) ELSE axis.count
Stops(error) ==
    \/ error = 0 \/ axis.dir = -Toward(error) \/ Diverged(error) = Limit
    \/ Moved(tRam.angle, Toward(error)) = tRam.angle \/ axis.steps = MaxSteps

LEMMA TurnCases ==
    ASSUME NEW error \in Int, Panel!Turn(error)
    PROVE  \/ Stops(error) /\ Panel!Stop
           \/ /\ ~Stops(error) /\ tRtc' = tRtc
              /\ tRam' = [tRam EXCEPT !.angle = Moved(tRam.angle, Toward(error))]
              /\ axis' = [dir |-> Toward(error), mag |-> Panel!Abs(error),
                          count |-> Diverged(error), steps |-> axis.steps + 1]
BY DEF Panel!Turn, Stops, Moved, Toward, Diverged

LEMMA TurnTypes ==
    ASSUME PanelTypes, tRam.step = "track", NEW error \in Int, Panel!Turn(error)
    PROVE  /\ tRam' \in TRam /\ tRtc' \in TRtc /\ axis' \in TAxis
           /\ axis'.count < Limit /\ axis'.steps <= MaxSteps
           /\ tRtc'.edge = tRtc.edge /\ tRtc'.last = tRtc.last /\ tRtc'.pending = tRtc.pending
           /\ tRam'.step \in {"sleep", "track"}
<1>1. tRam \in TRam /\ tRtc \in TRtc /\ axis \in TAxis /\ tRam.angle \in 0..Top
  BY PanelFields DEF PanelTypes
<1>2. axis.count \in Nat /\ axis.steps \in Nat /\ axis.mag \in Int
  BY <1>1 DEF TAxis
<1>3. axis.count < Limit /\ axis.steps <= MaxSteps
  BY DEF PanelTypes
<1>4. CASE Panel!Stop
  <2>1. /\ tRam' = [tRam EXCEPT !.step = "sleep"]
        /\ tRtc' = [tRtc EXCEPT !.angle = tRam.angle] /\ axis' = Panel!Axis0
    BY <1>4 DEF Panel!Stop
  <2>2. tRam' \in TRam /\ tRam'.step = "sleep"
    BY <1>1, <2>1 DEF TRam
  <2>3. /\ tRtc' \in TRtc /\ tRtc'.edge = tRtc.edge /\ tRtc'.last = tRtc.last
        /\ tRtc'.pending = tRtc.pending
    BY <1>1, <2>1, PanelConstants DEF TRtc
  <2>4. axis' \in TAxis /\ axis'.count = 0 /\ axis'.steps = 0
    BY <2>1 DEF TAxis, Panel!Axis0
  <2>. QED  BY <2>2, <2>3, <2>4, PanelConstants
<1>5. CASE /\ ~Stops(error) /\ tRtc' = tRtc
           /\ tRam' = [tRam EXCEPT !.angle = Moved(tRam.angle, Toward(error))]
           /\ axis' = [dir |-> Toward(error), mag |-> Panel!Abs(error),
                       count |-> Diverged(error), steps |-> axis.steps + 1]
  <2>1. Toward(error) \in {1, -1}
    BY DEF Toward
  <2>2. Moved(tRam.angle, Toward(error)) \in 0..Top
    <3>1. Moved(tRam.angle, 1) \in 0..Top /\ Moved(tRam.angle, -1) \in 0..Top
      BY <1>1, MovedFacts, PanelConstants
    <3>. QED  BY <2>1, <3>1
  <2>3. Diverged(error) \in Nat /\ Diverged(error) <= axis.count + 1
    BY <1>2 DEF Diverged, Panel!Diverges
  <2>4. Diverged(error) # Limit /\ axis.steps # MaxSteps
    BY <1>5 DEF Stops
  <2>5. Panel!Abs(error) \in Int
    BY DEF Panel!Abs
  <2>6. tRam' \in TRam /\ tRam'.step = "track"
    BY <1>1, <1>5, <2>2 DEF TRam
  <2>7. axis' \in TAxis /\ axis'.count = Diverged(error) /\ axis'.steps = axis.steps + 1
    BY <1>2, <1>5, <2>1, <2>3, <2>5 DEF TAxis
  <2>8. axis'.count < Limit /\ axis'.steps <= MaxSteps
    BY <1>2, <1>3, <2>3, <2>4, <2>7, PanelConstants
  <2>. QED  BY <1>1, <1>5, <2>6, <2>7, <2>8
<1>. QED  BY <1>4, <1>5, TurnCases

(* The readings of the sun, the sensors mounted well.                       *)
LEMMA NearsOn ==
    ASSUME PanelTypes, tRam.step = "track", tWorld.mount = 1, Panel!Turn(Gap),
           \/ axis = Panel!Axis0 /\ tRam.angle = tSeen.from
           \/ Nears,
           tWorld' = tWorld, tSeen' = tSeen
    PROVE  \/ tRam'.step = "sleep" /\ Panel!Abs(tRam'.angle - tWorld.sun) < StepDeg
           \/ tRam'.step = "track" /\ Nears'
<1>1. tRam \in TRam /\ tRam.angle \in 0..Top /\ tWorld.sun \in 0..Top /\ tSeen.from \in 0..Top
  BY PanelFields DEF PanelTypes
<1>2. /\ axis.dir \in {-1, 0, 1} /\ axis.mag \in Int /\ axis.count \in Nat /\ axis.steps \in Nat
      /\ axis.steps <= MaxSteps
  BY DEF PanelTypes, TAxis
<1>3. Gap \in Int /\ Gap = tWorld.sun - tRam.angle
  BY <1>1, PanelConstants DEF Gap
<1>. USE PanelConstants
<1>4. ASSUME Panel!Stop, Panel!Abs(Gap) < StepDeg
      PROVE  tRam'.step = "sleep" /\ Panel!Abs(tRam'.angle - tWorld.sun) < StepDeg
  <2>1. tRam'.step = "sleep" /\ tRam'.angle = tRam.angle
    BY <1>1, <1>4 DEF Panel!Stop, TRam
  <2>2. Panel!Abs(tRam.angle - tWorld.sun) = Panel!Abs(Gap)
    BY <1>1, <1>3 DEF Panel!Abs
  <2>. QED  BY <1>4, <2>1, <2>2
<1>5. CASE Gap = 0 \/ (axis.dir # 0 /\ ~Ahead /\ Nears)
  <2>1. Panel!Abs(Gap) < StepDeg
    BY <1>5 DEF Nears, Panel!Abs
  <2>2. Stops(Gap)
    BY <1>2, <1>3, <1>5 DEF Stops, Toward, Ahead
  <2>. QED  BY <1>3, <1>4, <2>1, <2>2, TurnCases
<1>6. CASE Gap # 0 /\ ~(axis.dir # 0 /\ ~Ahead /\ Nears)
  <2>. DEFINE d == Toward(Gap)
  <2>1. /\ axis.dir \in {0, d} /\ axis.count = 0
        /\ axis.dir = d => Panel!Abs(Gap) < axis.mag
        /\ d = 1 => tRam.angle = tSeen.from + Far(axis.steps)
        /\ d = -1 => tRam.angle = tSeen.from - Far(axis.steps)
    <3>1. CASE axis = Panel!Axis0 /\ tRam.angle = tSeen.from
      <4>1. axis.dir = 0 /\ axis.count = 0 /\ axis.steps = 0
        BY <3>1 DEF Panel!Axis0
      <4>2. Far(axis.steps) = 0 /\ d \in {1, -1}
        BY <4>1, FarFacts DEF Toward
      <4>. HIDE DEF d
      <4>. QED  BY <1>1, <3>1, <4>1, <4>2
    <3>2. CASE Nears
      <4>1. Ahead /\ axis.dir # 0
        BY <1>6, <3>2 DEF Nears
      <4>2. axis.dir = d
        BY <1>2, <1>3, <4>1 DEF Ahead, Toward
      <4>. QED  BY <3>2, <4>1, <4>2 DEF Nears
    <3>. QED  BY <3>1, <3>2
  <2>2. Diverged(Gap) = 0
    <3>1. axis.dir = d => Panel!Diverges(Panel!Abs(Gap)) = 0
      <4>1. Panel!Abs(Gap) \in Int
        BY <1>3 DEF Panel!Abs
      <4>. QED  BY <1>2, <2>1, <4>1 DEF Panel!Diverges
    <3>. QED  BY <2>1, <3>1 DEF Diverged
  <2>3. (d = 1 /\ Gap > 0) \/ (d = -1 /\ Gap < 0)
    <3>1. Gap > 0 \/ Gap < 0
      BY <1>3, <1>6
    <3>. QED  BY <1>3, <3>1 DEF Toward
  <2>4. ~Stops(Gap)
    <3>1. Gap # 0 /\ axis.dir # -d /\ Diverged(Gap) # Limit
      BY <1>6, <2>1, <2>2, <2>3
    <3>2. Moved(tRam.angle, d) # tRam.angle
      <4>1. CASE d = 1
        <5>1. /\ Moved(tRam.angle, 1) \in tRam.angle..Top
              /\ Moved(tRam.angle, 1) # Top => Moved(tRam.angle, 1) = tRam.angle + StepDeg
          BY <1>1, MovedFacts
        <5>2. tRam.angle < Top
          BY <1>1, <1>3, <2>3, <4>1
        <5>3. Moved(tRam.angle, d) = Moved(tRam.angle, 1)
          BY <4>1
        <5>. QED  BY <1>1, <5>1, <5>2, <5>3
      <4>2. CASE d = -1
        <5>1. /\ Moved(tRam.angle, -1) \in 0..tRam.angle
              /\ Moved(tRam.angle, -1) # 0 => Moved(tRam.angle, -1) = tRam.angle - StepDeg
          BY <1>1, MovedFacts
        <5>2. tRam.angle > 0
          BY <1>1, <1>3, <2>3, <4>2
        <5>3. Moved(tRam.angle, d) = Moved(tRam.angle, -1)
          BY <4>2
        <5>. QED  BY <1>1, <5>1, <5>2, <5>3
      <4>. QED  BY <2>3, <4>1, <4>2
    <3>3. axis.steps # MaxSteps
      <4>1. axis.steps = MaxSteps => Far(axis.steps) >= Top
        BY FarFacts
      <4>2. Far(axis.steps) \in Nat
        BY <1>2, FarFacts
      <4>. HIDE DEF d
      <4>. QED  BY <1>1, <1>3, <2>1, <2>3, <4>1, <4>2
    <3>. QED  BY <3>1, <3>2, <3>3 DEF Stops
  <2>5. /\ tRam' = [tRam EXCEPT !.angle = Moved(tRam.angle, d)]
        /\ axis' = [dir |-> d, mag |-> Panel!Abs(Gap), count |-> Diverged(Gap),
                    steps |-> axis.steps + 1]
    BY <1>3, <2>4, TurnCases
  <2>. HIDE DEF d
  <2>6. tRam'.step = "track" /\ tRam'.angle = Moved(tRam.angle, d)
    BY <1>1, <2>5 DEF TRam
  <2>7. /\ axis'.dir = d /\ axis'.mag = Panel!Abs(Gap) /\ axis'.count = 0
        /\ axis'.steps = axis.steps + 1
    BY <2>2, <2>5
  <2>8. Gap' = tWorld.sun - Moved(tRam.angle, d) /\ tSeen'.from = tSeen.from
    BY <2>6 DEF Gap
  <2>9. Far(axis.steps + 1) = Far(axis.steps) + StepDeg /\ Far(axis.steps) \in Nat
    BY <1>2, FarFacts
  <2>10. CASE d = 1
    <3>1. Moved(tRam.angle, 1) \in 0..Top /\ Moved(tRam.angle, 1) <= tRam.angle + StepDeg
      BY <1>1, MovedFacts
    <3>2. ~Ahead' => Panel!Abs(Gap') < StepDeg
      BY <1>1, <1>3, <2>3, <2>7, <2>8, <2>10, <3>1 DEF Ahead, Panel!Abs
    <3>3. Ahead' => Moved(tRam.angle, 1) = tRam.angle + StepDeg
      BY <1>1, <2>7, <2>8, <2>10, <3>1, MovedFacts DEF Ahead
    <3>4. Ahead' => Panel!Abs(Gap') < Panel!Abs(Gap)
      BY <1>1, <1>3, <2>3, <2>7, <2>8, <2>10, <3>3 DEF Ahead, Panel!Abs
    <3>5. Ahead' => tRam'.angle = tSeen.from + Far(axis.steps + 1)
      BY <1>1, <2>1, <2>6, <2>9, <2>10, <3>3 DEF d
    <3>6. Panel!Abs(Gap)' = Panel!Abs(Gap')
      BY DEF Panel!Abs
    <3>7. Far(axis.steps)' = Far(axis.steps + 1)
      BY <2>7 DEF Far
    <3>. QED  BY <2>6, <2>7, <2>8, <2>10, <3>2, <3>4, <3>5, <3>6, <3>7 DEF Nears
  <2>11. CASE d = -1
    <3>1. Moved(tRam.angle, -1) \in 0..Top /\ Moved(tRam.angle, -1) >= tRam.angle - StepDeg
      BY <1>1, MovedFacts
    <3>2. ~Ahead' => Panel!Abs(Gap') < StepDeg
      BY <1>1, <1>3, <2>3, <2>7, <2>8, <2>11, <3>1 DEF Ahead, Panel!Abs
    <3>3. Ahead' => Moved(tRam.angle, -1) = tRam.angle - StepDeg
      BY <1>1, <2>7, <2>8, <2>11, <3>1, MovedFacts DEF Ahead
    <3>4. Ahead' => Panel!Abs(Gap') < Panel!Abs(Gap)
      BY <1>1, <1>3, <2>3, <2>7, <2>8, <2>11, <3>3 DEF Ahead, Panel!Abs
    <3>5. Ahead' => tRam'.angle = tSeen.from - Far(axis.steps + 1)
      BY <1>1, <2>1, <2>6, <2>9, <2>11, <3>3 DEF d
    <3>6. Panel!Abs(Gap)' = Panel!Abs(Gap')
      BY DEF Panel!Abs
    <3>7. Far(axis.steps)' = Far(axis.steps + 1)
      BY <2>7 DEF Far
    <3>. QED  BY <2>6, <2>7, <2>8, <2>11, <3>2, <3>4, <3>5, <3>6, <3>7 DEF Nears
  <2>. QED  BY <2>3, <2>10, <2>11
<1>. QED  BY <1>5, <1>6

(* The readings of the sun, the sensors mounted the wrong way round.        *)
LEMMA FleesOn ==
    ASSUME PanelTypes, tRam.step = "track", tWorld.mount = -1, Panel!Turn(-Gap),
           \/ axis = Panel!Axis0 /\ tRam.angle = tSeen.from
           \/ Flees,
           tWorld' = tWorld, tSeen' = tSeen
    PROVE  \/ /\ tRam'.step = "sleep"
              /\ Panel!Abs(tRam'.angle - tSeen.from) <= Far(Limit)
           \/ tRam'.step = "track" /\ Flees'
<1>1. tRam \in TRam /\ tRam.angle \in 0..Top /\ tWorld.sun \in 0..Top /\ tSeen.from \in 0..Top
  BY PanelFields DEF PanelTypes
<1>2. /\ axis.dir \in {-1, 0, 1} /\ axis.mag \in Int /\ axis.count \in Nat /\ axis.steps \in Nat
      /\ axis.steps <= MaxSteps /\ axis.count < Limit
  BY DEF PanelTypes, TAxis
<1>3. Gap \in Int /\ -Gap \in Int /\ Gap = tWorld.sun - tRam.angle
  BY <1>1, PanelConstants DEF Gap
<1>. USE PanelConstants
<1>4. /\ Panel!Abs(tRam.angle - tSeen.from) <= Far(axis.steps) /\ axis.steps <= Limit
      /\ axis.dir # 0 => axis.steps = axis.count + 1 /\ axis.mag < Panel!Abs(Gap) /\ axis.mag >= 0
      /\ axis.dir = 0 => axis.steps = 0 /\ axis.count = 0
      /\ axis.dir = 1 => Gap < 0
      /\ axis.dir = -1 => Gap > 0
  <2>1. CASE axis = Panel!Axis0 /\ tRam.angle = tSeen.from
    <3>1. axis.dir = 0 /\ axis.count = 0 /\ axis.steps = 0
      BY <2>1 DEF Panel!Axis0
    <3>2. Panel!Abs(tRam.angle - tSeen.from) = 0
      BY <1>1, <2>1 DEF Panel!Abs
    <3>3. Far(axis.steps) = 0
      BY <3>1, FarFacts
    <3>. QED  BY <3>1, <3>2, <3>3
  <2>2. CASE Flees
    <3>1. axis.dir # 0 /\ (axis.dir = 1 => Gap < 0) /\ (axis.dir = -1 => Gap > 0)
      BY <1>3, <2>2 DEF Flees
    <3>. QED  BY <1>2, <2>2, <3>1 DEF Flees
  <2>. QED  BY <2>1, <2>2
<1>5. CASE Panel!Stop
  <2>1. tRam'.step = "sleep" /\ tRam'.angle = tRam.angle
    BY <1>1, <1>5 DEF Panel!Stop, TRam
  <2>2. Far(axis.steps) <= Far(Limit) /\ Far(axis.steps) \in Nat /\ Far(Limit) \in Nat
    BY <1>2, <1>4, FarFacts
  <2>3. Panel!Abs(tRam.angle - tSeen.from) \in Int
    BY <1>1 DEF Panel!Abs
  <2>. QED  BY <1>4, <2>1, <2>2, <2>3
<1>6. CASE ~Stops(-Gap)
  <2>. DEFINE d == Toward(-Gap)
  <2>1. /\ tRam' = [tRam EXCEPT !.angle = Moved(tRam.angle, d)]
        /\ axis' = [dir |-> d, mag |-> Panel!Abs(-Gap), count |-> Diverged(-Gap),
                    steps |-> axis.steps + 1]
    BY <1>3, <1>6, TurnCases
  <2>2. /\ Gap # 0 /\ axis.dir # -d /\ Diverged(-Gap) # Limit
        /\ Moved(tRam.angle, d) # tRam.angle
    BY <1>3, <1>6 DEF Stops
  <2>3. (d = 1 /\ Gap < 0) \/ (d = -1 /\ Gap > 0)
    <3>1. (-Gap > 0 /\ Gap < 0) \/ (~(-Gap > 0) /\ Gap > 0)
      BY <1>3, <2>2
    <3>. QED  BY <3>1 DEF Toward
  <2>4. Panel!Abs(-Gap) = Panel!Abs(Gap) /\ Panel!Abs(Gap) \in Nat
    BY <1>3 DEF Panel!Abs
  <2>5. axis.steps = Diverged(-Gap)
    <3>1. CASE axis.dir = d
      <4>1. axis.dir # 0
        BY <2>3, <3>1
      <4>. QED  BY <1>2, <1>4, <2>4, <3>1, <4>1 DEF Diverged, Panel!Diverges
    <3>2. CASE axis.dir # d
      <4>1. axis.dir = 0
        BY <1>2, <2>2, <2>3, <3>2
      <4>. QED  BY <1>4, <3>2, <4>1 DEF Diverged
    <3>. QED  BY <3>1, <3>2
  <2>. HIDE DEF d
  <2>6. tRam'.step = "track" /\ tRam'.angle = Moved(tRam.angle, d)
    BY <1>1, <2>1 DEF TRam
  <2>7. /\ axis'.dir = d /\ axis'.mag = Panel!Abs(Gap) /\ axis'.count = axis.steps
        /\ axis'.steps = axis.steps + 1
    BY <2>1, <2>4, <2>5
  <2>8. Gap' = tWorld.sun - Moved(tRam.angle, d) /\ tSeen'.from = tSeen.from
    BY <2>6 DEF Gap
  <2>9. Far(axis.steps + 1) = Far(axis.steps) + StepDeg /\ Far(axis.steps) \in Nat
    BY <1>2, FarFacts
  <2>10. /\ d = 1 => Moved(tRam.angle, d) > tRam.angle
         /\ d = 1 => Moved(tRam.angle, d) <= tRam.angle + StepDeg
         /\ d = -1 => Moved(tRam.angle, d) < tRam.angle
         /\ d = -1 => Moved(tRam.angle, d) >= tRam.angle - StepDeg
         /\ Moved(tRam.angle, d) \in 0..Top
    <3>1. CASE d = 1
      BY <1>1, <2>2, <3>1, MovedFacts
    <3>2. CASE d = -1
      <4>1. /\ Moved(tRam.angle, -1) \in 0..tRam.angle
            /\ Moved(tRam.angle, -1) >= tRam.angle - StepDeg
        BY <1>1, MovedFacts
      <4>2. Moved(tRam.angle, d) = Moved(tRam.angle, -1)
        BY <3>2
      <4>. QED  BY <1>1, <2>2, <3>2, <4>1, <4>2
    <3>. QED  BY <2>3, <3>1, <3>2
  <2>11. (d = 1 /\ Gap' < 0) \/ (d = -1 /\ Gap' > 0)
    BY <1>1, <1>3, <2>3, <2>8, <2>10
  <2>12. Panel!Abs(Gap) < Panel!Abs(Gap')
    BY <1>1, <1>3, <2>3, <2>8, <2>10 DEF Panel!Abs
  <2>13. Panel!Abs(Moved(tRam.angle, d) - tSeen.from) <= Far(axis.steps + 1)
    BY <1>1, <1>4, <2>3, <2>9, <2>10 DEF Panel!Abs
  <2>14. Far(axis.steps)' = Far(axis.steps + 1)
    BY <2>7 DEF Far
  <2>15. Panel!Abs(Gap)' = Panel!Abs(Gap')
    BY DEF Panel!Abs
  <2>16. Panel!Abs(tRam.angle - tSeen.from)' = Panel!Abs(Moved(tRam.angle, d) - tSeen.from)
    BY <2>6, <2>8 DEF Panel!Abs
  <2>. QED  BY <2>4, <2>6, <2>7, <2>11, <2>12, <2>13, <2>14, <2>15, <2>16 DEF Flees
<1>. QED  BY <1>3, <1>5, <1>6, TurnCases

LEMMA TrackPanel == PanelInv /\ Panel!Track => PanelInv'
<1>. SUFFICES ASSUME PanelInv, Panel!Track  PROVE PanelInv'
  OBVIOUS
<1>1. PanelTypes /\ tRam.step = "track" /\ tServer' = tServer /\ tWorld' = tWorld
  BY DEF PanelInv, Panel!Track
<1>2. PICK error \in Int :
        /\ Panel!Turn(error)
        /\ \/ error = tWorld.mount * Gap /\ tSeen' = tSeen
           \/ tSeen' = [tSeen EXCEPT !.clear = FALSE]
  <2>1. tWorld.mount * Gap \in Int
    BY <1>1, PanelFields, PanelConstants DEF Gap
  <2>. QED  BY <2>1 DEF Panel!Track, Gap
<1>3. /\ tRam' \in TRam /\ tRtc' \in TRtc /\ axis' \in TAxis
      /\ axis'.count < Limit /\ axis'.steps <= MaxSteps
      /\ tRtc'.edge = tRtc.edge /\ tRtc'.last = tRtc.last /\ tRtc'.pending = tRtc.pending
      /\ tRam'.step \in {"sleep", "track"}
  BY <1>1, <1>2, TurnTypes
<1>4. tSeen' \in TSeen /\ tSeen'.credit = tSeen.credit
  <2>1. tSeen \in TSeen
    BY <1>1 DEF PanelTypes
  <2>. QED  BY <1>2, <2>1 DEF TSeen
<1>5. PanelTypes'
  BY <1>1, <1>3, <1>4 DEF PanelTypes
<1>6. CreditInv'
  BY <1>1, <1>3, <1>4 DEF PanelInv, CreditInv, Read, Needed, Coming
<1>7. CASE tSeen' = [tSeen EXCEPT !.clear = FALSE]
  <2>1. tSeen'.clear = FALSE
    BY <1>1, <1>7 DEF PanelTypes, TSeen
  <2>. QED  BY <1>5, <1>6, <2>1 DEF PanelInv, TrackInv, Panel!PanelStops
<1>8. CASE error = tWorld.mount * Gap /\ tSeen' = tSeen
  <2>1. CASE ~tSeen.clear
    BY <1>5, <1>6, <1>8, <2>1 DEF PanelInv, TrackInv, Panel!PanelStops
  <2>2. CASE tSeen.clear /\ tWorld.mount = 1
    <3>1. error = Gap
      BY <1>1, <1>8, <2>2, PanelFields, PanelConstants DEF Gap
    <3>2. (axis = Panel!Axis0 /\ tRam.angle = tSeen.from) \/ Nears
      BY <1>1, <2>2 DEF PanelInv, TrackInv
    <3>3. \/ tRam'.step = "sleep" /\ Panel!Abs(tRam'.angle - tWorld.sun) < StepDeg
          \/ tRam'.step = "track" /\ Nears'
      BY <1>1, <1>2, <1>8, <2>2, <3>1, <3>2, NearsOn
    <3>4. TrackInv'
      BY <1>1, <2>2, <3>3 DEF TrackInv
    <3>5. Panel!PanelStops'
      BY <1>1, <2>2, <3>3 DEF Panel!PanelStops, Panel!Abs
    <3>. QED  BY <1>5, <1>6, <3>4, <3>5 DEF PanelInv
  <2>3. CASE tSeen.clear /\ tWorld.mount = -1
    <3>1. error = -Gap
      BY <1>1, <1>8, <2>3, PanelFields, PanelConstants DEF Gap
    <3>2. (axis = Panel!Axis0 /\ tRam.angle = tSeen.from) \/ Flees
      BY <1>1, <2>3 DEF PanelInv, TrackInv
    <3>3. \/ tRam'.step = "sleep" /\ Panel!Abs(tRam'.angle - tSeen.from) <= Far(Limit)
          \/ tRam'.step = "track" /\ Flees'
      BY <1>1, <1>2, <1>8, <2>3, <3>1, <3>2, FleesOn
    <3>4. TrackInv'
      BY <1>1, <2>3, <3>3 DEF TrackInv
    <3>5. Panel!PanelStops'
      BY <1>1, <1>8, <2>3, <3>3 DEF Panel!PanelStops, Panel!Abs, Far
    <3>. QED  BY <1>5, <1>6, <3>4, <3>5 DEF PanelInv
  <2>. QED  BY <1>1, <2>1, <2>2, <2>3, PanelFields
<1>. QED  BY <1>2, <1>7, <1>8

LEMMA PanelStep == PanelInv /\ [Panel!Next]_panelVars => PanelInv'
<1>. SUFFICES ASSUME PanelInv, [Panel!Next]_panelVars  PROVE PanelInv'
  OBVIOUS
<1>1. CASE UNCHANGED panelVars
  <2>1. PanelTypes' /\ CreditInv'
    BY <1>1 DEF panelVars, PanelInv, PanelTypes, CreditInv, Read, Needed, Coming, Panel!Commanded
  <2>2. TrackInv' /\ Panel!PanelStops'
    BY <1>1 DEF panelVars, PanelInv, TrackInv, Nears, Flees, Ahead, Gap, Far, Panel!PanelStops
  <2>. QED  BY <2>1, <2>2 DEF PanelInv
<1>2. CASE Panel!Next
  BY <1>2, WakePanel, ConfigPanel, CalibratePanel, LightPanel, TrackPanel, QuietPanel
  DEF Panel!Next, Panel!Step
<1>. QED  BY <1>1, <1>2

LEMMA PanelFacts == PanelInv => Panel!PanelStops /\ Panel!CalibratedOnce
<1>. SUFFICES ASSUME PanelInv  PROVE Panel!PanelStops /\ Panel!CalibratedOnce
  OBVIOUS
<1>1. tSeen.credit \in 0..2
  BY PanelFields DEF PanelInv
<1>. QED  BY <1>1 DEF PanelInv, Panel!CalibratedOnce

-----------------------------------------------------------------------------
(* The updates of the boards of the OTA library.                            *)

TLoad == [ver : Nat, good : BOOLEAN, got : Nat, live : BOOLEAN, quiet : BOOLEAN]

(* The image that runs is whole, and the one being loaded is newer.         *)
ImageInv ==
    /\ slot \in [1..2 -> Nat] /\ run \in 1..2 /\ boot = run /\ slot[run] # 0
    /\ pub \in [ver : Nat, good : BOOLEAN] /\ dl \in TLoad
    /\ st = "load" => dl.ver > slot[run]

LEMMA ImageInit == Image!Init => ImageInv
<1>. SUFFICES ASSUME Image!Init  PROVE ImageInv
  OBVIOUS
<1>1. /\ slot = <<1, 0>> /\ boot = 1 /\ run = 1 /\ pub = [ver |-> 1, good |-> TRUE]
      /\ st = "sleep" /\ dl = Image!NoLoad
  BY DEF Image!Init
<1>2. slot \in [1..2 -> Nat] /\ slot[1] = 1
  <2>1. slot = [i \in 1..2 |-> IF i = 1 THEN 1 ELSE 0]
    BY <1>1
  <2>. QED  BY <2>1
<1>3. Image!NoLoad \in TLoad
  BY DEF Image!NoLoad, TLoad
<1>. QED  BY <1>1, <1>2, <1>3 DEF ImageInv

(* A restart, or the end of a check, starts no other image.                 *)
LEMMA SameImage ==
    ASSUME ImageInv, slot' = slot, run' = run, boot' \in {boot, run},
           pub' = pub, dl' \in TLoad, st' # "load"
    PROVE  ImageInv' /\ slot'[run'] >= slot[run]
BY DEF ImageInv

LEMMA EndedImage ==
    ASSUME ImageInv, Image!Ended
    PROVE  ImageInv' /\ slot'[run'] >= slot[run]
<1>1. Image!NoLoad \in TLoad
  BY DEF Image!NoLoad, TLoad
<1>2. slot' = slot /\ pub' = pub /\ dl' = Image!NoLoad /\ run' \in {run, boot} /\ boot' = boot
      /\ st' \in {"woken", "awake"}
  BY DEF Image!Ended, Image!Restarted, Image!Begin
<1>3. run' = run
  BY <1>2 DEF ImageInv
<1>. QED  BY <1>1, <1>2, <1>3, SameImage

LEMMA RestartedImage ==
    ASSUME ImageInv, Image!Restarted(boot), UNCHANGED <<slot, pub>>
    PROVE  ImageInv' /\ slot'[run'] >= slot[run]
<1>1. Image!NoLoad \in TLoad
  BY DEF Image!NoLoad, TLoad
<1>2. slot' = slot /\ pub' = pub /\ dl' = Image!NoLoad /\ run' = boot /\ boot' = boot /\ st' = "woken"
  BY DEF Image!Restarted, Image!Begin
<1>3. run' = run
  BY <1>2 DEF ImageInv
<1>. QED  BY <1>1, <1>2, <1>3, SameImage

(* A step of the updates keeps the image that runs whole, and the version   *)
(* that runs is never an older one.                                         *)
LEMMA ImageStep ==
    ImageInv /\ [Image!Next]_imageVars => ImageInv' /\ slot'[run'] >= slot[run]
<1>. SUFFICES ASSUME ImageInv, [Image!Next]_imageVars
              PROVE  ImageInv' /\ slot'[run'] >= slot[run]
  OBVIOUS
<1>1. /\ slot \in [1..2 -> Nat] /\ run \in 1..2 /\ boot = run /\ slot[run] # 0
      /\ pub \in [ver : Nat, good : BOOLEAN] /\ dl \in TLoad
      /\ st = "load" => dl.ver > slot[run]
  BY DEF ImageInv
<1>2. pub.ver \in Nat /\ pub.good \in BOOLEAN /\ dl.ver \in Nat /\ slot[run] \in Nat
  BY <1>1 DEF TLoad
<1>3. CASE UNCHANGED imageVars
  BY <1>1, <1>2, <1>3 DEF ImageInv, imageVars
<1>4. CASE Image!Wake \/ Image!Check \/ Image!Sleep
  <2>1. CASE Image!Check /\ Image!Ended
    BY <2>1, EndedImage
  <2>2. CASE ~(Image!Check /\ Image!Ended)
    <3>1. UNCHANGED <<slot, run, pub, dl>> /\ boot' \in {boot, run}
          /\ st' \in {"woken", "offer", "awake", "sleep"}
      BY <1>4, <2>2 DEF Image!Wake, Image!Check, Image!Sleep, Image!Begin
    <3>. QED  BY <1>1, <3>1, SameImage
  <2>. QED  BY <2>1, <2>2
<1>5. CASE Image!Refused \/ Image!GivenUp \/ Image!Rejected \/ Image!CutShort
  BY <1>5, EndedImage DEF Image!Refused, Image!GivenUp, Image!Rejected, Image!CutShort
<1>6. CASE Image!Offered
  <2>1. /\ slot' = [slot EXCEPT ![3 - run] = 0] /\ run' = run /\ boot' = boot /\ pub' = pub
        /\ dl' = [ver |-> pub.ver, good |-> pub.good, got |-> 0, live |-> TRUE, quiet |-> FALSE]
        /\ pub.ver > slot[run]
    BY <1>6 DEF Image!Offered
  <2>2. slot' \in [1..2 -> Nat] /\ slot'[run] = slot[run]
    BY <1>1, <2>1
  <2>3. dl' \in TLoad /\ dl'.ver = pub.ver
    BY <1>2, <2>1 DEF TLoad
  <2>. QED  BY <1>1, <1>2, <2>1, <2>2, <2>3 DEF ImageInv
<1>7. CASE Image!Chunk \/ Image!Quiet \/ Image!Drop
  <2>1. dl' \in TLoad /\ dl'.ver = dl.ver
    <3>1. \/ dl' = [dl EXCEPT !.got = @ + 1, !.quiet = FALSE]
          \/ dl' = [dl EXCEPT !.quiet = TRUE]
          \/ dl' = [dl EXCEPT !.live = FALSE]
      BY <1>7 DEF Image!Chunk, Image!Quiet, Image!Drop
    <3>2. dl.got + 1 \in Nat /\ dl \in TLoad
      BY <1>1 DEF TLoad
    <3>. QED  BY <3>1, <3>2 DEF TLoad
  <2>2. UNCHANGED <<slot, run, boot, pub, st>>
    BY <1>7 DEF Image!Chunk, Image!Quiet, Image!Drop
  <2>. QED  BY <1>1, <1>2, <2>1, <2>2 DEF ImageInv
<1>8. CASE Image!Flashed
  <2>1. /\ slot' = [slot EXCEPT ![3 - run] = IF dl.good THEN dl.ver ELSE 0]
        /\ run' = 3 - run /\ boot' = 3 - run /\ dl' = Image!NoLoad /\ pub' = pub /\ st' = "woken"
        /\ dl.good /\ dl.ver > slot[run]
    BY <1>1, <1>8 DEF Image!Flashed, Image!Restarted, Image!Begin, Image!Verified
  <2>2. slot' = [slot EXCEPT ![3 - run] = dl.ver] /\ 3 - run \in 1..2
    BY <1>1, <2>1
  <2>3. slot' \in [1..2 -> Nat] /\ slot'[3 - run] = dl.ver
    BY <1>1, <1>2, <2>2
  <2>4. Image!NoLoad \in TLoad
    BY DEF Image!NoLoad, TLoad
  <2>. QED  BY <1>1, <1>2, <2>1, <2>2, <2>3, <2>4 DEF ImageInv
<1>9. CASE Image!Contact \/ Image!Return
  <2>1. UNCHANGED <<slot, run, boot, pub, st, dl>>
    BY <1>9 DEF Image!Contact, Image!Return
  <2>. QED  BY <1>1, <1>2, <2>1 DEF ImageInv
<1>10. CASE Image!Ordered
  <2>1. CASE safe
    BY <1>10, <2>1, RestartedImage DEF Image!Ordered
  <2>2. CASE ~safe
    BY <1>1, <1>10, <2>2, SameImage DEF Image!Ordered
  <2>. QED  BY <2>1, <2>2
<1>11. CASE Image!Reset
  BY <1>11, RestartedImage DEF Image!Reset
<1>12. CASE Image!Publish
  <2>1. UNCHANGED <<slot, run, boot, st, dl>>
    BY <1>12 DEF Image!Publish
  <2>2. pub' \in [ver : Nat, good : BOOLEAN]
    <3>1. CASE \E g \in BOOLEAN : pub' = [ver |-> pub.ver + 1, good |-> g]
      BY <1>2, <3>1
    <3>2. CASE pub' = [pub EXCEPT !.good = TRUE]
      BY <1>1, <3>2
    <3>. QED  BY <1>12, <3>1, <3>2 DEF Image!Publish
  <2>. QED  BY <1>1, <1>2, <2>1, <2>2 DEF ImageInv
<1>. QED
  BY <1>3, <1>4, <1>5, <1>6, <1>7, <1>8, <1>9, <1>10, <1>11, <1>12
  DEF Image!Next, Image!Own

LEMMA ImageFacts == ImageInv => Image!BootsWhole
BY DEF ImageInv, Image!BootsWhole

-----------------------------------------------------------------------------
(* The boards together: each part's steps keep its own invariant, and       *)
(* leave the others' variables alone.                                       *)

BoardsInv ==
    /\ NodeInv /\ AlertInv /\ CameraInv /\ LogInv
    /\ QueueInv /\ PanelInv /\ ImageInv

LEMMA BoardsInit == BInit => BoardsInv
BY NodeInit, AlertInit, CameraInit, LogInit, QueueInit, PanelInit, ImageInit
DEF BInit, BoardsInv

LEMMA BoardsStep == BoardsInv /\ [BNext]_bvars => BoardsInv'
<1>. SUFFICES ASSUME BoardsInv, [BNext]_bvars  PROVE BoardsInv'
  OBVIOUS
<1>1. /\ [Next]_nvars /\ [Alert!Next]_alertVars /\ [Camera!Next]_cameraVars
      /\ [Log!Next]_logVars /\ [Queue!Next]_queueVars /\ [Panel!Next]_panelVars
      /\ [Image!Next]_imageVars
  <2>1. CASE BNext
    BY <2>1 DEF BNext
  <2>2. CASE UNCHANGED bvars
    BY <2>2 DEF bvars
  <2>. QED  BY <2>1, <2>2
<1>. QED
  BY <1>1, NodeStep, AlertStep, CameraStep, LogStep, QueueStep, PanelStep, ImageStep
  DEF BoardsInv

LEMMA BoardsCorrect == BSpec => []BoardsInv
BY BoardsInit, BoardsStep, PTL DEF BSpec

-----------------------------------------------------------------------------
(* The greenhouse's pump waters as it was meant to, whatever wakes, resets  *)
(* and lost posts come between: dry soil no sooner than the cooldown, the   *)
(* hour's dose once, a command once, a reset flag restarts the board once   *)
(* (n3pp_automation.cpp).                                                   *)
THEOREM DosesCorrect == BSpec => []DosesAsMeant
<1>1. NodeInv => DosesAsMeant
  BY WorldFacts
  DEF NodeInv, Sound, Spaced, Served, Dosed, Edged, DosesAsMeant, AutoSpaced,
      OneDosePerCommand, ScheduledOnce, NoRebootLoop
<1>2. BoardsInv => DosesAsMeant
  BY <1>1 DEF BoardsInv
<1>. QED  BY <1>2, BoardsCorrect, PTL

(* An outage stays within its budget of mails, a low battery and an event   *)
(* of the camera are mailed once (n3pp_automation.cpp, the camera's         *)
(* main.cpp).                                                               *)
THEOREM MailsCorrect == BSpec => []MailsAsMeant
<1>1. AlertInv => Alert!OutageBudget /\ Alert!LowMailedOnce
  BY AlertConstants
  DEF AlertInv, Budgeted, AlertWorlds, Alert!World, Alert!OutageBudget, Alert!LowMailedOnce
<1>2. CameraInv => Camera!MailOnce
  BY DEF CameraInv, Kept, Accounted, Camera!MailOnce
<1>3. BoardsInv => MailsAsMeant
  BY <1>1, <1>2 DEF BoardsInv, MailsAsMeant
<1>. QED  BY <1>3, BoardsCorrect, PTL

(* Numbers name one event, what waits is in flash, and the safe mode comes  *)
(* after the failed wakes it is meant for (n3_event_ring.h,                 *)
(* n3_contact_diag.cpp).                                                    *)
THEOREM LogCorrect == BSpec => []LogExact
<1>1. LogInv => Log!SeqUnique /\ Log!PendingSaved
  BY DEF LogInv, LogTypes, FlashInv, RamInv, Log!SeqUnique, Log!PendingSaved, Log!pending
<1>2. LogInv => Log!SafeModeExact
  BY DEF LogInv, SafeInv, Log!SafeModeExact
<1>3. BoardsInv => LogExact
  BY <1>1, <1>2 DEF BoardsInv, LogExact
<1>. QED  BY <1>3, BoardsCorrect, PTL

(* A photo enters the camera's queue and waits there until it is sent or    *)
(* given up, whatever resets, full cards and lost posts come between: the   *)
(* safety part of PhotosServed (camera_sync.cpp).                           *)
THEOREM PhotosCorrect == BSpec => []PhotosKept
<1>1. BoardsInv => PhotosKept
  BY PhotosFacts DEF BoardsInv, PhotosKept
<1>. QED  BY <1>1, BoardsCorrect, PTL

(* The panel stops next to the sun, or after DIVERGE_LIMIT steps away from  *)
(* it when it is mounted the wrong way round, and a command calibrates it   *)
(* once: the safety part of PanelServes (msp_sensors.cpp).                  *)
THEOREM PanelCorrect == BSpec => []PanelKept
<1>1. BoardsInv => PanelKept
  BY PanelFacts DEF BoardsInv, PanelKept
<1>. QED  BY <1>1, BoardsCorrect, PTL

(* A board always has a whole image to start, and no older one than it      *)
(* runs: the safety part of ImageServes (n3_ota.cpp).                       *)
THEOREM ImageCorrect == BSpec => []ImageWhole
<1>1. BoardsInv => ImageWhole
  BY ImageFacts DEF BoardsInv, ImageWhole
<1>. QED  BY <1>1, BoardsCorrect, PTL

(* And no step, a flash, a reset or a refused image, ever makes a board run *)
(* an older version (n3_ota.cpp).                                           *)
THEOREM NeverOlder == BSpec => [][slot'[run'] >= slot[run]]_imageVars
<1>1. BoardsInv /\ [BNext]_bvars => [slot'[run'] >= slot[run]]_imageVars
  <2>. SUFFICES ASSUME BoardsInv, [BNext]_bvars  PROVE [slot'[run'] >= slot[run]]_imageVars
    OBVIOUS
  <2>1. [Image!Next]_imageVars
    <3>1. CASE BNext
      BY <3>1 DEF BNext
    <3>2. CASE UNCHANGED bvars
      BY <3>2 DEF bvars
    <3>. QED  BY <3>1, <3>2
  <2>. QED  BY <2>1, ImageStep DEF BoardsInv
<1>. QED  BY <1>1, BoardsCorrect, PTL DEF BSpec
=============================================================================
