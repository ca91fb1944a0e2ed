---------------------------- MODULE BottleSense ----------------------------
(***************************************************************************)
(* Counting a bottle from three sensors (poissonglouton: pgl_detection.cpp *)
(* and pgl_sensor_fusion.cpp): an infra-red beam, an ultrasonic range and  *)
(* a presence detector, any of which may be missing.                       *)
(*                                                                         *)
(* One step of time is 100 ms, the cache of the ultrasonic range: a turn   *)
(* of the loop with a fresh range lets it pass.  The turn may come late,   *)
(* when an upload or a firmware update blocks the loop.  The times of the  *)
(* last events are kept as ages; whether a count was corroborated, which   *)
(* only labels it, is left out.                                            *)
(***************************************************************************)
EXTENDS Integers, FiniteSets

CONSTANTS Debounce,       \* PGL_DEBOUNCE_MS
          PirGuard,       \* PGL_PIR_DEBOUNCE_MS
          PirWindow,      \* PGL_PIR_PRESENCE_WINDOW_MS
          UsPolls,        \* PGL_US_CONSECUTIVE_POLLS
          Promote, Demote, \* PGL_US_RUNTIME_PROMOTE_COUNT, _DEMOTE_COUNT
          PirGates,       \* PGL_PIR_GATES_COUNT
          PirAlone        \* PGL_PIR_COUNTS_WHEN_ALONE

VARIABLES build,    \* sensors fitted
          usPresent, valid, invalid,   \* the range found at boot or later
          irPrev, pirPrev, armed, below, wake,
          age,      \* since the last count and the last presence edge
          ping,     \* the last range measured
          counted,  \* the last turn counted a bottle: the sensors in its mask
          stay      \* the stay of one object before the machine (ghost)

svars == <<build, usPresent, valid, invalid, irPrev, pirPrev, armed, below,
           wake, age, ping, counted, stay>>

Never == Debounce + PirWindow
Older(a, d) == IF a = Never THEN Never
               ELSE IF a + d >= Never THEN Never - 1 ELSE a + d
Ages(d) == [s \in DOMAIN age |-> Older(age[s], d)]
recent(a, window) == a # Never /\ a <= window

Pings == {"none", "near", "far"}

(* pglDetectionUpdateUsRuntimePresence, on every turn, whether the range is *)
(* new or from the cache                                                   *)
UpdatePresence(p) ==
    IF usPresent THEN UNCHANGED <<usPresent, valid, invalid>>
    ELSE IF p # "none"
    THEN /\ invalid' = 0 /\ valid' = valid + 1
         /\ usPresent' = (valid + 1 >= Promote)
    ELSE /\ UNCHANGED usPresent
         /\ IF valid > 0 /\ invalid + 1 >= Demote
            THEN valid' = 0 /\ invalid' = 0
            ELSE /\ UNCHANGED valid
                 /\ invalid' = IF valid > 0 THEN invalid + 1 ELSE invalid

(* the edge of the beam, or the object that woke the board, whose edge was *)
(* before begin()                                                          *)
IrEdge(level) == build.ir /\ ((irPrev /\ ~level) \/ wake)

(* pglDetectionUsZoneClear: a ping without an echo is a clear zone *)
ZoneClear(p) == p # "near"

(* the ultrasonic part of poll(): [armed, below, trigger] *)
UsStep(p, fresh) ==
    IF ~armed THEN [armed |-> ZoneClear(p), trigger |-> FALSE,
                    below |-> IF ZoneClear(p) THEN 0 ELSE below]
    ELSE IF ~fresh THEN [armed |-> TRUE, below |-> below, trigger |-> FALSE]
    ELSE IF p # "near" THEN [armed |-> TRUE, below |-> 0, trigger |-> FALSE]
    ELSE IF below + 1 >= UsPolls
         THEN [armed |-> FALSE, below |-> 0, trigger |-> TRUE]
         ELSE [armed |-> TRUE, below |-> below + 1, trigger |-> FALSE]

(* pglFuseDetection: the mask of a counted bottle, {} when none is.  trig  *)
(* are the sensors that triggered in this turn.                            *)
Fuse(fitted, trig, a) ==
    LET hits == trig \cap fitted \cap {"ir", "us"}
        pirConfirmed == "pir" \in fitted /\ ("pir" \in trig \/ recent(a.pir, PirWindow))
        mask == hits \cup (IF pirConfirmed THEN {"pir"} ELSE {})
    IN  IF fitted \cap {"ir", "us"} # {}
        THEN IF hits = {} \/ ("pir" \in fitted /\ PirGates /\ ~pirConfirmed)
             THEN {} ELSE mask
        ELSE IF "pir" \in trig /\ PirAlone THEN {"pir"} ELSE {}

(* PglDetection::begin, after a cold start or a wake-up by the beam *)
Init == /\ build \in [ir : BOOLEAN, pir : BOOLEAN]
        /\ usPresent \in BOOLEAN /\ valid = 0 /\ invalid = 0
        /\ wake \in {w \in BOOLEAN : w => build.ir}
        /\ irPrev = ~wake /\ pirPrev = FALSE /\ armed = TRUE /\ below = 0
        /\ age = [count |-> Never, pir |-> Never]
        /\ ping = "none" /\ counted = {}
        /\ stay = [on |-> wake, counts |-> 0, clean |-> TRUE]

\* Mutant: each sensor counts on its own, without the common debounce.
DecisionPerSensor(fitted, trig, a) == Fuse(fitted, trig, a)

(* a debounced decision on the triggers of this turn *)
Decision(fitted, trig, a) ==
    IF a.count # Never /\ a.count < Debounce THEN {} ELSE Fuse(fitted, trig, a)

(* PglDetection::poll.  The object is before the machine (obj) or not: the *)
(* beam sees it without fail, the range may miss its echo.  late is how    *)
(* much longer than a step the loop was blocked.                           *)
Poll(obj, p, pir, fresh, late) ==
    LET a0 == IF fresh THEN Ages(1 + late) ELSE age
        level == ~obj
        u == UsStep(p, fresh \/ ~usPresent)
        usOn == usPresent'
        pirEdge == build.pir /\ ~pirPrev /\ pir
                     /\ (age.pir = Never \/ a0.pir >= PirGuard)
        trig == (IF IrEdge(level) THEN {"ir"} ELSE {})
                \cup (IF usOn /\ u.trigger THEN {"us"} ELSE {})
                \cup (IF pirEdge THEN {"pir"} ELSE {})
        a == [s \in DOMAIN a0 |-> IF s \in trig THEN 0 ELSE a0[s]]
        fitted == (IF build.ir THEN {"ir"} ELSE {}) \cup (IF usOn THEN {"us"} ELSE {})
                  \cup (IF build.pir THEN {"pir"} ELSE {})
        mask == Decision(fitted, trig, a)
    IN  /\ UpdatePresence(p)
        /\ ping' = p
        /\ irPrev' = (IF build.ir THEN level ELSE irPrev) /\ wake' = (wake /\ ~build.ir)
        /\ pirPrev' = (IF build.pir THEN pir ELSE pirPrev)
        /\ armed' = (IF usOn THEN u.armed ELSE armed)
        /\ below' = (IF usOn THEN u.below ELSE below)
        /\ age' = [a EXCEPT !.count = IF mask # {} THEN 0 ELSE @]
        /\ counted' = mask
        /\ stay' = IF ~obj THEN [on |-> FALSE, counts |-> 0, clean |-> TRUE]
                   ELSE [on |-> TRUE,
                         counts |-> (IF stay.on /\ stay.counts < 2 THEN stay.counts
                                     ELSE IF stay.on THEN 1 ELSE 0)
                                    + (IF mask # {} THEN 1 ELSE 0),
                         clean |-> (~stay.on \/ stay.clean) /\ late = 0
                                   /\ (fresh => p = "near")]
        /\ UNCHANGED build

(* a turn with a range from the cache, one with a new range, and one after *)
(* the loop was blocked                                                    *)
PollCached == \E obj, pir \in BOOLEAN : Poll(obj, ping, pir, FALSE, 0)
PollFresh == \E obj, pir \in BOOLEAN, p \in Pings : Poll(obj, p, pir, TRUE, 0)
PollBlocked == \E obj, pir \in BOOLEAN, p \in Pings : Poll(obj, p, pir, TRUE, Debounce)

Next == PollCached \/ PollFresh \/ PollBlocked
Spec == Init /\ [][Next]_svars

-----------------------------------------------------------------------------
(* One object that stays before the machine counts for one, with the two   *)
(* sensors that see it one after the other, unless an echo is missed or    *)
(* the loop was blocked meanwhile; PIR alone counts movements, not objects. *)
StayCountsOnce == (build.ir \/ usPresent) /\ stay.on /\ stay.clean /\ ~PirGates
                     => stay.counts <= 1

(* The object that woke the board is counted.                              *)
WakeCounted == [][wake /\ ~wake' /\ ~(PirGates /\ build.pir) => counted' # {}]_svars
=============================================================================
