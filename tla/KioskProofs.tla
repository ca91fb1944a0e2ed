----------------------------- MODULE KioskProofs -----------------------------
(***************************************************************************)
(* The bottle counter's detection counts an object that stays before the   *)
(* machine once, and the object that woke the board: for every set of      *)
(* sensors, debounce, number of ultrasonic polls and window of presence    *)
(* with which the range answers before the debounce has passed.  And its   *)
(* memory neither loses a bottle nor counts one twice, whatever the sizes  *)
(* of the ring and of the batches.                                         *)
(***************************************************************************)
EXTENDS Kiosk, FiniteSetTheorems, SequenceTheorems, TLAPS

Sensors == {"ir", "us", "pir"}
Stays == [on : BOOLEAN, counts : 0..2, clean : BOOLEAN]

SenseType ==
    /\ build \in [ir : BOOLEAN, pir : BOOLEAN]
    /\ usPresent \in BOOLEAN /\ irPrev \in BOOLEAN /\ armed \in BOOLEAN /\ wake \in BOOLEAN
    /\ valid \in Nat /\ invalid \in Nat /\ below \in 0..(UsPolls - 1)
    /\ age \in [{"count", "pir"} -> 0..Sense!Never]
    /\ ping \in Sense!Pings
    /\ stay \in Stays

(* The beam is broken as long as the object stays, and the one that woke    *)
(* the board is not counted yet.                                            *)
Beam ==
    /\ build.ir => irPrev = ~stay.on
    /\ wake => build.ir /\ stay.counts = 0 /\ age.count = Sense!Never

(* The range that is not found yet has seen nothing.                        *)
Unfound == ~usPresent => armed /\ below = 0 /\ valid < Promote

(* The range has seen the object and waits for a clear zone.                *)
Passed == usPresent /\ ~armed /\ ping = "near"

(* New ranges until it has, when each of them is near.                      *)
Pending == IF usPresent THEN UsPolls - below ELSE Promote - valid + UsPolls - 1

(* The second sensor to see an object that counted does so before the       *)
(* debounce has passed: it has, or it cannot before the first new range, or *)
(* it will in time.                                                         *)
Answered ==
    \/ Passed
    \/ ping # "near" /\ age.count = 0
    \/ ping = "near" /\ age.count + Pending < Debounce

Once == stay.on /\ stay.clean /\ stay.counts # 0 => stay.counts = 1 /\ Answered

SenseInv == SenseType /\ Beam /\ Unfound /\ Once

LEMMA SenseConstants ==
    /\ UsPolls \in Nat \ {0} /\ Promote \in Nat \ {0} /\ Demote \in Nat \ {0}
    /\ PirWindow \in Nat \ {0} /\ Debounce \in Nat /\ PirGuard \in Nat
    /\ PirGates \in BOOLEAN /\ PirAlone \in BOOLEAN
    /\ Promote + UsPolls <= Debounce
    /\ Sense!Never \in Nat /\ Sense!Never > Debounce
BY SenseAssumption DEF Sense!Never

-----------------------------------------------------------------------------
(* One turn of poll(), in terms of what it adds to the ages (d), the        *)
(* triggers, the fitted sensors and the ages it decides on.                 *)

Fitted == (IF build.ir THEN {"ir"} ELSE {}) \cup (IF usPresent' THEN {"us"} ELSE {})
          \cup (IF build.pir THEN {"pir"} ELSE {})

Decided(obj, p, fresh, late, trig, a) ==
    LET u == Sense!UsStep(p, fresh \/ ~usPresent)
        mask == Sense!Decision(Fitted, trig, a)
    IN  /\ "ir" \in trig <=> Sense!IrEdge(~obj)
        /\ "us" \in trig <=> usPresent' /\ u.trigger
        /\ a.count = IF fresh THEN Sense!Older(age.count, 1 + late) ELSE age.count
        /\ a.pir \in 0..Sense!Never
        /\ Sense!UpdatePresence(p)
        /\ ping' = p
        /\ irPrev' = (IF build.ir THEN ~obj ELSE irPrev)
        /\ wake' = (wake /\ ~build.ir)
        /\ armed' = (IF usPresent' THEN u.armed ELSE armed)
        /\ below' = (IF usPresent' THEN u.below ELSE below)
        /\ age' = [a EXCEPT !.count = IF mask # {} THEN 0 ELSE @]
        /\ counted' = mask
        /\ stay' = IF ~obj THEN [on |-> FALSE, counts |-> 0, clean |-> TRUE]
                   ELSE [on |-> TRUE,
                         counts |-> (IF stay.on /\ stay.counts < 2 THEN stay.counts
                                     ELSE IF stay.on THEN 1 ELSE 0)
                                    + (IF mask # {} THEN 1 ELSE 0),
                         clean |-> (~stay.on \/ stay.clean) /\ late = 0
                                   /\ (fresh => p = "near")]
        /\ UNCHANGED build

LEMMA OlderFacts ==
    ASSUME NEW n \in 0..Sense!Never, NEW d \in Nat
    PROVE  /\ Sense!Older(n, d) \in 0..Sense!Never
           /\ n = Sense!Never => Sense!Older(n, d) = Sense!Never
           /\ n + d < Debounce => Sense!Older(n, d) = n + d
BY SenseConstants DEF Sense!Older

LEMMA PollFacts ==
    ASSUME SenseInv, NEW obj \in BOOLEAN, NEW p \in Sense!Pings, NEW pir \in BOOLEAN,
           NEW fresh \in BOOLEAN, NEW late \in Nat, Sense!Poll(obj, p, pir, fresh, late)
    PROVE  \E trig \in SUBSET Sensors, a \in [{"count", "pir"} -> 0..Sense!Never] :
              Decided(obj, p, fresh, late, trig, a)
<1> DEFINE a0 == IF fresh THEN Sense!Ages(1 + late) ELSE age
           u == Sense!UsStep(p, fresh \/ ~usPresent)
           pirEdge == build.pir /\ ~pirPrev /\ pir
                        /\ (age.pir = Sense!Never \/ a0.pir >= PirGuard)
           trig == (IF Sense!IrEdge(~obj) THEN {"ir"} ELSE {})
                   \cup (IF usPresent' /\ u.trigger THEN {"us"} ELSE {})
                   \cup (IF pirEdge THEN {"pir"} ELSE {})
           a == [s \in DOMAIN a0 |-> IF s \in trig THEN 0 ELSE a0[s]]
<1>1. age \in [{"count", "pir"} -> 0..Sense!Never]
  BY DEF SenseInv, SenseType
<1>2. a0 \in [{"count", "pir"} -> 0..Sense!Never]
      /\ a0.count = IF fresh THEN Sense!Older(age.count, 1 + late) ELSE age.count
  <2>1. CASE ~fresh
    BY <1>1, <2>1
  <2>2. CASE fresh
    <3>1. \A s \in {"count", "pir"} : Sense!Older(age[s], 1 + late) \in 0..Sense!Never
      <4>1. 1 + late \in Nat /\ age["count"] \in 0..Sense!Never /\ age["pir"] \in 0..Sense!Never
        BY <1>1
      <4> QED BY <4>1, OlderFacts
    <3>2. a0 = [s \in {"count", "pir"} |-> Sense!Older(age[s], 1 + late)]
      BY <1>1, <2>2 DEF Sense!Ages
    <3> QED BY <2>2, <3>1, <3>2
  <2> QED BY <2>1, <2>2
<1>3. 0 \in 0..Sense!Never
  BY SenseConstants
<1>4. trig \in SUBSET Sensors /\ "count" \notin trig
  BY DEF Sensors
<1>5. /\ "ir" \in trig <=> Sense!IrEdge(~obj)
      /\ "us" \in trig <=> usPresent' /\ u.trigger
  OBVIOUS
<1>6. a \in [{"count", "pir"} -> 0..Sense!Never] /\ a.count = a0.count
  <2> HIDE DEF a0, trig
  <2> QED BY <1>2, <1>3, <1>4
<1>7. Decided(obj, p, fresh, late, trig, a)
  <2>1. a.pir \in 0..Sense!Never
    BY <1>6
  <2>2. /\ Sense!UpdatePresence(p) /\ ping' = p
        /\ irPrev' = (IF build.ir THEN ~obj ELSE irPrev) /\ wake' = (wake /\ ~build.ir)
        /\ armed' = (IF usPresent' THEN u.armed ELSE armed)
        /\ below' = (IF usPresent' THEN u.below ELSE below)
        /\ UNCHANGED build
    BY DEF Sense!Poll
  <2>3. /\ age' = [a EXCEPT !.count = IF Sense!Decision(Fitted, trig, a) # {} THEN 0 ELSE @]
        /\ counted' = Sense!Decision(Fitted, trig, a)
        /\ stay' = IF ~obj THEN [on |-> FALSE, counts |-> 0, clean |-> TRUE]
                   ELSE [on |-> TRUE,
                         counts |-> (IF stay.on /\ stay.counts < 2 THEN stay.counts
                                     ELSE IF stay.on THEN 1 ELSE 0)
                                    + (IF Sense!Decision(Fitted, trig, a) # {} THEN 1 ELSE 0),
                         clean |-> (~stay.on \/ stay.clean) /\ late = 0
                                   /\ (fresh => p = "near")]
    BY Zenon DEF Sense!Poll, Fitted
  <2> HIDE DEF a0, u, trig, a
  <2> QED BY <1>2, <1>5, <1>6, <2>1, <2>2, <2>3 DEF Decided, u
<1> QED BY <1>4, <1>6, <1>7

(* What counts: nothing before the debounce has passed, and a beam or range *)
(* that is fitted counts only what it sees itself.                          *)
LEMMA FuseFacts ==
    ASSUME NEW trig \in SUBSET Sensors, NEW fitted \in SUBSET Sensors,
           NEW a \in [{"count", "pir"} -> 0..Sense!Never]
    PROVE  LET mask == Sense!Decision(fitted, trig, a)
           IN  /\ mask # {} => a.count = Sense!Never \/ a.count >= Debounce
               /\ mask # {} /\ fitted \cap {"ir", "us"} # {} => trig \cap fitted \cap {"ir", "us"} # {}
               /\ "ir" \in trig \cap fitted /\ a.count = Sense!Never
                    /\ ~(PirGates /\ "pir" \in fitted) => mask # {}
<1>1. a.count \in Nat
  BY SenseConstants
<1>2. Sense!Decision(fitted, trig, a) # {} => a.count = Sense!Never \/ a.count >= Debounce
  BY <1>1, SenseConstants DEF Sense!Decision
<1>3. ASSUME Sense!Decision(fitted, trig, a) # {}, fitted \cap {"ir", "us"} # {}
      PROVE  trig \cap fitted \cap {"ir", "us"} # {}
  BY <1>3, Zenon DEF Sense!Decision, Sense!Fuse
<1>4. ASSUME "ir" \in trig \cap fitted, a.count = Sense!Never,
             ~(PirGates /\ "pir" \in fitted)
      PROVE  Sense!Decision(fitted, trig, a) # {}
  <2>1. Sense!Decision(fitted, trig, a) = Sense!Fuse(fitted, trig, a)
    BY <1>4 DEF Sense!Decision
  <2>2. "ir" \in trig \cap fitted \cap {"ir", "us"} /\ "ir" \in fitted \cap {"ir", "us"}
    BY <1>4
  <2>3. "ir" \in Sense!Fuse(fitted, trig, a)
    BY <1>4, <2>2 DEF Sense!Fuse
  <2> QED BY <2>1, <2>3
<1> QED BY <1>2, <1>3, <1>4

LEMMA SenseInit == Sense!Init => SenseInv
<1> SUFFICES ASSUME Sense!Init PROVE SenseInv
  OBVIOUS
<1> USE DEF Sense!Init
<1>1. SenseType
  BY SenseConstants DEF SenseType, Stays, Sense!Pings
<1>2. Beam /\ Unfound
  BY SenseConstants DEF Beam, Unfound
<1>3. Once
  BY DEF Once
<1> QED BY <1>1, <1>2, <1>3 DEF SenseInv

-----------------------------------------------------------------------------
(* The range, on a turn.                                                    *)

LEMMA PendingRange ==
    ASSUME NEW m \in Nat \ {0}, NEW n \in Nat \ {0}
    PROVE  /\ \A b \in 0..(m - 1) : m - b \in 1..(n + m - 1)
           /\ \A v \in Nat : v < n => n - v + m - 1 \in 1..(n + m - 1)
OBVIOUS

LEMMA PendingInTime ==
    \A m, n \in Nat : m <= Promote + UsPolls - 1
        => /\ 0 + m < Debounce
           /\ n <= m - 1 => 1 + n < Debounce
BY SenseConstants

LEMMA PendingBounds ==
    SenseType /\ Unfound => Pending \in 1..(Promote + UsPolls - 1)
<1> SUFFICES ASSUME SenseType, Unfound PROVE Pending \in 1..(Promote + UsPolls - 1)
  OBVIOUS
<1>1. valid \in Nat /\ below \in 0..(UsPolls - 1)
  BY DEF SenseType
<1>2. CASE usPresent
  BY <1>1, <1>2, SenseConstants DEF Pending
<1>3. CASE ~usPresent
  BY <1>1, <1>3, SenseConstants DEF Pending, Unfound
<1> QED BY <1>2, <1>3

LEMMA PresenceFacts ==
    ASSUME SenseType, Unfound, NEW p \in Sense!Pings, Sense!UpdatePresence(p)
    PROVE  /\ usPresent' \in BOOLEAN /\ valid' \in Nat /\ invalid' \in Nat
           /\ usPresent => usPresent'
           /\ ~usPresent' => valid' < Promote
           /\ ~usPresent /\ p = "near" => valid' = valid + 1
<1> USE DEF Sense!UpdatePresence, SenseType, Unfound
<1>1. CASE usPresent
  BY <1>1
<1>2. CASE ~usPresent /\ p # "none"
  <2>1. valid' = valid + 1 /\ invalid' = 0
    BY <1>2
  <2>2. usPresent' = (valid + 1 >= Promote)
    BY <1>2
  <2>3. usPresent' \in BOOLEAN /\ (~usPresent' => valid + 1 < Promote)
    <3>1. CASE valid + 1 >= Promote
      BY <2>2, <3>1
    <3>2. CASE ~(valid + 1 >= Promote)
      BY <2>2, <3>2, SenseConstants
    <3> QED BY <3>1, <3>2
  <2> QED BY <1>2, <2>1, <2>3
<1>3. CASE ~usPresent /\ p = "none"
  <2>1. CASE valid > 0 /\ invalid + 1 >= Demote
    BY <1>3, <2>1, SenseConstants
  <2>2. CASE ~(valid > 0 /\ invalid + 1 >= Demote)
    BY <1>3, <2>2, SenseConstants
  <2> QED BY <2>1, <2>2
<1> QED BY <1>1, <1>2, <1>3

LEMMA UsStepFacts ==
    ASSUME SenseType, NEW p \in Sense!Pings, NEW fresh \in BOOLEAN
    PROVE  LET u == Sense!UsStep(p, fresh)
           IN  /\ u.armed \in BOOLEAN /\ u.trigger \in BOOLEAN /\ u.below \in 0..(UsPolls - 1)
               /\ ~armed /\ p = "near" => ~u.armed /\ ~u.trigger
               /\ armed /\ p = "near" /\ fresh => ~u.armed \/ u.below = below + 1
               /\ armed /\ ~fresh => u.armed /\ u.below = below
<1> USE DEF Sense!UsStep, Sense!ZoneClear, SenseType
<1>1. CASE ~armed
  <2>1. 0 \in 0..(UsPolls - 1)
    BY SenseConstants
  <2>2. (p # "near") \in BOOLEAN
    OBVIOUS
  <2> QED BY <1>1, <2>1, <2>2
<1>2. CASE armed /\ ~fresh
  BY <1>2
<1>3. CASE armed /\ fresh /\ p # "near"
  BY <1>3, SenseConstants
<1>4. CASE armed /\ fresh /\ p = "near" /\ below + 1 >= UsPolls
  BY <1>4, SenseConstants
<1>5. CASE armed /\ fresh /\ p = "near" /\ ~(below + 1 >= UsPolls)
  BY <1>5, SenseConstants
<1> QED BY <1>1, <1>2, <1>3, <1>4, <1>5

LEMMA RangeStep ==
    ASSUME SenseType, Unfound, NEW obj \in BOOLEAN, NEW p \in Sense!Pings,
           NEW fresh \in BOOLEAN, NEW late \in Nat, NEW trig, NEW a,
           Decided(obj, p, fresh, late, trig, a)
    PROVE  /\ usPresent' \in BOOLEAN /\ valid' \in Nat /\ invalid' \in Nat
           /\ armed' \in BOOLEAN /\ below' \in 0..(UsPolls - 1)
           /\ Unfound'
           /\ Pending' \in 1..(Promote + UsPolls - 1)
           /\ p = "near" /\ (fresh \/ ping = p)
                => Passed' \/ Pending' <= Pending - (IF fresh THEN 1 ELSE 0)
           /\ p = "near" /\ Passed => Passed' /\ "us" \notin trig
<1> DEFINE u == Sense!UsStep(p, fresh \/ ~usPresent)
<1>0. SenseType /\ (fresh \/ ~usPresent) \in BOOLEAN
      /\ usPresent \in BOOLEAN /\ armed \in BOOLEAN /\ below \in 0..(UsPolls - 1) /\ valid \in Nat
  BY DEF SenseType
<1>1. /\ usPresent' \in BOOLEAN /\ valid' \in Nat /\ invalid' \in Nat
      /\ usPresent => usPresent'
      /\ ~usPresent' => valid' < Promote
      /\ ~usPresent /\ p = "near" => valid' = valid + 1
  <2>1. Sense!UpdatePresence(p)
    BY DEF Decided
  <2> QED BY <2>1, PresenceFacts
<1>2. /\ u.armed \in BOOLEAN /\ u.trigger \in BOOLEAN /\ u.below \in 0..(UsPolls - 1)
      /\ ~armed /\ p = "near" => ~u.armed /\ ~u.trigger
      /\ armed /\ p = "near" /\ (fresh \/ ~usPresent) => ~u.armed \/ u.below = below + 1
      /\ armed /\ ~(fresh \/ ~usPresent) => u.armed /\ u.below = below
  BY <1>0, UsStepFacts
<1>3. /\ armed' = (IF usPresent' THEN u.armed ELSE armed)
      /\ below' = (IF usPresent' THEN u.below ELSE below)
      /\ ping' = p
      /\ "us" \in trig <=> usPresent' /\ u.trigger
  BY DEF Decided
<1> HIDE DEF u
<1>4. armed' \in BOOLEAN /\ below' \in 0..(UsPolls - 1)
  BY <1>0, <1>1, <1>2, <1>3
<1>5. Unfound'
  BY <1>1, <1>3 DEF Unfound
<1>6. Pending' \in 1..(Promote + UsPolls - 1)
  <2>1. CASE usPresent'
    <3>1. Pending' = UsPolls - below'
      BY <2>1 DEF Pending
    <3>2. UsPolls - below' \in 1..(Promote + UsPolls - 1)
      BY <1>4, SenseConstants, PendingRange
    <3> QED BY <3>1, <3>2
  <2>2. CASE ~usPresent'
    <3>1. Pending' = Promote - valid' + UsPolls - 1 /\ valid' < Promote
      BY <1>1, <2>2 DEF Pending
    <3>2. Promote - valid' + UsPolls - 1 \in 1..(Promote + UsPolls - 1)
      BY <1>1, <3>1, SenseConstants, PendingRange
    <3> QED BY <3>1, <3>2
  <2> QED BY <1>1, <2>1, <2>2
<1>7. ASSUME p = "near", fresh \/ ping = p
      PROVE  Passed' \/ Pending' <= Pending - (IF fresh THEN 1 ELSE 0)
  <2>1. CASE usPresent /\ ~armed
    BY <1>1, <1>2, <1>3, <1>7, <2>1 DEF Passed
  <2>2. CASE usPresent /\ armed /\ fresh
    <3>1. usPresent' /\ (Passed' \/ below' = below + 1)
      BY <1>1, <1>2, <1>3, <1>7, <2>2 DEF Passed
    <3> QED BY <1>0, <2>2, <3>1, SenseConstants DEF Pending
  <2>3. CASE usPresent /\ armed /\ ~fresh
    <3>1. usPresent' /\ below' = below
      BY <1>1, <1>2, <1>3, <2>3
    <3> QED BY <1>0, <2>3, <3>1, SenseConstants DEF Pending
  <2>4. CASE ~usPresent /\ ~usPresent'
    <3>1. valid' = valid + 1
      BY <1>1, <1>7, <2>4
    <3>2. Pending' = Promote - (valid + 1) + UsPolls - 1 /\ Pending = Promote - valid + UsPolls - 1
      BY <2>4, <3>1 DEF Pending
    <3> QED BY <1>0, <3>2, SenseConstants
  <2>5. CASE ~usPresent /\ usPresent'
    <3>1. armed /\ below = 0 /\ valid < Promote
      BY <2>5 DEF Unfound
    <3>2. Passed' \/ below' = 1
      BY <1>0, <1>2, <1>3, <1>7, <2>5, <3>1 DEF Passed
    <3>3. Pending = Promote - valid + UsPolls - 1 /\ Pending' = UsPolls - below'
      BY <2>5 DEF Pending
    <3> QED BY <1>0, <3>1, <3>2, <3>3, SenseConstants
  <2> QED BY <1>0, <1>1, <2>1, <2>2, <2>3, <2>4, <2>5
<1>8. ASSUME p = "near", Passed
      PROVE  Passed' /\ "us" \notin trig
  BY <1>1, <1>2, <1>3, <1>8 DEF Passed
<1> QED BY <1>1, <1>4, <1>5, <1>6, <1>7, <1>8

-----------------------------------------------------------------------------
(* A turn keeps the invariant.                                              *)

(* A second turn with the same object: the sensors that have not seen it yet *)
(* see it before the debounce has passed, and those that have see no edge.   *)
LEMMA SameStay ==
    ASSUME SenseInv, NEW p \in Sense!Pings, NEW fresh \in BOOLEAN, fresh \/ p = ping,
           fresh => p = "near",
           NEW trig \in SUBSET Sensors, NEW a \in [{"count", "pir"} -> 0..Sense!Never],
           Decided(TRUE, p, fresh, 0, trig, a),
           stay.on, stay.clean, stay.counts # 0
    PROVE  Sense!Decision(Fitted, trig, a) = {} /\ Answered'
<1>1. stay.counts = 1 /\ Answered
  BY DEF SenseInv, Once
<1>2. /\ SenseType /\ Unfound /\ Pending \in 1..(Promote + UsPolls - 1)
      /\ age.count \in 0..Sense!Never
  BY PendingBounds DEF SenseInv, SenseType
<1>3. /\ Pending' \in 1..(Promote + UsPolls - 1)
      /\ p = "near" => Passed' \/ Pending' <= Pending - (IF fresh THEN 1 ELSE 0)
      /\ p = "near" /\ Passed => Passed' /\ "us" \notin trig
  BY <1>2, RangeStep
<1>4. /\ a.count = IF fresh THEN Sense!Older(age.count, 1) ELSE age.count
      /\ ping' = p
      /\ age' = [a EXCEPT !.count = IF Sense!Decision(Fitted, trig, a) # {} THEN 0 ELSE @]
  BY DEF Decided
<1>5. /\ Sense!Decision(Fitted, trig, a) # {} => a.count = Sense!Never \/ a.count >= Debounce
      /\ Sense!Decision(Fitted, trig, a) # {} /\ Fitted \cap {"ir", "us"} # {}
           => trig \cap Fitted \cap {"ir", "us"} # {}
  <2>1. Fitted \in SUBSET Sensors
    BY DEF Fitted, Sensors
  <2> QED BY <2>1, FuseFacts
<1>6. Sense!Decision(Fitted, trig, a) = {} => age'.count = a.count
  BY <1>4
<1>7. CASE Passed
  <2>1. p = "near"
    BY <1>7 DEF Passed
  <2>2. "us" \notin trig /\ Passed'
    BY <1>3, <1>7, <2>1
  <2>3. "us" \in Fitted
    BY <2>2 DEF Passed, Fitted
  <2>4. "ir" \notin trig \cap Fitted
    BY DEF SenseInv, Beam, Decided, Sense!IrEdge, Fitted
  <2> QED BY <1>5, <2>2, <2>3, <2>4 DEF Answered
<1>8. ASSUME ~Passed
      PROVE  /\ a.count = age.count + (IF fresh THEN 1 ELSE 0)
             /\ a.count < Debounce /\ Sense!Decision(Fitted, trig, a) = {}
             /\ age'.count = a.count
  <2>1. age.count + (IF fresh THEN 1 ELSE 0) < Debounce
    BY <1>1, <1>2, <1>8, SenseConstants DEF Answered
  <2>2. a.count = age.count + (IF fresh THEN 1 ELSE 0)
    <3>1. CASE fresh
      <4>1. age.count + 1 < Debounce
        BY <2>1, <3>1
      <4>2. Sense!Older(age.count, 1) = age.count + 1
        BY <1>2, <4>1, OlderFacts
      <4> QED BY <1>4, <3>1, <4>2
    <3>2. CASE ~fresh
      BY <1>2, <1>4, <3>2
    <3> QED BY <3>1, <3>2
  <2>3. a.count < Debounce /\ a.count # Sense!Never /\ ~(a.count >= Debounce)
    BY <1>2, <2>1, <2>2, SenseConstants
  <2> QED BY <1>5, <1>6, <2>2, <2>3
<1>9. CASE ~Passed /\ ping # "near"
  <2>1. age.count = 0
    BY <1>1, <1>9 DEF Answered
  <2>2. CASE fresh
    <3>1. p = "near" /\ age'.count = 1
      BY <1>8, <1>9, <2>1, <2>2
    <3>2. Passed' \/ age'.count + Pending' < Debounce
      <4>1. Passed' \/ Pending' <= Pending - 1
        BY <1>3, <2>2, <3>1
      <4>2. Pending <= Promote + UsPolls - 1 /\ Pending \in Nat /\ Pending' \in Nat
        BY <1>2, <1>3, SenseConstants
      <4>3. Passed' \/ 1 + Pending' < Debounce
        BY <4>1, <4>2, PendingInTime
      <4> QED BY <3>1, <4>3
    <3> QED BY <1>4, <1>8, <1>9, <3>1, <3>2 DEF Answered
  <2>3. CASE ~fresh
    <3>1. p # "near" /\ age'.count = 0
      BY <1>8, <1>9, <2>1, <2>3
    <3> QED BY <1>4, <1>8, <1>9, <3>1 DEF Answered
  <2> QED BY <2>2, <2>3
<1>10. CASE ~Passed /\ ping = "near"
  <2>1. p = "near"
    BY <1>10
  <2>2. age.count + Pending < Debounce
    BY <1>1, <1>10 DEF Answered
  <2>3. age'.count = age.count + (IF fresh THEN 1 ELSE 0)
    BY <1>8, <1>10
  <2>4. Passed' \/ age'.count + Pending' < Debounce
    BY <1>2, <1>3, <2>1, <2>2, <2>3, SenseConstants
  <2> QED BY <1>4, <1>8, <1>10, <2>1, <2>4 DEF Answered
<1> QED BY <1>7, <1>9, <1>10

LEMMA SenseTurn ==
    ASSUME SenseInv, NEW obj \in BOOLEAN, NEW p \in Sense!Pings,
           NEW fresh \in BOOLEAN, NEW late \in Nat, fresh \/ p = ping,
           NEW trig \in SUBSET Sensors, NEW a \in [{"count", "pir"} -> 0..Sense!Never],
           Decided(obj, p, fresh, late, trig, a)
    PROVE  SenseInv'
<1> DEFINE mask == Sense!Decision(Fitted, trig, a)
           was == IF stay.on /\ stay.counts < 2 THEN stay.counts
                  ELSE IF stay.on THEN 1 ELSE 0
<1>1. SenseType /\ Unfound /\ Beam
  BY DEF SenseInv
<1>2. /\ usPresent' \in BOOLEAN /\ valid' \in Nat /\ invalid' \in Nat
      /\ armed' \in BOOLEAN /\ below' \in 0..(UsPolls - 1)
      /\ Unfound' /\ Pending' \in 1..(Promote + UsPolls - 1)
  BY <1>1, RangeStep
<1>3. /\ ping' = p /\ irPrev' = (IF build.ir THEN ~obj ELSE irPrev)
      /\ wake' = (wake /\ ~build.ir) /\ build' = build
      /\ age' = [a EXCEPT !.count = IF mask # {} THEN 0 ELSE @]
  BY DEF Decided
<1>4. stay' = IF ~obj THEN [on |-> FALSE, counts |-> 0, clean |-> TRUE]
              ELSE [on |-> TRUE, counts |-> was + (IF mask # {} THEN 1 ELSE 0),
                    clean |-> (~stay.on \/ stay.clean) /\ late = 0 /\ (fresh => p = "near")]
  BY Zenon DEF Decided
<1> HIDE DEF mask
<1>5. was \in {0, 1}
  BY <1>1 DEF SenseType, Stays
<1>6. stay'.on = obj
  BY <1>4
<1>7. stay' \in Stays
  <2>1. was + (IF mask # {} THEN 1 ELSE 0) \in 0..2
    BY <1>5
  <2>2. ((~stay.on \/ stay.clean) /\ late = 0 /\ (fresh => p = "near")) \in BOOLEAN
    OBVIOUS
  <2> HIDE DEF was
  <2> QED BY <1>4, <2>1, <2>2 DEF Stays
<1>8. SenseType'
  <2>1. age' \in [{"count", "pir"} -> 0..Sense!Never]
    BY <1>3, SenseConstants
  <2>2. irPrev' \in BOOLEAN /\ wake' \in BOOLEAN
    <3>1. CASE build.ir
      BY <1>3, <3>1
    <3>2. CASE ~build.ir
      BY <1>1, <1>3, <3>2 DEF SenseType
    <3> QED BY <3>1, <3>2
  <2>3. build' \in [ir : BOOLEAN, pir : BOOLEAN]
    BY <1>1, <1>3 DEF SenseType
  <2> QED BY <1>2, <1>3, <1>7, <2>1, <2>2, <2>3 DEF SenseType
<1>9. Beam'
  <2>1. ~wake'
    BY <1>1, <1>3 DEF Beam
  <2>2. build'.ir => irPrev' = ~stay'.on
    BY <1>3, <1>6
  <2> QED BY <2>1, <2>2 DEF Beam
<1>10. Once'
  <2> SUFFICES ASSUME stay'.on, stay'.clean, stay'.counts # 0
               PROVE  stay'.counts = 1 /\ Answered'
    BY DEF Once
  <2>1. obj = TRUE
    BY <1>6
  <2>2. /\ stay'.counts = was + (IF mask # {} THEN 1 ELSE 0)
        /\ ~stay.on \/ stay.clean
        /\ late = 0 /\ (fresh => p = "near")
    <3> HIDE DEF was
    <3> QED BY <1>4, <2>1
  <2>3. CASE stay.on /\ stay.counts # 0
    <3>1. stay.counts = 1 /\ stay.clean
      BY <2>2, <2>3 DEF SenseInv, Once
    <3>2. mask = {} /\ Answered'
      BY <2>1, <2>2, <2>3, <3>1, SameStay DEF mask
    <3>3. was = 1
      BY <2>3, <3>1
    <3> QED BY <2>2, <3>2, <3>3
  <2>4. CASE ~(stay.on /\ stay.counts # 0)
    <3>1. was = 0
      BY <2>4
    <3>2. mask # {} /\ stay'.counts = 1
      BY <2>2, <3>1
    <3>3. age'.count = 0
      BY <1>3, <3>2
    <3>4. age'.count + Pending' < Debounce
      <4>1. Pending' \in Nat /\ Pending' <= Promote + UsPolls - 1
        BY <1>2, SenseConstants
      <4>2. 0 + Pending' < Debounce
        BY <4>1, PendingInTime
      <4> QED BY <3>3, <4>2
    <3> QED BY <3>2, <3>3, <3>4 DEF Answered
  <2> QED BY <2>3, <2>4
<1> QED BY <1>2, <1>8, <1>9, <1>10 DEF SenseInv

(* The object that woke the board is the first one its beam has seen.       *)
LEMMA WakeTurn ==
    ASSUME SenseInv, NEW obj \in BOOLEAN, NEW p \in Sense!Pings,
           NEW fresh \in BOOLEAN, NEW late \in Nat,
           NEW trig \in SUBSET Sensors, NEW a \in [{"count", "pir"} -> 0..Sense!Never],
           Decided(obj, p, fresh, late, trig, a),
           wake, ~(PirGates /\ build.pir)
    PROVE  counted' # {}
<1>1. build.ir /\ age.count = Sense!Never
  BY DEF SenseInv, Beam
<1>2. "ir" \in trig
  BY <1>1 DEF Decided, Sense!IrEdge
<1>3. Fitted \in SUBSET Sensors /\ "ir" \in Fitted /\ ("pir" \in Fitted => build.pir)
  BY <1>1 DEF Fitted, Sensors
<1>4. a.count = Sense!Never
  <2>1. a.count = IF fresh THEN Sense!Older(age.count, 1 + late) ELSE age.count
    BY DEF Decided
  <2>2. Sense!Older(age.count, 1 + late) = Sense!Never
    BY <1>1 DEF Sense!Older
  <2> QED BY <1>1, <2>1, <2>2
<1>5. Sense!Decision(Fitted, trig, a) # {}
  BY <1>2, <1>3, <1>4, FuseFacts
<1> QED BY <1>5 DEF Decided

LEMMA SenseStep ==
    ASSUME SenseInv, Sense!Next
    PROVE  SenseInv' /\ (wake /\ ~wake' /\ ~(PirGates /\ build.pir) => counted' # {})
<1>1. \E obj, pir \in BOOLEAN, p \in Sense!Pings, fresh \in BOOLEAN, late \in Nat :
         Sense!Poll(obj, p, pir, fresh, late) /\ (fresh \/ p = ping)
  <2>1. CASE Sense!PollCached
    <3>1. ping \in Sense!Pings /\ 0 \in Nat /\ FALSE \in BOOLEAN
      BY DEF SenseInv, SenseType
    <3> QED BY <2>1, <3>1, Zenon DEF Sense!PollCached
  <2>2. CASE Sense!PollFresh
    <3>1. 0 \in Nat /\ TRUE \in BOOLEAN
      OBVIOUS
    <3> QED BY <2>2, <3>1, Zenon DEF Sense!PollFresh
  <2>3. CASE Sense!PollBlocked
    <3>1. Debounce \in Nat /\ TRUE \in BOOLEAN
      BY SenseConstants
    <3> QED BY <2>3, <3>1, Zenon DEF Sense!PollBlocked
  <2> QED BY <2>1, <2>2, <2>3 DEF Sense!Next
<1>2. PICK obj \in BOOLEAN, pir \in BOOLEAN, p \in Sense!Pings, fresh \in BOOLEAN, late \in Nat :
         Sense!Poll(obj, p, pir, fresh, late) /\ (fresh \/ p = ping)
  BY <1>1, Zenon
<1>3. PICK trig \in SUBSET Sensors, a \in [{"count", "pir"} -> 0..Sense!Never] :
         Decided(obj, p, fresh, late, trig, a)
  BY <1>2, PollFacts
<1>4. SenseInv'
  BY <1>2, <1>3, SenseTurn
<1>5. wake /\ ~(PirGates /\ build.pir) => counted' # {}
  BY <1>2, <1>3, WakeTurn
<1> QED BY <1>4, <1>5

LEMMA SenseUnchanged == SenseInv /\ UNCHANGED senseVars => SenseInv'
BY DEF SenseInv, SenseType, Stays, Beam, Unfound, Once, Answered, Passed, Pending,
       senseVars, Sense!Pings, Sense!Never

-----------------------------------------------------------------------------
(* In the run of the kiosk.                                                 *)

LEMMA KioskStep ==
    ASSUME SenseInv, [KNext]_kvars
    PROVE  SenseInv' /\ (wake /\ ~wake' /\ ~(PirGates /\ build.pir) => counted' # {})
<1>1. CASE Sense!Next
  BY <1>1, SenseStep
<1>2. CASE UNCHANGED senseVars
  <2>1. wake' = wake
    BY <1>2 DEF senseVars
  <2> QED BY <1>2, <2>1, SenseUnchanged
<1> QED BY <1>1, <1>2 DEF KNext, kvars

(* In every reachable state of the kiosk, whichever part of it moves, the   *)
(* detection has its invariant.                                             *)
THEOREM SenseInvariant == KSpec => []SenseInv
<1>1. KInit => SenseInv
  BY SenseInit DEF KInit
<1>2. SenseInv /\ [KNext]_kvars => SenseInv'
  BY KioskStep
<1> QED BY <1>1, <1>2, PTL DEF KSpec

(* An object that stays before the machine counts for one, whichever of the *)
(* sensors see it and in which order, unless an echo is missed or the loop  *)
(* is blocked meanwhile; and the object that woke the board is counted      *)
(* (PglDetection::poll, pglFuseDetection).                                  *)
THEOREM ObjectCounted == KSpec => ObjectCountsOnce
<1>1. SenseInv => Sense!StayCountsOnce
  BY DEF SenseInv, SenseType, Stays, Once, Sense!StayCountsOnce
<1>2. SenseInv /\ [KNext]_kvars
        => [wake /\ ~wake' /\ ~(PirGates /\ build.pir) => counted' # {}]_(Sense!svars)
  BY KioskStep
<1>3. SenseInv => (part = "sense" => Sense!StayCountsOnce)
  BY <1>1
<1> QED BY <1>2, <1>3, SenseInvariant, PTL DEF KSpec, ObjectCountsOnce, Sense!WakeCounted

-----------------------------------------------------------------------------
(* The bottles.  What a reset would read is Settled, the disk once the      *)
(* writes under way are done.                                               *)

Ev == [id : Nat, bottle : Nat]
HalfRecs == [e : Ev, half : 1..2]
Files == Seq(HalfRecs)
Rings == [0..RingSize-1 -> Ev]
Disks == [woff : Nat, aoff : Nat, total : Nat, nextId : Nat, synced : Nat,
          head : 0..RingSize-1, size : 0..RingSize, ring : Rings,
          file : Files, bak : Files, tmp : Files]
Rams == [woff : Nat, aoff : Nat, sdOk : BOOLEAN, mounted : BOOLEAN,
         total : Nat, nextId : Nat, synced : Nat,
         head : 0..RingSize-1, size : 0..RingSize, ring : Rings,
         dirty : BOOLEAN, totalsDirty : BOOLEAN, since : Nat]

(* The events an upload would send from the journal, those of the ring, and *)
(* the bottles and ids of a set of events.                                  *)
Events(f, from, to) == [i \in DOMAIN Slots(f, from, to) |-> Slots(f, from, to)[i].e]
Pend == Events(Settled.file, ram.aoff, ram.woff)
Queued == Range(Ring(ram))
Bottles(evs) == {e.bottle : e \in evs}
Ids(evs) == {e.id : e \in evs}

IsWrites(ws) == ws \in Seq(Range(ws))

BottleType ==
    /\ disk = [x \in DOMAIN disk |-> disk[x]] /\ IsWrites(todo)
    /\ Settled \in Disks /\ ram \in Rams /\ seen \in Nat
    /\ stored \subseteq Ev /\ Bottles(stored) \subseteq received
    /\ received \subseteq 0..seen
    /\ \A i \in 0..(RingSize - 1) : ram.ring[i].bottle <= seen /\ Settled.ring[i].bottle <= seen

(* What a reset would read is what RAM holds, but the ids and totals since  *)
(* the last persistTotals and the ring since the last persist.              *)
Agree ==
    /\ Settled.woff = ram.woff /\ Settled.aoff = ram.aoff /\ Settled.synced = ram.synced
    /\ Settled.nextId <= ram.nextId
    /\ ~ram.dirty => /\ Settled.head = ram.head /\ Settled.size = ram.size
                     /\ Settled.ring = ram.ring

(* The journal: full records up to the write cursor unless one was written  *)
(* short, its halves in the order of the bottles.                           *)
Whole(f, to) == to = Len(f) /\ \A o \in 0..(to - 1) : o % 2 = 0 => Readable(f, o)
OrderedUpTo(f, n) ==
    /\ \A a \in 1..Len(f) : f[a].e.bottle <= n
    /\ \A a, b \in 1..Len(f) : a < b =>
          \/ f[a].e.bottle < f[b].e.bottle
          \/ f[a].e.bottle = f[b].e.bottle /\ f[a].half < f[b].half
Shape ==
    /\ ram.aoff % 2 = 0 /\ ram.woff % 2 = 0
    /\ ram.aoff <= ram.woff /\ ram.woff <= Len(Settled.file)
    /\ ram.aoff > 0 => ram.synced > 0
    /\ OrderedUpTo(Settled.file, seen)
    /\ "short" \notin faults => Whole(Settled.file, ram.woff)

(* As long as no id was given twice, an event's id is its bottle and the    *)
(* server stores all it receives.                                           *)
Sound ==
    /\ ram.nextId = seen + 1
    /\ \A a \in 1..Len(Settled.file) : Settled.file[a].e.id = Settled.file[a].e.bottle
    /\ \A i \in 0..(RingSize - 1) : /\ ram.ring[i].id = ram.ring[i].bottle
                                    /\ Settled.ring[i].id = Settled.ring[i].bottle
    /\ \A e \in stored : e.id = e.bottle
    /\ received = Bottles(stored)

Kept == 1..seen \subseteq received \cup Bottles(Range(Pend) \cup Queued)

(* What reconcileTotals finds when it reads all the cursors promise. *)
Count == ram.synced + (ram.woff - ram.aoff) \div 2 + ram.size

CountBounded ==
    /\ ram.total = seen /\ Settled.total + 1 = Settled.nextId /\ Count <= seen

(* When an id may have been given twice: a bottle has one id (in what waits *)
(* and in what is stored), a bottle posted that waits again has its id      *)
(* stored, and the server stores an id once.                                *)
Linked(w, st, rc) ==
    /\ \A x, y \in w \cup st : x.bottle = y.bottle => x.id = y.id
    /\ \A x \in w : x.bottle \in rc => x.id \in Ids(st)
    /\ \A x, y \in st : x.id = y.id => x = y

(* Every id from the next one (in RAM, on disk) to one that waits is itself *)
(* stored or waiting: ids given again are the ids of events known.          *)
Filled(p, st, nx, snx) ==
    /\ \A i \in DOMAIN p : \A n \in nx..p[i].id : n \in Ids(st) \cup Ids(Range(p))
    /\ \A n \in snx..(nx - 1) : n \in Ids(st) \cup Ids(Range(p))

(* Hence where the pending ids do not rise, one of them belongs to another  *)
(* bottle too, and one of the two will be posted and not stored.            *)
Doubled(p, st, j) ==
    \/ \E s \in st : s.id = p[j].id /\ s.bottle # p[j].bottle
    \/ \E h \in 1..(j - 1) : p[h].id = p[j].id
Rising(p, st) == \A j \in DOMAIN p : \A i \in 1..(j - 1) : p[j].id <= p[i].id => Doubled(p, st, j)

Stored == received = Bottles(stored)
CountExact ==
    /\ Count = seen
    /\ ram.total <= seen /\ Settled.total <= seen
    /\ ram.mounted => ram.total = seen

Core ==
    /\ BottleType /\ Agree /\ Shape
    /\ "id" \notin faults => Sound
    /\ faults \cap {"ring", "short", "overwritten"} = {} => Kept
    /\ faults \subseteq {"refused", "overwritten", "short"} => CountBounded
    /\ faults \subseteq {"refused", "id"} =>
          /\ Linked(Range(Pend) \cup Queued, stored, received)
          /\ Filled(Pend, stored, ram.nextId, Settled.nextId)
          /\ Stored => Rising(Pend, stored) /\ CountExact

(* A reset inside a handler leaves its writes half done: BottlesExact       *)
(* promises nothing after one.                                              *)
BottleInv == "cut" \in faults \/ Core

-----------------------------------------------------------------------------
(* Extremes of a set, and the writes a handler queues. *)

LEMMA MinOf ==
    ASSUME NEW S \in SUBSET Nat, S # {}
    PROVE  Min(S) \in S /\ \A y \in S : Min(S) <= y
<1>1. PICK m \in S : \A n \in S : <<n, m>> \notin OpToRel(<, Nat)
  BY NatLessThanWellFounded, WFMin, Zenon
<1>2. \A n \in S : ~(n < m)
  BY <1>1 DEF OpToRel
<1>3. \A n \in S : m <= n
  BY <1>2
<1>. QED  BY <1>3 DEF Min

LEMMA MaxOf ==
    ASSUME NEW n \in Nat, NEW S \in SUBSET (1..n), S # {}
    PROVE  Max(S) \in S /\ \A y \in S : y <= Max(S)
<1>. DEFINE T == {n - x : x \in S}
<1>1. T \in SUBSET Nat /\ T # {}
  <2>1. \A x \in S : n - x \in Nat
    OBVIOUS
  <2>. QED  BY <2>1
<1>2. PICK x \in S : n - x = Min(T)
  <2>. HIDE DEF T
  <2>1. Min(T) \in T
    BY <1>1, MinOf
  <2>. QED  BY <2>1 DEF T
<1>3. \A y \in S : y <= x
  <2>1. \A y \in T : Min(T) <= y
    <3>. HIDE DEF T
    <3>. QED  BY <1>1, MinOf
  <2>2. ASSUME NEW y \in S PROVE y <= x
    <3>1. n - y \in T
      OBVIOUS
    <3>2. n - x <= n - y
      BY <3>1, <2>1, <1>2
    <3>. QED  BY <3>2
  <2>. QED  BY <2>2
<1>. QED  BY <1>2, <1>3 DEF Max

-----------------------------------------------------------------------------
(* Durable writes *)

Touching(ws, x) == {i \in DOMAIN ws : x \in DOMAIN ws[i]}

LEMMA WriteAllField ==
    ASSUME NEW d, NEW ws, NEW x \in DOMAIN d
    PROVE  WriteAll(d, ws)[x] = IF Touching(ws, x) = {} THEN d[x]
                                ELSE ws[Max(Touching(ws, x))][x]
BY DEF WriteAll, Touching

LEMMA WriteAllDomain ==
    ASSUME NEW d, NEW ws
    PROVE  DOMAIN WriteAll(d, ws) = DOMAIN d
BY DEF WriteAll

LEMMA WriteAllNone ==
    ASSUME NEW d, d = [x \in DOMAIN d |-> d[x]]
    PROVE  WriteAll(d, <<>>) = d
<1>. SUFFICES \A x \in DOMAIN d : WriteAll(d, <<>>)[x] = d[x]
  BY WriteAllDomain DEF WriteAll
<1>. TAKE x \in DOMAIN d
<1>1. Touching(<<>>, x) = {}
  BY DEF Touching
<1>. QED  BY <1>1, WriteAllField

LEMMA WriteAllOne ==
    ASSUME NEW d, NEW w
    PROVE  WriteAll(d, <<w>>) = Write(d, w)
<1>1. ASSUME NEW x \in DOMAIN d
      PROVE  WriteAll(d, <<w>>)[x] = Write(d, w)[x]
  <2>1. CASE x \in DOMAIN w
    <3>1. Touching(<<w>>, x) = {1}
      BY <2>1 DEF Touching
    <3>2. Max({1}) = 1
      <4>1. {1} \in SUBSET (1..1) /\ {1} # {}
        OBVIOUS
      <4>2. Max({1}) \in {1}
        BY <4>1, MaxOf
      <4>. QED  BY <4>2
    <3>3. WriteAll(d, <<w>>)[x] = <<w>>[1][x]
      BY <3>1, <3>2, WriteAllField
    <3>. QED  BY <3>3, <2>1 DEF Write
  <2>2. CASE x \notin DOMAIN w
    <3>1. Touching(<<w>>, x) = {}
      BY <2>2 DEF Touching
    <3>. QED  BY <3>1, <2>2, WriteAllField DEF Write
  <2>. QED  BY <2>1, <2>2
<1>. QED  BY <1>1 DEF WriteAll, Write

LEMMA WriteAllTwo ==
    ASSUME NEW d, NEW U, NEW u \in Seq(U), NEW V, NEW v \in Seq(V)
    PROVE  WriteAll(d, u \o v) = WriteAll(WriteAll(d, u), v)
<1>. DEFINE c == WriteAll(d, u)
            ws == u \o v
<1>0. /\ Len(u) \in Nat /\ Len(v) \in Nat /\ DOMAIN u = 1..Len(u) /\ DOMAIN v = 1..Len(v)
      /\ DOMAIN ws = 1..(Len(u) + Len(v))
      /\ \A i \in 1..Len(u) : ws[i] = u[i]
      /\ \A i \in 1..Len(v) : ws[Len(u) + i] = v[i]
  <2>1. u \in Seq(U \cup V) /\ v \in Seq(U \cup V)
    OBVIOUS
  <2>. QED  BY <2>1
<1>1. ASSUME NEW x \in DOMAIN d
      PROVE  WriteAll(d, ws)[x] = WriteAll(c, v)[x]
  <2>. DEFINE tu == Touching(u, x)
              tv == Touching(v, x)
              tw == Touching(ws, x)
  <2>0. /\ tu \in SUBSET (1..Len(u)) /\ tv \in SUBSET (1..Len(v))
        /\ tw \in SUBSET (1..(Len(u) + Len(v)))
        /\ \A i \in 1..Len(u) : i \in tu <=> i \in tw
        /\ \A i \in 1..Len(v) : i \in tv <=> Len(u) + i \in tw
    BY <1>0 DEF Touching
  <2>1. x \in DOMAIN c
    BY WriteAllDomain
  <2>2. /\ WriteAll(d, ws)[x] = IF tw = {} THEN d[x] ELSE ws[Max(tw)][x]
        /\ WriteAll(c, v)[x] = IF tv = {} THEN c[x] ELSE v[Max(tv)][x]
        /\ c[x] = IF tu = {} THEN d[x] ELSE u[Max(tu)][x]
    BY <2>1, WriteAllField
  <2>. HIDE DEF tu, tv, tw, c, ws
  <2>3. CASE tv # {}
    <3>1. Max(tv) \in tv /\ \A y \in tv : y <= Max(tv)
      BY <2>0, <2>3, <1>0, MaxOf
    <3>0. Max(tv) \in 1..Len(v)
      BY <3>1, <2>0
    <3>2. tw # {} /\ Len(u) + Max(tv) \in tw
      BY <2>0, <3>1
    <3>3. Max(tw) \in tw /\ \A y \in tw : y <= Max(tw)
      <4>1. Len(u) + Len(v) \in Nat
        BY <1>0
      <4>. QED  BY <4>1, <2>0, <3>2, MaxOf
    <3>t. Max(tw) \in 1..(Len(u) + Len(v))
      BY <3>3, <2>0
    <3>4. Max(tw) >= Len(u) + Max(tv)
      BY <3>2, <3>3
    <3>5. Max(tw) - Len(u) \in tv
      <4>1. Max(tw) - Len(u) \in 1..Len(v) /\ Len(u) + (Max(tw) - Len(u)) = Max(tw)
        BY <3>4, <3>t, <3>0, <1>0
      <4>. QED  BY <4>1, <2>0, <3>3
    <3>6. Max(tw) = Len(u) + Max(tv)
      <4>1. Max(tw) - Len(u) <= Max(tv)
        BY <3>5, <3>1
      <4>2. Max(tv) \in Int /\ Max(tw) \in Int /\ Len(u) \in Int
        BY <3>t, <3>0, <1>0
      <4>. QED  BY <4>1, <4>2, <3>4
    <3>7. ws[Len(u) + Max(tv)] = v[Max(tv)]
      BY <3>0, <1>0
    <3>8. ws[Max(tw)] = v[Max(tv)]
      BY <3>6, <3>7
    <3>. QED  BY <3>8, <3>2, <2>2, <2>3
  <2>4. CASE tv = {} /\ tu # {}
    <3>1. Max(tu) \in tu /\ \A y \in tu : y <= Max(tu)
      BY <2>0, <2>4, <1>0, MaxOf
    <3>0. Max(tu) \in 1..Len(u)
      BY <3>1, <2>0
    <3>2. tw # {} /\ Max(tu) \in tw
      BY <2>0, <3>1
    <3>3. Max(tw) \in tw /\ \A y \in tw : y <= Max(tw)
      <4>1. Len(u) + Len(v) \in Nat
        BY <1>0
      <4>. QED  BY <4>1, <2>0, <3>2, MaxOf
    <3>t. Max(tw) \in 1..(Len(u) + Len(v))
      BY <3>3, <2>0
    <3>4. Max(tw) <= Len(u)
      <4>1. SUFFICES ASSUME Max(tw) > Len(u) PROVE FALSE
        BY <3>t, <1>0
      <4>2. Max(tw) - Len(u) \in 1..Len(v) /\ Len(u) + (Max(tw) - Len(u)) = Max(tw)
        BY <4>1, <3>t, <1>0
      <4>. QED  BY <4>2, <3>3, <2>0, <2>4
    <3>5. Max(tw) = Max(tu)
      <4>1. Max(tw) \in tu
        BY <3>4, <3>t, <3>3, <2>0, <1>0
      <4>2. Max(tw) <= Max(tu) /\ Max(tu) <= Max(tw)
        BY <4>1, <3>1, <3>2, <3>3
      <4>. QED  BY <4>2, <3>t, <3>0, <1>0
    <3>. QED  BY <3>5, <3>1, <3>2, <2>2, <2>4, <1>0, <2>0
  <2>5. CASE tv = {} /\ tu = {}
    <3>1. tw = {}
      <4>1. SUFFICES ASSUME NEW i \in tw PROVE FALSE
        OBVIOUS
      <4>2. i > Len(u)
        BY <4>1, <2>0, <2>5, <1>0
      <4>3. i - Len(u) \in 1..Len(v) /\ Len(u) + (i - Len(u)) = i
        BY <4>1, <4>2, <2>0, <1>0
      <4>. QED  BY <4>1, <4>3, <2>0, <2>5
    <3>. QED  BY <3>1, <2>2, <2>5
  <2>. QED  BY <2>3, <2>4, <2>5
<1>2. DOMAIN WriteAll(d, ws) = DOMAIN d /\ DOMAIN WriteAll(c, v) = DOMAIN d
  BY WriteAllDomain
<1>. QED  BY <1>1, <1>2 DEF WriteAll

(* Performing the next write changes nothing that will be read once all are *)
LEMMA WriteAllNext ==
    ASSUME NEW d, NEW V, NEW ws \in Seq(V), ws # <<>>
    PROVE  WriteAll(Write(d, Head(ws)), Tail(ws)) = WriteAll(d, ws)
<1>1. ws = <<Head(ws)>> \o Tail(ws) /\ Head(ws) \in V /\ Tail(ws) \in Seq(V)
  OBVIOUS
<1>. DEFINE h == <<Head(ws)>>
            t == Tail(ws)
<1>2. h \in Seq(V) /\ t \in Seq(V)
  BY <1>1
<1>3. WriteAll(d, h \o t) = WriteAll(WriteAll(d, h), t)
  <2>. HIDE DEF h, t
  <2>. QED  BY <1>2, WriteAllTwo
<1>4. WriteAll(d, h) = Write(d, Head(ws))
  BY WriteAllOne
<1>. QED  BY <1>1, <1>3, <1>4

-----------------------------------------------------------------------------
(* Offsets in order: Nth, by which the slots of the journal are numbered. *)

(* The n-th of a set of offsets *)
Rank(G, o) == Cardinality({p \in G : p < o})

LEMMA RankBelow ==
    ASSUME NEW n \in Nat, NEW G \in SUBSET (0..n)
    PROVE  /\ IsFiniteSet(G) /\ Cardinality(G) \in Nat
           /\ \A o \in G : Rank(G, o) \in 0..(Cardinality(G) - 1)
           /\ \A o, p \in G : o < p => Rank(G, o) < Rank(G, p)
<1>1. IsFiniteSet(0..n)
  BY FS_Interval
<1>2. IsFiniteSet(G)
  BY <1>1, FS_Subset
<1>3. Cardinality(G) \in Nat
  BY <1>2, FS_CardinalityType
<1>4. ASSUME NEW o \in G
      PROVE  Rank(G, o) \in 0..(Cardinality(G) - 1)
  <2>. DEFINE B == {p \in G : p < o}
  <2>1. B \in SUBSET G /\ o \notin B /\ B # G
    OBVIOUS
  <2>2. /\ IsFiniteSet(B) /\ Cardinality(B) <= Cardinality(G)
        /\ Cardinality(G) # Cardinality(B)
    BY <2>1, <1>2, FS_Subset, Zenon
  <2>3. Cardinality(B) \in Nat
    BY <2>2, FS_CardinalityType
  <2>. QED  BY <2>2, <2>3, <1>3 DEF Rank
<1>5. ASSUME NEW o \in G, NEW p \in G, o < p
      PROVE  Rank(G, o) < Rank(G, p)
  <2>. DEFINE B == {q \in G : q < o}
              C == {q \in G : q < p}
  <2>1. B \in SUBSET C
    <3>1. \A q \in G : q \in Int
      OBVIOUS
    <3>2. o \in Int /\ p \in Int
      BY <3>1
    <3>3. \A q \in G : q < o => q < p
      BY <3>1, <3>2, <1>5
    <3>. QED  BY <3>3
  <2>2. o \in C /\ o \notin B
    BY <1>5
  <2>3. C \in SUBSET G
    OBVIOUS
  <2>4. IsFiniteSet(C)
    BY <2>3, <1>2, FS_Subset
  <2>. HIDE DEF B, C
  <2>5. IsFiniteSet(B) /\ Cardinality(B) <= Cardinality(C) /\ Cardinality(C) # Cardinality(B)
    BY <2>1, <2>2, <2>4, FS_Subset, Zenon
  <2>6. Cardinality(B) \in Nat /\ Cardinality(C) \in Nat
    BY <2>4, <2>5, FS_CardinalityType
  <2>. QED  BY <2>5, <2>6 DEF Rank, B, C
<1>. QED  BY <1>2, <1>3, <1>4, <1>5

LEMMA NthRanked ==
    ASSUME NEW n \in Nat, NEW G \in SUBSET (0..n)
    PROVE  /\ \A i \in 1..Cardinality(G) : Nth(G, i) \in G /\ Rank(G, Nth(G, i)) = i - 1
           /\ \A i, j \in 1..Cardinality(G) : i < j => Nth(G, i) < Nth(G, j)
           /\ \A o \in G : Nth(G, Rank(G, o) + 1) = o
<1>. DEFINE c == Cardinality(G)
            T == 0..(c - 1)
            r == [o \in G |-> Rank(G, o)]
<1>1. /\ IsFiniteSet(G) /\ c \in Nat
      /\ \A o \in G : Rank(G, o) \in T
      /\ \A o, p \in G : o < p => Rank(G, o) < Rank(G, p)
  BY RankBelow
<1>2. IsFiniteSet(T) /\ Cardinality(T) = c
  BY <1>1, FS_Interval
<1>3. \A o, p \in G : Rank(G, o) = Rank(G, p) => o = p
  <2>1. \A o \in G : Rank(G, o) \in Int /\ o \in Int
    BY <1>1
  <2>. QED  BY <1>1, <2>1
<1>4. r \in Injection(G, T)
  BY <1>1, <1>3 DEF Injection, IsInjective
<1>5. r \in Surjection(G, T)
  <2>. HIDE DEF r, T
  <2>. QED  BY <1>4, <1>1, <1>2, FS_Injection, Zenon
<1>6. ASSUME NEW i \in 1..c
      PROVE  Nth(G, i) \in G /\ Rank(G, Nth(G, i)) = i - 1
  <2>1. i - 1 \in T
    BY <1>1
  <2>2. \E o \in G : r[o] = i - 1
    BY <1>5, <2>1 DEF Surjection
  <2>. QED  BY <2>2 DEF Nth, Rank
<1>7. ASSUME NEW i \in 1..c, NEW j \in 1..c, i < j
      PROVE  Nth(G, i) < Nth(G, j)
  <2>. DEFINE a == Nth(G, i)
              b == Nth(G, j)
  <2>1. a \in G /\ b \in G /\ Rank(G, a) = i - 1 /\ Rank(G, b) = j - 1
    BY <1>6, <1>7
  <2>. HIDE DEF a, b
  <2>2. a \in Int /\ b \in Int
    BY <2>1
  <2>3. ~(b < a) /\ a # b
    <3>1. Rank(G, a) < Rank(G, b)
      BY <2>1, <1>7
    <3>2. b < a => Rank(G, b) < Rank(G, a)
      BY <2>1, <1>1
    <3>. QED  BY <3>1, <3>2, <2>1
  <2>4. a < b
    BY <2>2, <2>3
  <2>. QED  BY <2>4 DEF a, b
<1>8. ASSUME NEW o \in G
      PROVE  Nth(G, Rank(G, o) + 1) = o
  <2>1. Rank(G, o) + 1 \in 1..c
    BY <1>1
  <2>. DEFINE k == Rank(G, o) + 1
              x == Nth(G, k)
  <2>2. x \in G /\ Rank(G, x) = k - 1
    <3>. HIDE DEF k
    <3>. QED  BY <2>1, <1>6 DEF k
  <2>3. Rank(G, o) \in Int
    BY <1>1
  <2>. HIDE DEF x
  <2>4. Rank(G, x) = Rank(G, o)
    BY <2>2, <2>3
  <2>. QED  BY <2>2, <2>4, <1>3 DEF x
<1>. QED  BY <1>6, <1>7, <1>8

(* Of offsets that are multiples of a record from `from`, at most (o - from)\div 2 *)
(* come before o; exactly as many when all of them are there.               *)
LEMMA RankBound ==
    ASSUME NEW n \in Nat, NEW G \in SUBSET (0..n), NEW from \in Nat, NEW m \in Nat,
           \A p \in G : p >= from /\ (p - from) % 2 = 0
    PROVE  /\ Rank(G, from + 2 * m) <= m
           /\ (\A k \in 0..(m - 1) : from + 2 * k \in G) => Rank(G, from + 2 * m) = m
<1>. DEFINE B == {p \in G : p < from + 2 * m}
            T == 0..(m - 1)
            g == [p \in B |-> (p - from) \div 2]
<1>1. IsFiniteSet(T) /\ Cardinality(T) = m
  BY FS_Interval
<1>2. ASSUME NEW p \in B
      PROVE  (p - from) \div 2 \in T /\ p = from + 2 * ((p - from) \div 2)
  <2>1. p \in Nat /\ p >= from /\ (p - from) % 2 = 0 /\ p < from + 2 * m
    OBVIOUS
  <2>. QED  BY <2>1
<1>3. g \in [B -> T]
  BY <1>2
<1>4. ASSUME NEW p \in B, NEW q \in B, g[p] = g[q] PROVE p = q
  BY <1>2, <1>4
<1>5. g \in Injection(B, T)
  BY <1>3, <1>4 DEF Injection, IsInjective
<1>6. /\ Cardinality(B) <= m
      /\ Cardinality(B) = m <=> g \in Surjection(B, T)
  <2>. HIDE DEF B, T, g
  <2>. QED  BY <1>5, <1>1, FS_Injection, Zenon
<1>7. ASSUME \A k \in 0..(m - 1) : from + 2 * k \in G
      PROVE  g \in Surjection(B, T)
  <2>1. ASSUME NEW k \in T
        PROVE  \E p \in B : g[p] = k
    <3>1. from + 2 * k \in B
      BY <1>7
    <3>2. g[from + 2 * k] = k
      BY <3>1
    <3>. QED  BY <3>1, <3>2
  <2>. QED  BY <2>1, <1>3 DEF Surjection
<1>. QED  BY <1>6, <1>7 DEF Rank

-----------------------------------------------------------------------------
(* The slots of a file are its readable records, in order. *)

SlotRecs == [e : Ev, next : Nat]

LEMMA GoodFacts ==
    ASSUME NEW f \in Seq(HalfRecs), NEW from \in Nat, NEW to \in Nat
    PROVE  /\ Good(f, from, to) \in SUBSET (0..to)
           /\ \A o \in Good(f, from, to) :
                 /\ o \in Nat /\ from <= o /\ o + 2 <= to /\ (o - from) % 2 = 0
                 /\ Readable(f, o) /\ o + 2 <= Len(f)
                 /\ f[o + 1] \in HalfRecs /\ f[o + 2] \in HalfRecs /\ f[o + 1].e \in Ev
                 /\ f[o + 1].half = 1 /\ f[o + 2].half = 2 /\ f[o + 2].e = f[o + 1].e
<1>1. ASSUME NEW o \in Good(f, from, to)
      PROVE  /\ o \in Nat /\ from <= o /\ o + 2 <= to /\ (o - from) % 2 = 0
             /\ Readable(f, o) /\ o + 2 <= Len(f)
             /\ f[o + 1].half = 1 /\ f[o + 2].half = 2 /\ f[o + 2].e = f[o + 1].e
  BY DEF Good, Readable, RECORD_SIZE
<1>2. ASSUME NEW o \in Good(f, from, to)
      PROVE  f[o + 1] \in HalfRecs /\ f[o + 2] \in HalfRecs /\ f[o + 1].e \in Ev
  <2>1. o + 1 \in 1..Len(f) /\ o + 2 \in 1..Len(f)
    BY <1>1
  <2>2. f[o + 1] \in HalfRecs /\ f[o + 2] \in HalfRecs
    BY <2>1
  <2>. QED  BY <2>2 DEF HalfRecs
<1>3. Good(f, from, to) \in SUBSET (0..to)
  BY <1>1
<1>. QED  BY <1>1, <1>2, <1>3

LEMMA SlotsFacts ==
    ASSUME NEW f \in Seq(HalfRecs), NEW from \in Nat, NEW to \in Nat
    PROVE  LET s == Slots(f, from, to)
               n == Len(s)
           IN  /\ s \in Seq(SlotRecs) /\ n \in Nat /\ DOMAIN s = 1..n
               /\ \A i \in 1..n : /\ s[i].next - 2 \in Good(f, from, to)
                                  /\ s[i].e = f[s[i].next - 1].e
                                  /\ s[i].next >= from + 2 * i
                                  /\ s[i].next <= to /\ s[i].next \in Nat /\ s[i].e \in Ev
                                  /\ (s[i].next - from) % 2 = 0
               /\ \A i, j \in 1..n : i < j => s[i].next < s[j].next
               /\ from <= to => 2 * n <= to - from
<1>. DEFINE G == Good(f, from, to)
            s == Slots(f, from, to)
            c == Cardinality(G)
<1>1. /\ G \in SUBSET (0..to)
      /\ \A o \in G : /\ o \in Nat /\ from <= o /\ o + 2 <= to /\ (o - from) % 2 = 0
                      /\ f[o + 1].e \in Ev
  BY GoodFacts
<1>2. /\ c \in Nat /\ \A o \in G : Rank(G, o) \in 0..(c - 1)
  <2>. HIDE DEF G
  <2>. QED  BY <1>1, RankBelow
<1>3. /\ \A i \in 1..c : Nth(G, i) \in G /\ Rank(G, Nth(G, i)) = i - 1
      /\ \A i, j \in 1..c : i < j => Nth(G, i) < Nth(G, j)
  <2>. HIDE DEF G
  <2>. QED  BY <1>1, NthRanked
<1>4. s = [i \in 1..c |-> [e |-> f[Nth(G, i) + 1].e, next |-> Nth(G, i) + 2]]
  BY DEF Slots, RECORD_SIZE
<1>. HIDE DEF s, G
<1>5. ASSUME NEW i \in 1..c
      PROVE  /\ s[i] \in SlotRecs /\ s[i].next = Nth(G, i) + 2 /\ s[i].e = f[Nth(G, i) + 1].e
             /\ s[i].next - 2 \in G /\ s[i].e = f[s[i].next - 1].e
             /\ s[i].next <= to /\ s[i].next \in Nat /\ s[i].e \in Ev
             /\ (s[i].next - from) % 2 = 0
             /\ s[i].next >= from + 2 * i
  <2>1. Nth(G, i) \in G /\ Nth(G, i) \in Nat /\ Nth(G, i) + 2 <= to
    BY <1>3, <1>1
  <2>2. s[i].next = Nth(G, i) + 2 /\ s[i].e = f[Nth(G, i) + 1].e
    BY <1>4
  <2>3. s[i] \in SlotRecs
    BY <1>4, <2>1, <1>1 DEF SlotRecs
  <2>4. s[i].next - 2 = Nth(G, i) /\ s[i].next - 1 = Nth(G, i) + 1
    BY <2>1, <2>2
  <2>5. (s[i].next - from) % 2 = 0
    BY <2>1, <2>2, <1>1
  <2>6. s[i].next >= from + 2 * i
    <3>. DEFINE o == Nth(G, i)
                m == (o - from) \div 2
    <3>1. m \in Nat /\ o = from + 2 * m
      <4>1. o \in Nat /\ from <= o /\ (o - from) % 2 = 0
        BY <2>1, <1>1
      <4>. HIDE DEF o
      <4>. QED  BY <4>1
    <3>2. \A p \in G : p >= from /\ (p - from) % 2 = 0
      BY <1>1
    <3>. HIDE DEF m, o
    <3>3. Rank(G, from + 2 * m) <= m
      BY <3>1, <3>2, <1>1, RankBound
    <3>4. Rank(G, o) = i - 1
      BY <1>3 DEF o
    <3>5. i - 1 <= m
      <4>1. Rank(G, o) <= m
        BY <3>1, <3>3
      <4>. QED  BY <4>1, <3>4
    <3>6. s[i].next = o + 2
      BY <2>2 DEF o
    <3>. QED  BY <3>1, <3>5, <3>6
  <2>. QED  BY <2>1, <2>2, <2>3, <2>4, <2>5, <2>6, <1>1
<1>6. s \in Seq(SlotRecs) /\ Len(s) = c /\ DOMAIN s = 1..c
  <2>1. s \in [1..c -> SlotRecs]
    BY <1>4, <1>5
  <2>. QED  BY <2>1, <1>2
<1>7. ASSUME NEW i \in 1..c, NEW j \in 1..c, i < j PROVE s[i].next < s[j].next
  <2>1. Nth(G, i) < Nth(G, j) /\ Nth(G, i) \in G /\ Nth(G, j) \in G
    BY <1>3, <1>7
  <2>2. Nth(G, i) \in Nat /\ Nth(G, j) \in Nat
    BY <2>1, <1>1
  <2>3. s[i].next = Nth(G, i) + 2 /\ s[j].next = Nth(G, j) + 2
    BY <1>5
  <2>. QED
    <3>. HIDE DEF s, c, G
    <3>. QED  BY <2>1, <2>2, <2>3
<1>8. from <= to => 2 * c <= to - from
  <2>1. CASE c = 0
    BY <2>1
  <2>2. CASE c # 0
    <3>. HIDE DEF c
    <3>1. c \in 1..c
      BY <1>2, <2>2
    <3>2. s[c].next >= from + 2 * c /\ s[c].next <= to /\ s[c].next \in Nat
      BY <3>1, <1>5
    <3>. QED  BY <3>2, <1>2
  <2>. QED  BY <2>1, <2>2
<1>. QED  BY <1>2, <1>5, <1>6, <1>7, <1>8 DEF s, G

(* In a file without a misaligned record the slots are one after the other *)
LEMMA SlotsAligned ==
    ASSUME NEW f \in Seq(HalfRecs), NEW from \in Nat, NEW m \in Nat,
           \A k \in 0..(m - 1) : Readable(f, from + 2 * k)
    PROVE  Slots(f, from, from + 2 * m) =
              [i \in 1..m |-> [e |-> f[from + 2 * i - 1].e, next |-> from + 2 * i]]
<1>. DEFINE to == from + 2 * m
            G == Good(f, from, to)
            c == Cardinality(G)
<1>0. to \in Nat
  OBVIOUS
<1>1. /\ G \in SUBSET (0..to)
      /\ \A o \in G : /\ o \in Nat /\ from <= o /\ o + 2 <= to /\ (o - from) % 2 = 0
  <2>. HIDE DEF to
  <2>. QED  BY <1>0, GoodFacts
<1>2. \A k \in 0..(m - 1) : from + 2 * k \in G
  <2>. TAKE k \in 0..(m - 1)
  <2>1. from + 2 * k \in from..(to - 2) /\ (from + 2 * k - from) % 2 = 0
    OBVIOUS
  <2>. QED  BY <2>1 DEF Good, RECORD_SIZE
<1>3. ASSUME NEW k \in 0..m PROVE Rank(G, from + 2 * k) = k
  <2>1. \A p \in G : p >= from /\ (p - from) % 2 = 0
    BY <1>1
  <2>2. \A j \in 0..(k - 1) : from + 2 * j \in G
    <3>. HIDE DEF G
    <3>. QED  BY <1>2
  <2>3. k \in Nat
    OBVIOUS
  <2>. HIDE DEF G, to
  <2>. QED  BY <2>1, <2>2, <2>3, <1>0, <1>1, RankBound
<1>4. c = m
  <2>1. {p \in G : p < from + 2 * m} = G
    <3>. HIDE DEF G
    <3>1. \A p \in G : p < from + 2 * m
      BY <1>1
    <3>. QED  BY <3>1
  <2>2. m \in 0..m
    OBVIOUS
  <2>. QED  BY <2>1, <2>2, <1>3 DEF Rank
<1>5. ASSUME NEW i \in 1..m PROVE Nth(G, i) = from + 2 * (i - 1)
  <2>. DEFINE o == from + 2 * (i - 1)
  <2>1. i - 1 \in 0..(m - 1) /\ i - 1 \in 0..m
    OBVIOUS
  <2>2. o \in G
    <3>. HIDE DEF G
    <3>. QED  BY <2>1, <1>2
  <2>3. Rank(G, o) = i - 1
    <3>. HIDE DEF G
    <3>. QED  BY <2>1, <1>3
  <2>. HIDE DEF o, G, to
  <2>4. Nth(G, Rank(G, o) + 1) = o
    BY <2>2, <1>0, <1>1, NthRanked
  <2>5. Rank(G, o) + 1 = i
    BY <2>3
  <2>. QED  BY <2>4, <2>5 DEF o
<1>6. Slots(f, from, to) = [i \in 1..c |-> [e |-> f[Nth(G, i) + 1].e, next |-> Nth(G, i) + 2]]
  BY DEF Slots, RECORD_SIZE
<1>. HIDE DEF G, c
<1>7. ASSUME NEW i \in 1..m
      PROVE  [e |-> f[Nth(G, i) + 1].e, next |-> Nth(G, i) + 2] =
             [e |-> f[from + 2 * i - 1].e, next |-> from + 2 * i]
  <2>1. Nth(G, i) + 1 = from + 2 * i - 1 /\ Nth(G, i) + 2 = from + 2 * i
    BY <1>5
  <2>. QED  BY <2>1
<1>. QED  BY <1>4, <1>6, <1>7

-----------------------------------------------------------------------------
(* What each kind of write leaves on the disk. *)

LEMMA WritesSeq ==
    ASSUME NEW V, NEW ws \in Seq(V)
    PROVE  IsWrites(ws)
<1>1. ws \in [1..Len(ws) -> Range(ws)] /\ Len(ws) \in Nat
  BY DEF Range
<1>. QED  BY <1>1 DEF IsWrites

LEMMA WritesThen ==
    ASSUME NEW d, NEW u, IsWrites(u), NEW v, IsWrites(v)
    PROVE  /\ IsWrites(u \o v)
           /\ WriteAll(d, u \o v) = WriteAll(WriteAll(d, u), v)
<1>. DEFINE U == Range(u)
            V == Range(v)
<1>1. u \in Seq(U) /\ v \in Seq(V)
  BY DEF IsWrites
<1>. HIDE DEF U, V
<1>2. u \in Seq(U \cup V) /\ v \in Seq(U \cup V)
  BY <1>1
<1>3. u \o v \in Seq(U \cup V)
  BY <1>2
<1>4. IsWrites(u \o v)
  BY <1>3, WritesSeq
<1>5. WriteAll(d, u \o v) = WriteAll(WriteAll(d, u), v)
  BY <1>1, WriteAllTwo
<1>. QED  BY <1>4, <1>5

LEMMA PairSplit ==
    ASSUME NEW u, NEW v
    PROVE  <<u, v>> = <<u>> \o <<v>>
<1>. DEFINE S == {u, v}
            s == <<u, v>>
            t == <<u>> \o <<v>>
<1>1. <<u>> \in Seq(S) /\ <<v>> \in Seq(S) /\ Len(<<u>>) = 1 /\ Len(<<v>>) = 1
  OBVIOUS
<1>2. t \in Seq(S) /\ Len(t) = 2 /\ s \in Seq(S) /\ Len(s) = 2
  BY <1>1
<1>3. t[1] = u /\ t[2] = v /\ s[1] = u /\ s[2] = v
  BY <1>1
<1>4. \A i \in 1..2 : s[i] = t[i]
  BY <1>3
<1>. HIDE DEF s, t
<1>5. s = t
  BY <1>2, <1>4
<1>. QED  BY <1>5 DEF s, t

LEMMA TripleSplit ==
    ASSUME NEW u, NEW v, NEW w
    PROVE  <<u, v, w>> = <<u, v>> \o <<w>>
<1>. DEFINE S == {u, v, w}
            s == <<u, v, w>>
            t == <<u, v>> \o <<w>>
<1>1. <<u, v>> \in Seq(S) /\ <<w>> \in Seq(S) /\ Len(<<u, v>>) = 2 /\ Len(<<w>>) = 1
  OBVIOUS
<1>2. t \in Seq(S) /\ Len(t) = 3 /\ s \in Seq(S) /\ Len(s) = 3
  BY <1>1
<1>3. t[1] = u /\ t[2] = v /\ t[3] = w /\ s[1] = u /\ s[2] = v /\ s[3] = w
  BY <1>1
<1>4. \A i \in 1..3 : s[i] = t[i]
  BY <1>3
<1>. HIDE DEF s, t
<1>5. s = t
  BY <1>2, <1>4
<1>. QED  BY <1>5 DEF s, t

LEMMA WriteNamed ==
    ASSUME NEW d, d = [x \in DOMAIN d |-> d[x]], NEW n \in DOMAIN d, NEW v
    PROVE  Write(d, [k \in {n} |-> v]) = [d EXCEPT ![n] = v]
BY DEF Write

Plain(d) == /\ d = [x \in DOMAIN d |-> d[x]]
            /\ {"woff", "aoff", "total", "nextId", "synced", "head", "size", "ring",
                "file", "bak", "tmp"} \subseteq DOMAIN d

LEMMA WritePlain ==
    ASSUME NEW d, Plain(d), NEW v
    PROVE  /\ Write(d, [woff |-> v]) = [d EXCEPT !.woff = v]
           /\ Write(d, [aoff |-> v]) = [d EXCEPT !.aoff = v]
           /\ Write(d, [total |-> v]) = [d EXCEPT !.total = v]
           /\ Write(d, [nextId |-> v]) = [d EXCEPT !.nextId = v]
           /\ Write(d, [synced |-> v]) = [d EXCEPT !.synced = v]
           /\ Write(d, [head |-> v]) = [d EXCEPT !.head = v]
           /\ Write(d, [size |-> v]) = [d EXCEPT !.size = v]
           /\ Write(d, [ring |-> v]) = [d EXCEPT !.ring = v]
           /\ Write(d, [file |-> v]) = [d EXCEPT !.file = v]
           /\ Write(d, [bak |-> v]) = [d EXCEPT !.bak = v]
           /\ Write(d, [tmp |-> v]) = [d EXCEPT !.tmp = v]
<1>1. /\ [woff |-> v] = [k \in {"woff"} |-> v] /\ [aoff |-> v] = [k \in {"aoff"} |-> v]
      /\ [total |-> v] = [k \in {"total"} |-> v] /\ [nextId |-> v] = [k \in {"nextId"} |-> v]
      /\ [synced |-> v] = [k \in {"synced"} |-> v] /\ [head |-> v] = [k \in {"head"} |-> v]
      /\ [size |-> v] = [k \in {"size"} |-> v] /\ [ring |-> v] = [k \in {"ring"} |-> v]
      /\ [file |-> v] = [k \in {"file"} |-> v] /\ [bak |-> v] = [k \in {"bak"} |-> v]
      /\ [tmp |-> v] = [k \in {"tmp"} |-> v]
  OBVIOUS
<1>2. d = [x \in DOMAIN d |-> d[x]]
  BY DEF Plain
<1>3. \A n \in DOMAIN d : Write(d, [k \in {n} |-> v]) = [d EXCEPT ![n] = v]
  BY <1>2, WriteNamed
<1>4. {"woff", "aoff", "total", "nextId", "synced", "head", "size", "ring",
       "file", "bak", "tmp"} \subseteq DOMAIN d
  BY DEF Plain
<1>5. /\ Write(d, [woff |-> v]) = [d EXCEPT !.woff = v]
      /\ Write(d, [aoff |-> v]) = [d EXCEPT !.aoff = v]
      /\ Write(d, [total |-> v]) = [d EXCEPT !.total = v]
      /\ Write(d, [nextId |-> v]) = [d EXCEPT !.nextId = v]
  BY <1>1, <1>3, <1>4
<1>6. /\ Write(d, [synced |-> v]) = [d EXCEPT !.synced = v]
      /\ Write(d, [head |-> v]) = [d EXCEPT !.head = v]
      /\ Write(d, [size |-> v]) = [d EXCEPT !.size = v]
      /\ Write(d, [ring |-> v]) = [d EXCEPT !.ring = v]
  BY <1>1, <1>3, <1>4
<1>7. /\ Write(d, [file |-> v]) = [d EXCEPT !.file = v]
      /\ Write(d, [bak |-> v]) = [d EXCEPT !.bak = v]
      /\ Write(d, [tmp |-> v]) = [d EXCEPT !.tmp = v]
  BY <1>1, <1>3, <1>4
<1>. QED  BY <1>5, <1>6, <1>7

LEMMA PlainExcept ==
    ASSUME NEW d, Plain(d), NEW n, NEW v
    PROVE  Plain([d EXCEPT ![n] = v])
BY DEF Plain

LEMMA PlainDisk ==
    ASSUME NEW d \in Disks
    PROVE  Plain(d)
BY DEF Plain, Disks

LEMMA WritesOne ==
    ASSUME NEW d, NEW w
    PROVE  IsWrites(<<w>>) /\ WriteAll(d, <<w>>) = Write(d, w)
<1>1. <<w>> \in Seq({w})
  OBVIOUS
<1>. QED  BY <1>1, WritesSeq, WriteAllOne

LEMMA WritesNone ==
    ASSUME NEW d, d \in Disks
    PROVE  IsWrites(<<>>) /\ WriteAll(d, <<>>) = d
<1>1. <<>> \in Seq({})
  OBVIOUS
<1>2. d = [x \in DOMAIN d |-> d[x]]
  BY DEF Disks
<1>. QED  BY <1>1, <1>2, WritesSeq, WriteAllNone

LEMMA WritesTwo ==
    ASSUME NEW d, NEW u, NEW v
    PROVE  /\ IsWrites(<<u, v>>)
           /\ WriteAll(d, <<u, v>>) = Write(Write(d, u), v)
<1>1. <<u, v>> = <<u>> \o <<v>>
  BY PairSplit
<1>2. IsWrites(<<u>>) /\ IsWrites(<<v>>) /\ WriteAll(d, <<u>>) = Write(d, u)
  BY WritesOne
<1>3. WriteAll(Write(d, u), <<v>>) = Write(Write(d, u), v)
  BY WritesOne
<1>4. IsWrites(<<u>> \o <<v>>) /\ WriteAll(d, <<u>> \o <<v>>) = WriteAll(WriteAll(d, <<u>>), <<v>>)
  BY <1>2, WritesThen
<1>. QED  BY <1>1, <1>2, <1>3, <1>4

LEMMA WritesThree ==
    ASSUME NEW d, NEW u, NEW v, NEW w
    PROVE  /\ IsWrites(<<u, v, w>>)
           /\ WriteAll(d, <<u, v, w>>) = Write(Write(Write(d, u), v), w)
<1>1. <<u, v, w>> = <<u, v>> \o <<w>>
  BY TripleSplit
<1>2. /\ IsWrites(<<u, v>>) /\ IsWrites(<<w>>)
      /\ WriteAll(d, <<u, v>>) = Write(Write(d, u), v)
      /\ WriteAll(WriteAll(d, <<u, v>>), <<w>>) = Write(WriteAll(d, <<u, v>>), w)
  BY WritesOne, WritesTwo
<1>3. /\ IsWrites(<<u, v>> \o <<w>>)
      /\ WriteAll(d, <<u, v>> \o <<w>>) = WriteAll(WriteAll(d, <<u, v>>), <<w>>)
  BY <1>2, WritesThen
<1>. QED  BY <1>1, <1>2, <1>3

LEMMA MetaWrites ==
    ASSUME NEW d \in Disks, NEW r
    PROVE  /\ IsWrites(saveMeta(r))
           /\ WriteAll(d, saveMeta(r)) = [d EXCEPT !.woff = r.woff, !.aoff = r.aoff]
<1>. DEFINE c == Write(d, [woff |-> r.woff])
<1>1. WriteAll(d, saveMeta(r)) = Write(c, [aoff |-> r.aoff]) /\ IsWrites(saveMeta(r))
  BY WritesTwo DEF saveMeta
<1>2. c = [d EXCEPT !.woff = r.woff] /\ Plain(c)
  <2>1. Plain(d)
    BY PlainDisk
  <2>2. Plain([d EXCEPT !["woff"] = r.woff])
    BY <2>1, PlainExcept
  <2>. QED  BY <2>1, <2>2, WritePlain
<1>3. Write(c, [aoff |-> r.aoff]) = [c EXCEPT !.aoff = r.aoff]
  <2>. HIDE DEF c
  <2>. QED  BY <1>2, WritePlain
<1>. QED  BY <1>1, <1>2, <1>3

LEMMA TotalsWrites ==
    ASSUME NEW d \in Disks, NEW r
    PROVE  /\ IsWrites(persistTotals(r))
           /\ WriteAll(d, persistTotals(r)) =
                [d EXCEPT !.total = r.total, !.nextId = r.nextId, !.synced = r.synced]
<1>. DEFINE c == Write(d, [total |-> r.total])
            b == Write(c, [nextId |-> r.nextId])
<1>1. /\ WriteAll(d, persistTotals(r)) = Write(b, [synced |-> r.synced])
      /\ IsWrites(persistTotals(r))
  BY WritesThree DEF persistTotals
<1>2. c = [d EXCEPT !.total = r.total] /\ Plain(c)
  <2>1. Plain(d)
    BY PlainDisk
  <2>2. Plain([d EXCEPT !["total"] = r.total])
    BY <2>1, PlainExcept
  <2>. QED  BY <2>1, <2>2, WritePlain
<1>3. b = [c EXCEPT !.nextId = r.nextId] /\ Plain(b)
  <2>. HIDE DEF c
  <2>1. Plain([c EXCEPT !["nextId"] = r.nextId])
    BY <1>2, PlainExcept
  <2>0. Plain(c)
    BY <1>2
  <2>2. b = [c EXCEPT !.nextId = r.nextId]
    BY <2>0, WritePlain
  <2>. QED  BY <2>1, <2>2
<1>4. Write(b, [synced |-> r.synced]) = [b EXCEPT !.synced = r.synced]
  <2>. HIDE DEF b
  <2>. QED  BY <1>3, WritePlain
<1>. QED  BY <1>1, <1>2, <1>3, <1>4

LEMMA PersistWrites ==
    ASSUME NEW d \in Disks, NEW r \in Rams
    PROVE  /\ IsWrites(persist(r))
           /\ WriteAll(d, persist(r)) =
                [d EXCEPT !.total = r.total, !.nextId = r.nextId, !.synced = r.synced,
                          !.head = r.head, !.size = r.size, !.ring = r.ring]
<1>. DEFINE t == [d EXCEPT !.total = r.total, !.nextId = r.nextId, !.synced = r.synced]
            q == <<[head |-> r.head], [size |-> r.size], [ring |-> r.ring]>>
            c == Write(t, [head |-> r.head])
            b == Write(c, [size |-> r.size])
<1>1. IsWrites(persistTotals(r)) /\ WriteAll(d, persistTotals(r)) = t
  BY TotalsWrites
<1>2. IsWrites(q) /\ WriteAll(t, q) = Write(b, [ring |-> r.ring])
  BY WritesThree
<1>3. persist(r) = persistTotals(r) \o q
  BY DEF persist
<1>4. IsWrites(persist(r)) /\ WriteAll(d, persist(r)) = Write(b, [ring |-> r.ring])
  <2>. HIDE DEF q, t, b
  <2>. QED  BY <1>1, <1>2, <1>3, WritesThen
<1>5. t \in Disks
  BY DEF Disks, Rams
<1>. HIDE DEF t
<1>6. c = [t EXCEPT !.head = r.head] /\ Plain(c)
  <2>1. Plain(t)
    BY <1>5, PlainDisk
  <2>2. Plain([t EXCEPT !["head"] = r.head])
    BY <2>1, PlainExcept
  <2>. QED  BY <2>1, <2>2, WritePlain
<1>7. b = [c EXCEPT !.size = r.size] /\ Plain(b)
  <2>. HIDE DEF c
  <2>1. Plain([c EXCEPT !["size"] = r.size])
    BY <1>6, PlainExcept
  <2>0. Plain(c)
    BY <1>6
  <2>2. b = [c EXCEPT !.size = r.size]
    BY <2>0, WritePlain
  <2>. QED  BY <2>1, <2>2
<1>8. Write(b, [ring |-> r.ring]) = [b EXCEPT !.ring = r.ring]
  <2>. HIDE DEF b
  <2>. QED  BY <1>7, WritePlain
<1>. QED  BY <1>4, <1>6, <1>7, <1>8 DEF t

-----------------------------------------------------------------------------
(* The events of the slots, and a record appended to a journal. *)

LEMMA EvenGap ==
    ASSUME NEW x \in Nat, NEW y \in Nat, NEW z \in Nat, x < y,
           (x - z) % 2 = 0, (y - z) % 2 = 0
    PROVE  x < y - 1
OBVIOUS

LEMMA EventsSlots ==
    ASSUME NEW f \in Files, NEW from \in Nat, NEW to \in Nat
    PROVE  LET s == Slots(f, from, to)
               p == Events(f, from, to)
           IN  /\ p \in Seq(Ev) /\ Len(p) = Len(s) /\ Len(p) \in Nat /\ DOMAIN p = 1..Len(s)
               /\ \A i \in 1..Len(s) : p[i] = s[i].e
<1>. DEFINE s == Slots(f, from, to)
            n == Len(s)
            p == Events(f, from, to)
<1>1. n \in Nat /\ DOMAIN s = 1..n /\ \A i \in 1..n : s[i].e \in Ev
  BY SlotsFacts DEF Files
<1>2. p = [i \in 1..n |-> s[i].e]
  BY <1>1 DEF Events
<1>. HIDE DEF s, p, n
<1>3. p \in Seq(Ev) /\ Len(p) = n /\ DOMAIN p = 1..n
  <2>1. p \in [1..n -> Ev]
    BY <1>1, <1>2
  <2>. QED  BY <2>1, <1>1
<1>. QED  BY <1>1, <1>2, <1>3 DEF n, s, p

LEMMA SlotEvents ==
    ASSUME NEW f \in Files, NEW from \in Nat, NEW to \in Nat,
           NEW i \in 1..Len(Slots(f, from, to))
    PROVE  LET s == Slots(f, from, to)
           IN  /\ s[i].next - 1 \in 1..Len(f) /\ s[i].next \in 1..Len(f)
               /\ s[i].e = f[s[i].next - 1].e /\ s[i].e = f[s[i].next].e
               /\ f[s[i].next - 1].half = 1 /\ f[s[i].next].half = 2
<1>. DEFINE s == Slots(f, from, to)
            o == s[i].next - 2
<1>1. o \in Good(f, from, to) /\ s[i].e = f[s[i].next - 1].e /\ s[i].next \in Nat
  BY SlotsFacts DEF Files
<1>2. /\ o \in Nat /\ o + 2 <= Len(f)
      /\ f[o + 1].half = 1 /\ f[o + 2].half = 2 /\ f[o + 2].e = f[o + 1].e
  BY <1>1, GoodFacts DEF Files
<1>3. o + 1 = s[i].next - 1 /\ o + 2 = s[i].next
  BY <1>1
<1>4. Len(f) \in Nat
  BY DEF Files
<1>. HIDE DEF s, o
<1>5. s[i].next - 1 \in 1..Len(f) /\ s[i].next \in 1..Len(f)
  BY <1>1, <1>2, <1>3, <1>4
<1>. QED  BY <1>1, <1>2, <1>3, <1>5 DEF s

(* Of a file in order, the slots are in order too *)
LEMMA SlotsOrdered ==
    ASSUME NEW f \in Files, NEW from \in Nat, NEW to \in Nat, NEW n \in Nat,
           OrderedUpTo(f, n)
    PROVE  LET s == Slots(f, from, to)
           IN  /\ \A i \in 1..Len(s) : s[i].e.bottle <= n
               /\ \A i, j \in 1..Len(s) : i < j => s[i].e.bottle < s[j].e.bottle
<1>. DEFINE s == Slots(f, from, to)
<1>1. /\ Len(s) \in Nat
      /\ \A i \in 1..Len(s) : s[i].next \in Nat /\ (s[i].next - from) % 2 = 0 /\ s[i].e \in Ev
      /\ \A i, j \in 1..Len(s) : i < j => s[i].next < s[j].next
  BY SlotsFacts DEF Files
<1>2. ASSUME NEW i \in 1..Len(s)
      PROVE  /\ s[i].next - 1 \in 1..Len(f) /\ s[i].next \in 1..Len(f)
             /\ s[i].e = f[s[i].next - 1].e /\ s[i].e = f[s[i].next].e
             /\ f[s[i].next - 1].half = 1 /\ f[s[i].next].half = 2
  BY SlotEvents
<1>. HIDE DEF s
<1>3. ASSUME NEW i \in 1..Len(s) PROVE s[i].e.bottle <= n
  BY <1>2 DEF OrderedUpTo
<1>4. ASSUME NEW i \in 1..Len(s), NEW j \in 1..Len(s), i < j
      PROVE  s[i].e.bottle < s[j].e.bottle
  <2>1. s[i].next < s[j].next - 1
    <3>1. s[i].next < s[j].next /\ s[i].next \in Nat /\ s[j].next \in Nat
      BY <1>1, <1>4
    <3>2. (s[i].next - from) % 2 = 0 /\ (s[j].next - from) % 2 = 0
      BY <1>1
    <3>. QED  BY <3>1, <3>2, EvenGap
  <2>. DEFINE a == s[i].next
              b == s[j].next - 1
  <2>2. a \in 1..Len(f) /\ b \in 1..Len(f) /\ f[a].half = 2 /\ f[b].half = 1
    BY <1>2
  <2>3. \/ f[a].e.bottle < f[b].e.bottle
        \/ f[a].e.bottle = f[b].e.bottle /\ f[a].half < f[b].half
    <3>. HIDE DEF a, b
    <3>1. a < b
      BY <2>1 DEF a, b
    <3>. QED  BY <2>2, <3>1 DEF OrderedUpTo
  <2>4. s[i].e = f[a].e /\ s[j].e = f[b].e
    BY <1>2
  <2>. HIDE DEF a, b
  <2>. QED  BY <2>2, <2>3, <2>4
<1>. QED  BY <1>3, <1>4 DEF s

-----------------------------------------------------------------------------
(* A journal without a misaligned record *)

LEMMA EventsWhole ==
    ASSUME NEW f \in Files, NEW w \in Nat, NEW a \in Nat, a <= w, a % 2 = 0, w % 2 = 0,
           Whole(f, w)
    PROVE  /\ Slots(f, a, w) = [i \in 1..((w - a) \div 2) |->
                                   [e |-> f[a + 2 * i - 1].e, next |-> a + 2 * i]]
           /\ Len(Slots(f, a, w)) = (w - a) \div 2
           /\ Events(f, a, w) = [i \in 1..((w - a) \div 2) |-> f[a + 2 * i - 1].e]
<1>. DEFINE m == (w - a) \div 2
            s == [i \in 1..m |-> [e |-> f[a + 2 * i - 1].e, next |-> a + 2 * i]]
<1>1. m \in Nat /\ w = a + 2 * m
  OBVIOUS
<1>2. \A k \in 0..(m - 1) : Readable(f, a + 2 * k)
  <2>. TAKE k \in 0..(m - 1)
  <2>1. a + 2 * k \in 0..(w - 1) /\ (a + 2 * k) % 2 = 0
    BY <1>1
  <2>. QED  BY <2>1 DEF Whole
<1>3. Slots(f, a, w) = s
  <2>. HIDE DEF m
  <2>. QED  BY <1>1, <1>2, SlotsAligned DEF Files
<1>4. Len(s) = m
  <2>. HIDE DEF m
  <2>. QED  BY <1>1
<1>5. DOMAIN s = 1..m /\ \A i \in 1..m : s[i].e = f[a + 2 * i - 1].e
  OBVIOUS
<1>. HIDE DEF s
<1>6. Events(f, a, w) = [i \in 1..m |-> f[a + 2 * i - 1].e]
  BY <1>3, <1>5 DEF Events
<1>. QED  BY <1>3, <1>4, <1>6 DEF s

LEMMA HalvesFacts ==
    ASSUME NEW f \in Files, NEW e \in Ev
    PROVE  /\ Halves(e) \in Files /\ Len(Halves(e)) = 2
           /\ f \o Halves(e) \in Files /\ Len(f \o Halves(e)) = Len(f) + 2
           /\ \A i \in 1..Len(f) : (f \o Halves(e))[i] = f[i]
           /\ (f \o Halves(e))[Len(f) + 1] = [e |-> e, half |-> 1]
           /\ (f \o Halves(e))[Len(f) + 2] = [e |-> e, half |-> 2]
<1>1. Halves(e) \in Files /\ Len(Halves(e)) = 2
  BY DEF Halves, Files, HalfRecs
<1>2. Halves(e)[1] = [e |-> e, half |-> 1] /\ Halves(e)[2] = [e |-> e, half |-> 2]
  BY DEF Halves
<1>. DEFINE h == Halves(e)
            g == f \o h
<1>. HIDE DEF h
<1>3. /\ g \in Files /\ Len(g) = Len(f) + Len(h)
      /\ \A i \in 1..(Len(f) + Len(h)) : g[i] = IF i <= Len(f) THEN f[i] ELSE h[i - Len(f)]
  BY <1>1, ConcatProperties DEF Files, h
<1>4. Len(h) = 2 /\ Len(f) \in Nat
  BY <1>1 DEF h, Files
<1>. HIDE DEF g
<1>5. \A i \in 1..Len(f) : g[i] = f[i]
  BY <1>3, <1>4
<1>6. g[Len(f) + 1] = h[1] /\ g[Len(f) + 2] = h[2]
  BY <1>3, <1>4
<1>. QED  BY <1>1, <1>2, <1>3, <1>4, <1>5, <1>6 DEF g, h

LEMMA WholeAppend ==
    ASSUME NEW f \in Files, NEW e \in Ev, NEW w \in Nat, w % 2 = 0, Whole(f, w)
    PROVE  Whole(f \o Halves(e), w + 2)
<1>. DEFINE g == f \o Halves(e)
<1>1. /\ g \in Files /\ Len(g) = w + 2 /\ Len(f) = w
      /\ \A i \in 1..w : g[i] = f[i]
      /\ g[w + 1] = [e |-> e, half |-> 1] /\ g[w + 2] = [e |-> e, half |-> 2]
  BY HalvesFacts DEF Whole
<1>. HIDE DEF g
<1>2. ASSUME NEW o \in 0..(w + 2 - 1), o % 2 = 0 PROVE Readable(g, o)
  <2>1. CASE o < w
    <3>1. Readable(f, o) /\ o + 2 <= w
      BY <2>1, <1>2, <1>1 DEF Whole, Readable, RECORD_SIZE
    <3>2. g[o + 1] = f[o + 1] /\ g[o + 2] = f[o + 2]
      BY <3>1, <1>1
    <3>. QED  BY <3>1, <3>2, <1>1 DEF Readable, RECORD_SIZE
  <2>2. CASE o >= w
    <3>1. o = w
      BY <2>2, <1>2
    <3>. QED  BY <3>1, <1>1 DEF Readable, RECORD_SIZE
  <2>. QED  BY <2>1, <2>2
<1>. QED  BY <1>1, <1>2 DEF Whole, g

LEMMA EventsAppend ==
    ASSUME NEW f \in Files, NEW e \in Ev, NEW w \in Nat, NEW a \in Nat, a <= w,
           a % 2 = 0, w % 2 = 0, Whole(f, w)
    PROVE  Events(f \o Halves(e), a, w + 2) = Append(Events(f, a, w), e)
<1>. DEFINE g == f \o Halves(e)
            m == (w - a) \div 2
            p == Events(f, a, w)
            q == Events(g, a, w + 2)
<1>1. /\ g \in Files /\ Len(f) = w
      /\ \A i \in 1..w : g[i] = f[i]
      /\ g[w + 1] = [e |-> e, half |-> 1]
  BY HalvesFacts DEF Whole
<1>2. p = [i \in 1..m |-> f[a + 2 * i - 1].e]
  BY EventsWhole
<1>3. q = [i \in 1..((w + 2 - a) \div 2) |-> g[a + 2 * i - 1].e]
  <2>1. Whole(g, w + 2)
    BY WholeAppend
  <2>2. w + 2 \in Nat /\ a <= w + 2 /\ (w + 2) % 2 = 0
    OBVIOUS
  <2>. DEFINE v == w + 2
  <2>. HIDE DEF g, v
  <2>3. Events(g, a, v) = [i \in 1..((v - a) \div 2) |-> g[a + 2 * i - 1].e]
    BY <1>1, <2>1, <2>2, EventsWhole DEF v
  <2>. QED  BY <2>3 DEF v
<1>4. m \in Nat /\ (w + 2 - a) \div 2 = m + 1 /\ w = a + 2 * m
  OBVIOUS
<1>. HIDE DEF m, g
<1>5. p \in Seq(Ev) /\ Len(p) = m
  <2>1. p \in Seq(Ev)
    BY EventsSlots
  <2>. QED  BY <2>1, <1>2, <1>4
<1>6. ASSUME NEW i \in 1..m PROVE g[a + 2 * i - 1].e = p[i]
  <2>1. a + 2 * i - 1 \in 1..w
    BY <1>4
  <2>. QED  BY <2>1, <1>1, <1>2
<1>7. g[a + 2 * (m + 1) - 1].e = e
  <2>1. a + 2 * (m + 1) - 1 = w + 1
    BY <1>4
  <2>. QED  BY <2>1, <1>1
<1>. HIDE DEF p, q
<1>8. q \in Seq(Ev) /\ Len(q) = m + 1
  <2>1. q \in Seq(Ev)
    <3>1. w + 2 \in Nat
      OBVIOUS
    <3>. QED  BY <1>1, <3>1, EventsSlots DEF q
  <2>. QED  BY <2>1, <1>3, <1>4
<1>9. \A i \in 1..(m + 1) : q[i] = Append(p, e)[i]
  <2>. TAKE i \in 1..(m + 1)
  <2>1. q[i] = g[a + 2 * i - 1].e
    BY <1>3, <1>4
  <2>2. CASE i = m + 1
    BY <2>1, <2>2, <1>5, <1>7, <1>4
  <2>3. CASE i \in 1..m
    BY <2>1, <2>3, <1>5, <1>6
  <2>4. m \in Nat
    BY <1>4
  <2>5. i = m + 1 \/ i \in 1..m
    BY <2>4
  <2>. QED  BY <2>2, <2>3, <2>5
<1>10. Append(p, e) \in Seq(Ev) /\ Len(Append(p, e)) = m + 1
  BY <1>5
<1>. QED  BY <1>8, <1>9, <1>10, SeqEqual DEF p, q, g

-----------------------------------------------------------------------------
(* The acknowledgement cursor moved over k records drops k events. *)

LEMMA EventsDrop ==
    ASSUME NEW f \in Files, NEW w \in Nat, NEW a \in Nat, a <= w, a % 2 = 0, w % 2 = 0,
           Whole(f, w), NEW k \in 0..Len(Events(f, a, w))
    PROVE  LET p == Events(f, a, w)
               q == Events(f, a + 2 * k, w)
           IN  /\ Len(p) = (w - a) \div 2 /\ a + 2 * k <= w
               /\ Len(q) = Len(p) - k
               /\ \A i \in 1..(Len(p) - k) : q[i] = p[i + k]
<1>. DEFINE m == (w - a) \div 2
            p == Events(f, a, w)
            b == a + 2 * k
            q == Events(f, b, w)
<1>1. p = [i \in 1..m |-> f[a + 2 * i - 1].e] /\ Len(Slots(f, a, w)) = m
  BY EventsWhole
<1>2. m \in Nat /\ w = a + 2 * m
  OBVIOUS
<1>3. Len(p) = m
  BY <1>1, EventsSlots
<1>. HIDE DEF m
<1>4. b \in Nat /\ b <= w /\ b % 2 = 0 /\ (w - b) \div 2 = m - k
  BY <1>2, <1>3
<1>. HIDE DEF b
<1>5. q = [i \in 1..((w - b) \div 2) |-> f[b + 2 * i - 1].e] /\ Len(Slots(f, b, w)) = (w - b) \div 2
  BY <1>4, EventsWhole
<1>6. Len(q) = m - k
  BY <1>4, <1>5, EventsSlots
<1>7. ASSUME NEW i \in 1..(m - k) PROVE q[i] = p[i + k]
  <2>1. i + k \in 1..m /\ b + 2 * i - 1 = a + 2 * (i + k) - 1
    BY <1>2, <1>3 DEF b
  <2>2. q[i] = f[b + 2 * i - 1].e
    BY <1>4, <1>5
  <2>3. p[i + k] = f[a + 2 * (i + k) - 1].e
    BY <2>1, <1>1
  <2>. QED  BY <2>1, <2>2, <2>3
<1>. QED  BY <1>2, <1>3, <1>4, <1>6, <1>7 DEF b, m

-----------------------------------------------------------------------------
(* The file a compaction writes *)

LEMMA RewrittenFacts ==
    ASSUME NEW keep \in Seq(SlotRecs)
    PROVE  LET new == Rewritten(keep)
           IN  /\ new \in Files /\ Len(new) = 2 * Len(keep) /\ Len(keep) \in Nat
               /\ \A i \in 1..Len(keep) :
                     /\ new[2 * i - 1] = [e |-> keep[i].e, half |-> 1]
                     /\ new[2 * i] = [e |-> keep[i].e, half |-> 2]
               /\ \A a \in 1..Len(new) :
                     /\ (a + 1) \div 2 \in 1..Len(keep)
                     /\ new[a].e = keep[(a + 1) \div 2].e
                     /\ new[a].half = 1 + ((a + 1) % 2)
               /\ Whole(new, Len(new))
<1>. DEFINE n == Len(keep)
            new == Rewritten(keep)
<1>1. n \in Nat /\ \A i \in 1..n : keep[i] \in SlotRecs /\ keep[i].e \in Ev
  <2>1. n \in Nat /\ \A i \in 1..n : keep[i] \in SlotRecs
    OBVIOUS
  <2>. QED  BY <2>1 DEF SlotRecs
<1>2. new = [a \in 1..(2 * n) |-> [e |-> keep[(a + 1) \div 2].e, half |-> 1 + ((a + 1) % 2)]]
  BY DEF Rewritten, RECORD_SIZE
<1>. HIDE DEF n, new
<1>3. ASSUME NEW a \in 1..(2 * n)
      PROVE  /\ (a + 1) \div 2 \in 1..n
             /\ new[a].e = keep[(a + 1) \div 2].e /\ new[a].half = 1 + ((a + 1) % 2)
             /\ new[a] \in HalfRecs
  <2>1. (a + 1) \div 2 \in 1..n /\ 1 + ((a + 1) % 2) \in 1..2
    BY <1>1
  <2>2. new[a] = [e |-> keep[(a + 1) \div 2].e, half |-> 1 + ((a + 1) % 2)]
    BY <1>2
  <2>. QED  BY <2>1, <2>2, <1>1 DEF HalfRecs
<1>4. new \in Files /\ Len(new) = 2 * n
  <2>1. new \in [1..(2 * n) -> HalfRecs]
    BY <1>2, <1>3
  <2>2. 2 * n \in Nat
    BY <1>1
  <2>. QED  BY <2>1, <2>2 DEF Files
<1>5. ASSUME NEW i \in 1..n
      PROVE  /\ new[2 * i - 1] = [e |-> keep[i].e, half |-> 1]
             /\ new[2 * i] = [e |-> keep[i].e, half |-> 2]
  <2>1. 2 * i - 1 \in 1..(2 * n) /\ 2 * i \in 1..(2 * n)
    BY <1>1
  <2>2. /\ (2 * i - 1 + 1) \div 2 = i /\ (2 * i - 1 + 1) % 2 = 0
        /\ (2 * i + 1) \div 2 = i /\ (2 * i + 1) % 2 = 1
    OBVIOUS
  <2>. QED  BY <2>1, <2>2, <1>2
<1>6. Whole(new, 2 * n)
  <2>1. ASSUME NEW o \in 0..(2 * n - 1), o % 2 = 0 PROVE Readable(new, o)
    <3>. DEFINE i == o \div 2 + 1
    <3>1. i \in 1..n /\ o + 1 = 2 * i - 1 /\ o + 2 = 2 * i /\ o + 2 <= 2 * n
      BY <2>1, <1>1
    <3>. HIDE DEF i
    <3>2. new[2 * i - 1] = [e |-> keep[i].e, half |-> 1] /\ new[2 * i] = [e |-> keep[i].e, half |-> 2]
      BY <3>1, <1>5
    <3>3. new[o + 1] = [e |-> keep[i].e, half |-> 1] /\ new[o + 2] = [e |-> keep[i].e, half |-> 2]
      BY <3>1, <3>2
    <3>. QED  BY <3>1, <3>3, <1>4 DEF Readable, RECORD_SIZE
  <2>. QED  BY <2>1, <1>4 DEF Whole
<1>. QED  BY <1>1, <1>3, <1>4, <1>5, <1>6 DEF n, new

LEMMA RewrittenEvents ==
    ASSUME NEW f \in Files, NEW from \in Nat, NEW to \in Nat
    PROVE  LET new == Rewritten(Slots(f, from, to))
           IN  Events(new, 0, Len(new)) = Events(f, from, to)
<1>. DEFINE keep == Slots(f, from, to)
            n == Len(keep)
            new == Rewritten(keep)
            w == Len(new)
<1>1. keep \in Seq(SlotRecs)
  BY SlotsFacts DEF Files
<1>2. /\ new \in Files /\ w = 2 * n /\ n \in Nat /\ Whole(new, w)
      /\ \A i \in 1..n : new[2 * i - 1] = [e |-> keep[i].e, half |-> 1]
  <2>. HIDE DEF keep
  <2>. QED  BY <1>1, RewrittenFacts
<1>. HIDE DEF new
<1>3. w \in Nat /\ w % 2 = 0 /\ (w - 0) \div 2 = n /\ 0 <= w
  <2>. HIDE DEF w, n
  <2>. QED  BY <1>2
<1>. HIDE DEF w
<1>4. Events(new, 0, w) = [i \in 1..((w - 0) \div 2) |-> new[0 + 2 * i - 1].e]
  <2>. DEFINE z == 0
  <2>1. z \in Nat /\ z % 2 = 0 /\ z <= w
    BY <1>3
  <2>. HIDE DEF z
  <2>2. Events(new, z, w) = [i \in 1..((w - z) \div 2) |-> new[z + 2 * i - 1].e]
    BY <1>2, <1>3, <2>1, EventsWhole
  <2>. QED  BY <2>2 DEF z
<1>5. Events(f, from, to) = [i \in 1..n |-> keep[i].e]
  <2>1. DOMAIN keep = 1..n
    BY <1>1
  <2>. QED  BY <2>1 DEF Events
<1>6. ASSUME NEW i \in 1..n PROVE new[0 + 2 * i - 1].e = keep[i].e
  <2>1. 0 + 2 * i - 1 = 2 * i - 1
    BY <1>2
  <2>2. new[2 * i - 1].e = keep[i].e
    <3>. HIDE DEF keep, n
    <3>1. new[2 * i - 1] = [e |-> keep[i].e, half |-> 1]
      BY <1>2
    <3>. QED  BY <3>1
  <2>. QED  BY <2>1, <2>2
<1>. HIDE DEF keep, n
<1>. QED  BY <1>3, <1>4, <1>5, <1>6 DEF w, new, keep, n

LEMMA RewrittenOrdered ==
    ASSUME NEW f \in Files, NEW from \in Nat, NEW to \in Nat, NEW n \in Nat,
           OrderedUpTo(f, n)
    PROVE  OrderedUpTo(Rewritten(Slots(f, from, to)), n)
<1>. DEFINE keep == Slots(f, from, to)
            new == Rewritten(keep)
<1>1. keep \in Seq(SlotRecs)
  BY SlotsFacts DEF Files
<1>2. /\ \A i \in 1..Len(keep) : keep[i].e.bottle <= n
      /\ \A i, j \in 1..Len(keep) : i < j => keep[i].e.bottle < keep[j].e.bottle
  BY SlotsOrdered
<1>. HIDE DEF keep
<1>3. /\ Len(new) \in Nat
      /\ \A a \in 1..Len(new) :
            /\ (a + 1) \div 2 \in 1..Len(keep)
            /\ new[a].e = keep[(a + 1) \div 2].e
            /\ new[a].half = 1 + ((a + 1) % 2)
  BY <1>1, RewrittenFacts
<1>. HIDE DEF new
<1>4. ASSUME NEW a \in 1..Len(new) PROVE new[a].e.bottle <= n
  BY <1>2, <1>3
<1>5. ASSUME NEW a \in 1..Len(new), NEW b \in 1..Len(new), a < b
      PROVE  \/ new[a].e.bottle < new[b].e.bottle
             \/ new[a].e.bottle = new[b].e.bottle /\ new[a].half < new[b].half
  <2>. DEFINE i == (a + 1) \div 2
              j == (b + 1) \div 2
  <2>1. /\ i \in 1..Len(keep) /\ j \in 1..Len(keep)
        /\ new[a].e = keep[i].e /\ new[b].e = keep[j].e
        /\ new[a].half = 1 + ((a + 1) % 2) /\ new[b].half = 1 + ((b + 1) % 2)
    BY <1>3
  <2>2. a \in Nat /\ b \in Nat
    BY <1>3
  <2>3. i < j \/ (i = j /\ 1 + ((a + 1) % 2) < 1 + ((b + 1) % 2))
    BY <2>2, <1>5
  <2>. HIDE DEF i, j
  <2>. QED  BY <2>1, <2>3, <1>2
<1>. QED  BY <1>4, <1>5 DEF OrderedUpTo, new, keep

-----------------------------------------------------------------------------
(* reconcileTotals and what it counts in the journal. *)

Unread(r, f) == IF canRead(r) THEN Len(Slots(f, r.aoff, r.woff)) ELSE 0

LEMMA MaxOfTwo ==
    ASSUME NEW a \in Int, NEW b \in Int
    PROVE  /\ Max({a, b}) \in {a, b} /\ Max({a, b}) >= a /\ Max({a, b}) >= b
<1>1. CASE a >= b
  BY <1>1 DEF Max
<1>2. CASE b > a
  BY <1>2 DEF Max
<1>. QED  BY <1>1, <1>2

LEMMA ReconciledFacts ==
    ASSUME NEW r \in Rams, NEW f \in Files, r.aoff > 0 => r.synced > 0
    PROVE  LET R == Reconciled(r, f)
               sum == r.synced + Unread(r, f) + r.size
           IN  /\ R \in Rams /\ sum \in Nat /\ Unread(r, f) \in Nat
               /\ R.total >= r.total /\ R.total >= sum /\ R.total \in {r.total, sum}
               /\ R.woff = r.woff /\ R.aoff = r.aoff /\ R.sdOk = r.sdOk /\ R.mounted = r.mounted
               /\ R.nextId = r.nextId /\ R.synced = r.synced /\ R.head = r.head
               /\ R.size = r.size /\ R.ring = r.ring /\ R.dirty = r.dirty
<1>. DEFINE R == Reconciled(r, f)
            u == Unread(r, f)
            sum == r.synced + u + r.size
            td == IF canRead(r) \/ r.synced + r.size > r.total THEN FALSE ELSE r.totalsDirty
<1>1. /\ r.woff \in Nat /\ r.aoff \in Nat /\ r.synced \in Nat /\ r.total \in Nat
      /\ r.size \in 0..RingSize /\ r.totalsDirty \in BOOLEAN
  BY DEF Rams
<1>2. RingSize \in Nat
  BY BottleAssumption
<1>3. u \in Nat
  <2>1. Len(Slots(f, r.aoff, r.woff)) \in Nat
    BY <1>1, SlotsFacts DEF Files
  <2>. QED  BY <2>1 DEF Unread
<1>4. (IF canRead(r) THEN SumDeltas(f, r.aoff, r.woff) ELSE 0) = u
  BY <1>1 DEF SumDeltas, Unread, canRead
<1>5. (IF canRead(r) /\ r.synced = 0 /\ r.aoff > 0 THEN SumDeltas(f, 0, r.aoff) ELSE r.synced)
        = r.synced
  BY <1>1
<1>6. R = [r EXCEPT !.synced = r.synced, !.total = Max({r.total, sum}), !.totalsDirty = td]
  BY <1>4, <1>5 DEF Reconciled
<1>. HIDE DEF R, u
<1>7. sum \in Nat /\ sum \in Int /\ r.total \in Int
  BY <1>1, <1>2, <1>3
<1>. HIDE DEF sum
<1>8. /\ Max({r.total, sum}) \in {r.total, sum} /\ Max({r.total, sum}) >= r.total
      /\ Max({r.total, sum}) >= sum
  BY <1>7, MaxOfTwo
<1>9. Max({r.total, sum}) \in Nat
  BY <1>1, <1>7, <1>8
<1>10. td \in BOOLEAN
  BY <1>1
<1>. HIDE DEF td
<1>11. R \in Rams
  BY <1>1, <1>6, <1>9, <1>10 DEF Rams
<1>12. R.total = Max({r.total, sum})
  BY <1>6 DEF Rams
<1>13. /\ R.woff = r.woff /\ R.aoff = r.aoff /\ R.sdOk = r.sdOk /\ R.mounted = r.mounted
       /\ R.nextId = r.nextId /\ R.synced = r.synced /\ R.head = r.head
       /\ R.size = r.size /\ R.ring = r.ring /\ R.dirty = r.dirty
  BY <1>6 DEF Rams
<1>. QED  BY <1>3, <1>7, <1>8, <1>11, <1>12, <1>13 DEF R, u, sum

LEMMA ReconcileWritten ==
    ASSUME NEW r \in Rams, NEW f \in Files, r.aoff > 0 => r.synced > 0, NEW d \in Disks
    PROVE  LET R == Reconciled(r, f)
               ws == ReconcileWrites(r, f)
           IN  /\ IsWrites(ws)
               /\ \/ /\ ~canRead(r) /\ R.total = r.total
                     /\ WriteAll(d, ws) = d
                  \/ WriteAll(d, ws) =
                        [d EXCEPT !.total = R.total, !.nextId = r.nextId, !.synced = r.synced]
<1>. DEFINE R == Reconciled(r, f)
<1>1. R.nextId = r.nextId /\ R.synced = r.synced
  BY ReconciledFacts
<1>. HIDE DEF R
<1>2. CASE canRead(r) \/ R.total # r.total
  <2>1. ReconcileWrites(r, f) = persistTotals(R)
    BY <1>2 DEF ReconcileWrites, R
  <2>2. /\ IsWrites(persistTotals(R))
        /\ WriteAll(d, persistTotals(R)) =
             [d EXCEPT !.total = R.total, !.nextId = R.nextId, !.synced = R.synced]
    BY TotalsWrites
  <2>. QED  BY <2>1, <2>2, <1>1 DEF R
<1>3. CASE ~canRead(r) /\ R.total = r.total
  <2>1. ReconcileWrites(r, f) = <<>>
    BY <1>3 DEF ReconcileWrites, R
  <2>. QED  BY <2>1, <1>3, WritesNone DEF R
<1>. QED  BY <1>2, <1>3

-----------------------------------------------------------------------------
(* Acknowledgements *)

LEMMA AckedType ==
    ASSUME NEW ids \in Seq(Nat), NEW a \in Nat
    PROVE  countAckedInBatch(a, ids) \in 0..Len(ids)
<1>. DEFINE above == {i \in DOMAIN ids : ids[i] # 0 /\ ids[i] > a}
<1>1. above \in SUBSET (1..Len(ids)) /\ Len(ids) \in Nat
  OBVIOUS
<1>2. CASE above = {}
  BY <1>1, <1>2 DEF countAckedInBatch
<1>3. CASE above # {}
  <2>. HIDE DEF above
  <2>0. above \in SUBSET Nat
    BY <1>1
  <2>1. Min(above) \in above
    BY <1>3, <2>0, MinOf
  <2>2. Min(above) \in 1..Len(ids)
    BY <2>1, <1>1
  <2>3. countAckedInBatch(a, ids) = Min(above) - 1
    BY <1>3 DEF countAckedInBatch, above
  <2>. QED  BY <2>2, <2>3, <1>1
<1>. QED  BY <1>2, <1>3

(* Of a batch whose ids rise, as many are acknowledged as come up to the id *)
LEMMA AckedRising ==
    ASSUME NEW ids \in Seq(Nat), NEW k \in 1..Len(ids),
           \A i, j \in 1..Len(ids) : i < j => ids[i] < ids[j]
    PROVE  countAckedInBatch(ids[k], ids) = k
<1>. DEFINE above == {i \in DOMAIN ids : ids[i] # 0 /\ ids[i] > ids[k]}
            n == Len(ids)
<1>1. n \in Nat /\ DOMAIN ids = 1..n /\ \A i \in 1..n : ids[i] \in Nat
  OBVIOUS
<1>2. \A i \in 1..n : i \in above <=> i > k
  <2>. TAKE i \in 1..n
  <2>1. i > k => ids[i] > ids[k] /\ ids[i] # 0
    BY <1>1
  <2>2. i < k => ids[i] < ids[k]
    BY <1>1
  <2>3. i \in Int /\ k \in Int /\ ids[i] \in Int /\ ids[k] \in Int
    BY <1>1
  <2>. QED  BY <2>1, <2>2, <2>3, <1>1
<1>3. above \in SUBSET (1..n)
  BY <1>1
<1>4. countAckedInBatch(ids[k], ids) = IF above = {} THEN n ELSE Min(above) - 1
  BY DEF countAckedInBatch
<1>. HIDE DEF above, n
<1>5. CASE k = n
  <2>1. above = {}
    BY <1>1, <1>2, <1>3, <1>5
  <2>. QED  BY <2>1, <1>4, <1>5
<1>6. CASE k # n
  <2>0. k \in 1..n
    BY DEF n
  <2>1. k + 1 \in 1..n /\ k \in 1..n
    BY <2>0, <1>6, <1>1
  <2>2. k + 1 \in above
    BY <2>1, <1>2
  <2>3. above \in SUBSET Nat
    BY <1>1, <1>3
  <2>4. Min(above) \in above /\ Min(above) <= k + 1
    BY <2>2, <2>3, MinOf
  <2>5. Min(above) \in 1..n
    BY <2>4, <1>3
  <2>6. Min(above) > k
    BY <2>4, <2>5, <1>2
  <2>. QED  BY <2>2, <2>4, <2>5, <2>6, <2>1, <1>4
<1>. QED  BY <1>5, <1>6

(* The offset after the first slot of that id *)
LEMMA AckOffset ==
    ASSUME ram \in Rams, disk.file \in Files,
           NEW j \in 1..Len(Slots(disk.file, ram.aoff, ram.woff)), NEW a,
           Slots(disk.file, ram.aoff, ram.woff)[j].e.id = a
    PROVE  LET s == Slots(disk.file, ram.aoff, ram.woff)
           IN  \E k \in 1..j : /\ s[k].e.id = a /\ findAckOffset(a) = s[k].next
<1>. DEFINE s == Slots(disk.file, ram.aoff, ram.woff)
            n == Len(s)
            hits == {x \in Range(s) : x.e.id = a}
            T == {x.next : x \in hits}
<1>1. /\ n \in Nat /\ DOMAIN s = 1..n /\ \A i \in 1..n : s[i].next \in Nat
      /\ \A h, i \in 1..n : h < i => s[h].next < s[i].next
  <2>1. ram.aoff \in Nat /\ ram.woff \in Nat
    BY DEF Rams
  <2>. QED  BY <2>1, SlotsFacts DEF Files
<1>2. findAckOffset(a) = IF hits = {} THEN ram.aoff ELSE Min(T)
  BY DEF findAckOffset
<1>. HIDE DEF s
<1>3. s[j] \in hits
  BY <1>1 DEF s, Range
<1>4. \A x \in hits : \E i \in 1..n : x = s[i] /\ s[i].e.id = a
  BY <1>1 DEF Range
<1>. HIDE DEF hits, n
<1>5. T \in SUBSET Nat /\ s[j].next \in T
  BY <1>1, <1>3, <1>4
<1>. HIDE DEF T
<1>6. Min(T) \in T /\ Min(T) <= s[j].next
  BY <1>5, MinOf
<1>7. PICK x \in hits : Min(T) = x.next
  BY <1>6 DEF T
<1>8. PICK k \in 1..n : x = s[k] /\ s[k].e.id = a
  BY <1>4, <1>7
<1>9. j \in 1..n
  BY DEF n, s
<1>10. s[k].next <= s[j].next
  BY <1>6, <1>7, <1>8
<1>11. ~(j < k)
  <2>1. SUFFICES ASSUME j < k PROVE FALSE
    OBVIOUS
  <2>2. s[j].next < s[k].next /\ s[j].next \in Nat /\ s[k].next \in Nat
    BY <2>1, <1>1, <1>8, <1>9
  <2>. QED  BY <2>2, <1>10
<1>12. k \in 1..j
  BY <1>8, <1>9, <1>11
<1>13. findAckOffset(a) = s[k].next
  BY <1>2, <1>3, <1>7, <1>8
<1>. QED  BY <1>12, <1>13, <1>8 DEF s

-----------------------------------------------------------------------------
(* What the server stores of a batch. *)

Inserted(st, evs) ==
    LET fresh == {e \in evs : e.id \notin {s.id : s \in st}}
    IN  st \cup {e \in fresh : \A f \in fresh : f.id = e.id => e.bottle <= f.bottle}

LEMMA InsertedFacts ==
    ASSUME NEW st \in SUBSET Ev, NEW evs \in SUBSET Ev
    PROVE  LET st2 == Inserted(st, evs)
           IN  /\ st \subseteq st2 /\ st2 \subseteq st \cup evs /\ st2 \in SUBSET Ev
               /\ \A e \in evs : \E s \in st2 : s.id = e.id
               /\ (\A x, y \in st : x.id = y.id => x = y) =>
                     \A x, y \in st2 : x.id = y.id => x = y
<1>. DEFINE fresh == {e \in evs : e.id \notin {s.id : s \in st}}
            first == {e \in fresh : \A f \in fresh : f.id = e.id => e.bottle <= f.bottle}
            st2 == Inserted(st, evs)
<1>1. st2 = st \cup first
  BY DEF Inserted
<1>2. ASSUME NEW e \in evs PROVE \E s \in st2 : s.id = e.id
  <2>1. CASE \E s \in st : s.id = e.id
    BY <2>1, <1>1
  <2>2. CASE ~ \E s \in st : s.id = e.id
    <3>. DEFINE same == {f \in fresh : f.id = e.id}
                T == {f.bottle : f \in same}
    <3>1. e \in same
      BY <2>2
    <3>2. T \in SUBSET Nat /\ T # {}
      BY <3>1 DEF Ev
    <3>3. PICK g \in same : g.bottle = Min(T) /\ \A y \in T : Min(T) <= y
      <4>. HIDE DEF T
      <4>1. Min(T) \in T /\ \A y \in T : Min(T) <= y
        BY <3>2, MinOf
      <4>. QED  BY <4>1 DEF T
    <3>4. \A f \in fresh : f.id = g.id => g.bottle <= f.bottle
      BY <3>3
    <3>5. g \in first /\ g.id = e.id
      BY <3>3, <3>4
    <3>. QED  BY <3>5, <1>1
  <2>. QED  BY <2>1, <2>2
<1>3. ASSUME \A x, y \in st : x.id = y.id => x = y, NEW x \in st2, NEW y \in st2, x.id = y.id
      PROVE  x = y
  <2>1. CASE x \in st /\ y \in st
    BY <2>1, <1>3
  <2>2. CASE x \in st /\ y \in first
    BY <2>2, <1>3
  <2>3. CASE x \in first /\ y \in st
    BY <2>3, <1>3
  <2>4. CASE x \in first /\ y \in first
    <3>1. x.bottle <= y.bottle /\ y.bottle <= x.bottle
      BY <2>4, <1>3
    <3>2. x \in Ev /\ y \in Ev
      BY <2>4
    <3>3. x.bottle = y.bottle
      BY <3>1, <3>2 DEF Ev
    <3>. QED  BY <3>2, <3>3, <1>3 DEF Ev
  <2>. QED  BY <2>1, <2>2, <2>3, <2>4, <1>1
<1>4. st \subseteq st2 /\ st2 \subseteq st \cup evs /\ st2 \in SUBSET Ev
  BY <1>1
<1>. QED  BY <1>2, <1>3, <1>4

(* The k first events of p are read no more, its bottles are in order, and  *)
(* every event of evs is stored under its id and under no other.            *)
Dropped(p, q, k) == /\ Len(q) = Len(p) - k
                    /\ \A i \in 1..(Len(p) - k) : q[i] = p[i + k]
Climbing(p) == \A i, j \in 1..Len(p) : i < j => p[i].bottle < p[j].bottle
Faithful(evs, st) ==
    /\ \A x \in evs : \E s \in st : s.id = x.id /\ s.bottle = x.bottle
    /\ \A x, y \in evs \cup st : x.id = y.id => x.bottle = y.bottle

(* What an upload keeps of the links between ids and bottles *)
LEMMA LinkedUpload ==
    ASSUME NEW w \in SUBSET Ev, NEW evs \in SUBSET w, NEW w2 \in SUBSET w,
           NEW st \in SUBSET Ev, NEW rc, Bottles(st) \subseteq rc, Linked(w, st, rc)
    PROVE  LET st2 == Inserted(st, evs)
               rc2 == rc \cup Bottles(evs)
           IN  /\ Linked(w2, st2, rc2) /\ Ids(evs) \subseteq Ids(st2) /\ Ids(st) \subseteq Ids(st2)
               /\ Bottles(st2) \subseteq rc2
<1>. DEFINE st2 == Inserted(st, evs)
            rc2 == rc \cup Bottles(evs)
<1>1. /\ st \subseteq st2 /\ st2 \subseteq st \cup evs
      /\ \A e \in evs : \E s \in st2 : s.id = e.id
      /\ \A x, y \in st2 : x.id = y.id => x = y
  <2>1. evs \in SUBSET Ev
    OBVIOUS
  <2>2. \A x, y \in st : x.id = y.id => x = y
    BY DEF Linked
  <2>. QED  BY <2>1, <2>2, InsertedFacts
<1>. HIDE DEF st2
<1>2. \A x, y \in w \cup st : x.bottle = y.bottle => x.id = y.id
  BY DEF Linked
<1>3. \A x \in w : x.bottle \in rc => \E s \in st : s.id = x.id
  BY DEF Linked, Ids
<1>4. Ids(evs) \subseteq Ids(st2) /\ Ids(st) \subseteq Ids(st2)
  BY <1>1 DEF Ids
<1>5. Linked(w2, st2, rc2)
  <2>1. \A x, y \in w2 \cup st2 : x.bottle = y.bottle => x.id = y.id
    BY <1>1, <1>2
  <2>2. ASSUME NEW x \in w2, x.bottle \in rc2 PROVE \E s \in st2 : s.id = x.id
    <3>1. CASE x.bottle \in rc
      BY <3>1, <1>3, <1>1
    <3>2. CASE x.bottle \in Bottles(evs)
      <4>1. PICK e \in evs : e.bottle = x.bottle
        BY <3>2 DEF Bottles
      <4>2. x.id = e.id
        BY <4>1, <1>2
      <4>. QED  BY <4>2, <1>1
    <3>. QED  BY <3>1, <3>2, <2>2
  <2>3. \A x \in w2 : x.bottle \in rc2 => x.id \in Ids(st2)
    BY <2>2 DEF Ids
  <2>. HIDE DEF rc2
  <2>. QED  BY <2>1, <2>3, <1>1 DEF Linked
<1>6. Bottles(st2) \subseteq rc2
  BY <1>1 DEF Bottles
<1>. QED  BY <1>4, <1>5, <1>6 DEF st2

(* and, when every bottle posted is stored, that all of them were before *)
LEMMA LinkedStored ==
    ASSUME NEW w \in SUBSET Ev, NEW evs \in SUBSET w,
           NEW st \in SUBSET Ev, NEW rc, Bottles(st) \subseteq rc, Linked(w, st, rc),
           rc \cup Bottles(evs) = Bottles(Inserted(st, evs))
    PROVE  LET st2 == Inserted(st, evs)
           IN  rc = Bottles(st) /\ Faithful(evs, st2)
<1>. DEFINE st2 == Inserted(st, evs)
            rc2 == rc \cup Bottles(evs)
<1>0. rc2 = Bottles(st2)
  OBVIOUS
<1>1. /\ st \subseteq st2 /\ st2 \subseteq st \cup evs
      /\ \A e \in evs : \E s \in st2 : s.id = e.id
      /\ \A x, y \in st2 : x.id = y.id => x = y
  <2>1. evs \in SUBSET Ev
    OBVIOUS
  <2>2. \A x, y \in st : x.id = y.id => x = y
    BY DEF Linked
  <2>. QED  BY <2>1, <2>2, InsertedFacts
<1>. HIDE DEF st2
<1>2. \A x, y \in w \cup st : x.bottle = y.bottle => x.id = y.id
  BY DEF Linked
<1>3. \A x \in w : x.bottle \in rc => \E s \in st : s.id = x.id
  BY DEF Linked, Ids
<1>7. /\ rc = Bottles(st)
      /\ \A x \in evs : \E s \in st2 : s.id = x.id /\ s.bottle = x.bottle
      /\ \A x, y \in evs \cup st2 : x.id = y.id => x.bottle = y.bottle
  <2>1. ASSUME NEW x \in evs PROVE \E s \in st2 : s.id = x.id /\ s.bottle = x.bottle
    <3>1. x.bottle \in Bottles(st2)
      BY <1>0 DEF Bottles
    <3>2. PICK s \in st2 : s.bottle = x.bottle
      BY <3>1 DEF Bottles
    <3>3. s.id = x.id
      BY <3>2, <1>1, <1>2
    <3>. QED  BY <3>2, <3>3
  <2>2. ASSUME NEW x \in evs \cup st2, NEW y \in evs \cup st2, x.id = y.id
        PROVE  x.bottle = y.bottle
    <3>1. PICK s \in st2 : s.id = x.id /\ s.bottle = x.bottle
      BY <2>1
    <3>2. PICK t \in st2 : t.id = y.id /\ t.bottle = y.bottle
      BY <2>1
    <3>3. s = t
      BY <3>1, <3>2, <2>2, <1>1
    <3>. QED  BY <3>1, <3>2, <3>3
  <2>3. rc = Bottles(st)
    <3>1. ASSUME NEW b \in rc PROVE b \in Bottles(st)
      <4>1. b \in Bottles(st2)
        BY <1>0
      <4>2. PICK s \in st2 : s.bottle = b
        BY <4>1 DEF Bottles
      <4>3. CASE s \in st
        BY <4>2, <4>3 DEF Bottles
      <4>4. CASE s \notin st
        <5>1. s \in evs /\ s \in w
          BY <4>4, <1>1
        <5>2. PICK t \in st : t.id = s.id
          BY <5>1, <4>2, <1>3
        <5>3. t = s
          BY <5>2, <1>1
        <5>. QED  BY <5>3, <4>4
      <4>. QED  BY <4>3, <4>4
    <3>. QED  BY <3>1
  <2>. QED  BY <2>1, <2>2, <2>3
<1>. QED  BY <1>7 DEF st2, Faithful

(* Pending events after the first k, all of them among those uploaded *)
LEMMA FilledDrop ==
    ASSUME NEW p \in Seq(Ev), NEW q \in Seq(Ev), NEW k \in 0..Len(p), Dropped(p, q, k),
           NEW st, NEW st2, Ids(st) \subseteq Ids(st2),
           \A i \in 1..k : p[i].id \in Ids(st2),
           NEW nx \in Nat, NEW snx \in Nat, Filled(p, st, nx, snx)
    PROVE  Filled(q, st2, nx, snx)
<1>1. /\ Len(p) \in Nat /\ DOMAIN p = 1..Len(p) /\ DOMAIN q = 1..Len(q)
      /\ Len(q) = Len(p) - k
      /\ \A i \in 1..(Len(p) - k) : q[i] = p[i + k]
  BY DEF Dropped
<1>2. Ids(st) \cup Ids(Range(p)) \subseteq Ids(st2) \cup Ids(Range(q))
  <2>1. ASSUME NEW i \in 1..Len(p) PROVE p[i].id \in Ids(st2) \cup Ids(Range(q))
    <3>1. CASE i <= k
      BY <3>1, <1>1
    <3>2. CASE i > k
      <4>1. i - k \in 1..(Len(p) - k) /\ (i - k) + k = i
        BY <3>2, <1>1
      <4>2. q[i - k] = p[i] /\ i - k \in DOMAIN q
        BY <4>1, <1>1
      <4>3. p[i] \in Range(q)
        BY <4>2 DEF Range
      <4>. QED  BY <4>3 DEF Ids
    <3>. QED  BY <3>1, <3>2, <1>1
  <2>2. Ids(Range(p)) \subseteq Ids(st2) \cup Ids(Range(q))
    BY <2>1, <1>1 DEF Ids, Range
  <2>. QED  BY <2>2
<1>3. ASSUME NEW i \in DOMAIN q, NEW n \in nx..q[i].id
      PROVE  n \in Ids(st2) \cup Ids(Range(q))
  <2>1. i + k \in DOMAIN p /\ q[i] = p[i + k]
    BY <1>1
  <2>2. n \in Ids(st) \cup Ids(Range(p))
    BY <2>1 DEF Filled
  <2>. QED  BY <2>2, <1>2
<1>4. ASSUME NEW n \in snx..(nx - 1) PROVE n \in Ids(st2) \cup Ids(Range(q))
  BY <1>2 DEF Filled
<1>. QED  BY <1>3, <1>4 DEF Filled

Foremost(p, b) == {p[i] : i \in 1..b}
Ascending(p, b) == \A i, j \in 1..b : i < j => p[i].id < p[j].id

(* Where the ids of what is left do not rise, the doubled one is left too,  *)
(* or it is stored for another bottle.                                      *)
LEMMA RisingDrop ==
    ASSUME NEW p \in Seq(Ev), NEW q \in Seq(Ev), NEW b \in 0..Len(p), NEW k \in 0..b,
           Dropped(p, q, k), Climbing(p),
           NEW st, NEW st2, st \subseteq st2,
           NEW evs, evs = Foremost(p, b), Faithful(evs, st2),
           Rising(p, st)
    PROVE  Rising(q, st2) /\ Ascending(p, b)
<1>1. /\ Len(p) \in Nat /\ DOMAIN p = 1..Len(p) /\ DOMAIN q = 1..Len(q)
      /\ \A i \in 1..Len(p) : p[i] \in Ev
  OBVIOUS
<1>5. /\ Len(q) = Len(p) - k
      /\ \A i \in 1..(Len(p) - k) : q[i] = p[i + k]
  BY DEF Dropped
<1>6. \A i, j \in 1..Len(p) : i < j => p[i].bottle < p[j].bottle
  BY DEF Climbing
<1>7. /\ \A x \in evs : \E s \in st2 : s.id = x.id /\ s.bottle = x.bottle
      /\ \A x, y \in evs \cup st2 : x.id = y.id => x.bottle = y.bottle
      /\ \A i \in 1..b : p[i] \in evs
  BY DEF Faithful, Foremost
<1>2. \A i \in 1..Len(p) : p[i].id \in Nat /\ p[i].bottle \in Nat
  BY <1>1 DEF Ev
<1>3. ASSUME NEW i \in 1..b, NEW j \in 1..b, i < j PROVE p[i].id < p[j].id
  <2>0. p[i].id \in Nat /\ p[j].id \in Nat
    <3>1. i \in 1..Len(p) /\ j \in 1..Len(p)
      BY <1>1
    <3>. QED  BY <3>1, <1>2
  <2>1. SUFFICES ASSUME p[j].id <= p[i].id PROVE FALSE
    BY <2>0
  <2>2. j \in DOMAIN p /\ i \in 1..(j - 1)
    BY <1>1, <1>3
  <2>3. Doubled(p, st, j)
    BY <2>1, <2>2 DEF Rising
  <2>4. CASE \E s \in st : s.id = p[j].id /\ s.bottle # p[j].bottle
    <3>1. PICK s \in st : s.id = p[j].id /\ s.bottle # p[j].bottle
      BY <2>4
    <3>2. s \in evs \cup st2 /\ p[j] \in evs \cup st2
      BY <1>7
    <3>. QED  BY <3>1, <3>2, <1>7
  <2>5. CASE \E h \in 1..(j - 1) : p[h].id = p[j].id
    <3>1. PICK h \in 1..(j - 1) : p[h].id = p[j].id
      BY <2>5
    <3>2. h \in 1..b /\ h \in 1..Len(p) /\ j \in 1..Len(p) /\ h < j
      BY <1>1
    <3>3. p[h].bottle = p[j].bottle
      BY <3>1, <3>2, <1>7
    <3>4. p[h].bottle < p[j].bottle
      BY <3>2, <1>6
    <3>. QED  BY <3>2, <3>3, <3>4, <1>2
  <2>. QED  BY <2>3, <2>4, <2>5 DEF Doubled
<1>4. ASSUME NEW j \in DOMAIN q, NEW i \in 1..(j - 1), q[j].id <= q[i].id
      PROVE  Doubled(q, st2, j)
  <2>1. /\ j + k \in 1..Len(p) /\ i + k \in 1..(j + k - 1) /\ q[j] = p[j + k] /\ q[i] = p[i + k]
        /\ j \in 1..(Len(p) - k) /\ i \in 1..(Len(p) - k)
    BY <1>1, <1>5
  <2>2. Doubled(p, st, j + k)
    BY <2>1, <1>4, <1>1 DEF Rising
  <2>3. CASE \E s \in st : s.id = p[j + k].id /\ s.bottle # p[j + k].bottle
    BY <2>1, <2>3 DEF Doubled
  <2>4. CASE \E h \in 1..(j + k - 1) : p[h].id = p[j + k].id
    <3>1. PICK h \in 1..(j + k - 1) : p[h].id = p[j + k].id
      BY <2>4
    <3>2. CASE h > k
      <4>1. h - k \in 1..(j - 1) /\ (h - k) + k = h /\ h - k \in 1..(Len(p) - k)
        BY <3>2, <2>1, <1>1
      <4>2. q[h - k] = p[h]
        BY <4>1, <1>5
      <4>. QED  BY <4>1, <4>2, <3>1, <2>1 DEF Doubled
    <3>3. CASE h <= k
      <4>1. h \in 1..b /\ h \in 1..Len(p) /\ h < j + k
        BY <3>3, <2>1, <1>1
      <4>2. PICK s \in st2 : s.id = p[h].id /\ s.bottle = p[h].bottle
        BY <4>1, <1>7
      <4>3. p[h].bottle < p[j + k].bottle
        BY <4>1, <2>1, <1>6
      <4>4. s.bottle # p[j + k].bottle
        <5>1. p[h].bottle \in Nat /\ p[j + k].bottle \in Nat
          BY <4>1, <2>1, <1>2
        <5>. QED  BY <5>1, <4>2, <4>3
      <4>. QED  BY <4>2, <4>4, <3>1, <2>1 DEF Doubled
    <3>. QED  BY <3>2, <3>3, <2>1
  <2>. QED  BY <2>2, <2>3, <2>4 DEF Doubled
<1>8. Ascending(p, b)
  BY <1>3 DEF Ascending
<1>. QED  BY <1>4, <1>8 DEF Rising

-----------------------------------------------------------------------------
(* The backup ring: enqueued at its end, popped at its head. *)

LEMMA Around ==
    ASSUME NEW R \in Nat \ {0}, NEW x \in Nat
    PROVE  /\ x % R \in 0..(R - 1)
           /\ x < R => x % R = x
           /\ R <= x /\ x < 2 * R => x % R = x - R
OBVIOUS

LEMMA RingFacts ==
    ASSUME NEW r \in Rams
    PROVE  /\ Ring(r) \in Seq(Ev) /\ Len(Ring(r)) = r.size /\ DOMAIN Ring(r) = 1..r.size
           /\ r.size \in Nat
           /\ \A i \in 1..r.size : /\ (r.head + i - 1) % RingSize \in 0..(RingSize - 1)
                                   /\ Ring(r)[i] = r.ring[(r.head + i - 1) % RingSize]
<1>1. RingSize \in Nat \ {0}
  BY BottleAssumption
<1>2. /\ r.head \in 0..(RingSize - 1) /\ r.size \in 0..RingSize
      /\ r.ring \in [0..(RingSize - 1) -> Ev]
  BY DEF Rams, Rings
<1>3. ASSUME NEW i \in 1..r.size PROVE (r.head + i - 1) % RingSize \in 0..(RingSize - 1)
  <2>1. r.head + i - 1 \in Nat
    BY <1>2
  <2>. QED  BY <2>1, <1>1, Around
<1>4. Ring(r) = [i \in 1..r.size |-> r.ring[(r.head + i - 1) % RingSize]]
  BY DEF Ring
<1>5. r.size \in Nat
  BY <1>1, <1>2
<1>6. Ring(r) \in [1..r.size -> Ev]
  BY <1>2, <1>3, <1>4
<1>7. Ring(r) \in Seq(Ev) /\ Len(Ring(r)) = r.size /\ DOMAIN Ring(r) = 1..r.size
  BY <1>5, <1>6
<1>. QED  BY <1>3, <1>4, <1>5, <1>7

LEMMA EnqueuedFacts ==
    ASSUME NEW r \in Rams, NEW e \in Ev
    PROVE  LET E == Enqueued(r, e)
           IN  /\ E \in Rams
               /\ E.woff = r.woff /\ E.aoff = r.aoff /\ E.sdOk = r.sdOk /\ E.mounted = r.mounted
               /\ E.total = r.total /\ E.nextId = r.nextId /\ E.synced = r.synced /\ E.dirty
               /\ E.size = (IF r.size < RingSize THEN r.size + 1 ELSE r.size)
               /\ \A i \in 0..(RingSize - 1) : E.ring[i] \in {e, r.ring[i]}
<1>. DEFINE E == Enqueued(r, e)
<1>0. RingSize \in Nat \ {0}
  BY BottleAssumption
<1>1. /\ r.head \in 0..(RingSize - 1) /\ r.size \in 0..RingSize
      /\ r.ring \in [0..(RingSize - 1) -> Ev] /\ r.since \in Nat
  BY DEF Rams, Rings
<1>2. CASE r.size < RingSize
  <2>. DEFINE at == (r.head + r.size) % RingSize
  <2>1. at \in 0..(RingSize - 1)
    <3>1. r.head + r.size \in Nat
      BY <1>1, <1>0
    <3>. QED  BY <3>1, <1>0, Around
  <2>2. E = [r EXCEPT !.ring[at] = e, !.size = @ + 1, !.dirty = TRUE, !.since = @ + 1]
    BY <1>2 DEF Enqueued
  <2>. HIDE DEF at, E
  <2>3. r.size + 1 \in 0..RingSize /\ r.since + 1 \in Nat
    BY <1>1, <1>2, <1>0
  <2>4. E \in Rams
    BY <2>1, <2>2, <2>3 DEF Rams, Rings
  <2>5. /\ E.woff = r.woff /\ E.aoff = r.aoff /\ E.sdOk = r.sdOk /\ E.mounted = r.mounted
        /\ E.total = r.total /\ E.nextId = r.nextId /\ E.synced = r.synced /\ E.dirty
        /\ E.size = r.size + 1 /\ E.ring = [r.ring EXCEPT ![at] = e]
    BY <2>2 DEF Rams
  <2>6. \A i \in 0..(RingSize - 1) : E.ring[i] \in {e, r.ring[i]}
    BY <2>5, <1>1
  <2>. QED  BY <2>4, <2>5, <2>6, <1>2 DEF E
<1>3. CASE ~(r.size < RingSize)
  <2>2. E = [r EXCEPT !.ring[r.head] = e, !.head = (@ + 1) % RingSize,
                   !.dirty = TRUE, !.since = @ + 1]
    BY <1>3 DEF Enqueued
  <2>. HIDE DEF E
  <2>3. (r.head + 1) % RingSize \in 0..(RingSize - 1) /\ r.since + 1 \in Nat
    <3>1. r.head + 1 \in Nat
      BY <1>1
    <3>2. (r.head + 1) % RingSize \in 0..(RingSize - 1)
      BY <3>1, <1>0, Around
    <3>. QED  BY <3>2, <1>1
  <2>4. E \in Rams
    BY <2>2, <2>3, <1>1 DEF Rams, Rings
  <2>5. /\ E.woff = r.woff /\ E.aoff = r.aoff /\ E.sdOk = r.sdOk /\ E.mounted = r.mounted
        /\ E.total = r.total /\ E.nextId = r.nextId /\ E.synced = r.synced /\ E.dirty
        /\ E.size = r.size /\ E.ring = [r.ring EXCEPT ![r.head] = e]
    BY <2>2 DEF Rams
  <2>6. \A i \in 0..(RingSize - 1) : E.ring[i] \in {e, r.ring[i]}
    BY <2>5, <1>1
  <2>. QED  BY <2>4, <2>5, <2>6, <1>3 DEF E
<1>. QED  BY <1>2, <1>3

LEMMA EnqueuedRing ==
    ASSUME NEW r \in Rams, NEW e \in Ev, r.size < RingSize
    PROVE  Range(Ring(Enqueued(r, e))) = Range(Ring(r)) \cup {e}
<1>. DEFINE E == Enqueued(r, e)
            at == (r.head + r.size) % RingSize
            n == r.size
<1>0. RingSize \in Nat \ {0}
  BY BottleAssumption
<1>1. /\ r.head \in 0..(RingSize - 1) /\ n \in 0..RingSize /\ n < RingSize
      /\ r.ring \in [0..(RingSize - 1) -> Ev]
  BY DEF Rams, Rings
<1>2. E \in Rams /\ E.size = n + 1
  BY EnqueuedFacts
<1>3. E = [r EXCEPT !.ring[at] = e, !.size = @ + 1, !.dirty = TRUE, !.since = @ + 1]
  BY DEF Enqueued
<1>4. E.ring = [r.ring EXCEPT ![at] = e] /\ E.head = r.head
  <2>. HIDE DEF E, at
  <2>. QED  BY <1>3 DEF Rams
<1>5. at \in 0..(RingSize - 1)
  <2>1. r.head + n \in Nat
    BY <1>1, <1>0
  <2>. QED  BY <2>1, <1>0, Around
<1>. HIDE DEF E
<1>6. ASSUME NEW i \in 1..n PROVE (r.head + i - 1) % RingSize # at
  <2>. DEFINE x == r.head + i - 1
              y == r.head + n
  <2>1. x \in Nat /\ y \in Nat /\ x < y /\ y < 2 * RingSize /\ y < x + RingSize
    BY <1>0, <1>1
  <2>. HIDE DEF x, y
  <2>2. /\ x < RingSize => x % RingSize = x
        /\ RingSize <= x /\ x < 2 * RingSize => x % RingSize = x - RingSize
        /\ y < RingSize => y % RingSize = y
        /\ RingSize <= y /\ y < 2 * RingSize => y % RingSize = y - RingSize
    BY <2>1, <1>0, Around
  <2>3. x % RingSize # y % RingSize
    BY <2>1, <2>2, <1>0
  <2>. QED  BY <2>3 DEF x, y
<1>. HIDE DEF at
<1>7. /\ DOMAIN Ring(E) = 1..(n + 1) /\ DOMAIN Ring(r) = 1..n
      /\ \A i \in 1..(n + 1) : Ring(E)[i] = E.ring[(E.head + i - 1) % RingSize]
      /\ \A i \in 1..n : /\ Ring(r)[i] = r.ring[(r.head + i - 1) % RingSize]
                         /\ (r.head + i - 1) % RingSize \in 0..(RingSize - 1)
  BY <1>2, RingFacts
<1>8. ASSUME NEW i \in 1..n PROVE Ring(E)[i] = Ring(r)[i]
  <2>1. i \in 1..(n + 1)
    BY <1>1
  <2>. QED  BY <2>1, <1>1, <1>4, <1>6, <1>7
<1>9. Ring(E)[n + 1] = e
  <2>1. n + 1 \in 1..(n + 1) /\ r.head + (n + 1) - 1 = r.head + n
    BY <1>1, <1>0
  <2>2. Ring(E)[n + 1] = E.ring[at]
    BY <2>1, <1>4, <1>7 DEF at
  <2>. QED  BY <2>2, <1>1, <1>4, <1>5
<1>10. \A i \in 1..(n + 1) : i \in 1..n \/ i = n + 1
  BY <1>1, <1>0
<1>11. 1..n \subseteq 1..(n + 1) /\ n + 1 \in 1..(n + 1)
  BY <1>1, <1>0
<1>. HIDE DEF n
<1>12. Range(Ring(E)) \subseteq Range(Ring(r)) \cup {e}
  BY <1>7, <1>8, <1>9, <1>10 DEF Range
<1>13. Range(Ring(r)) \subseteq Range(Ring(E))
  BY <1>7, <1>8, <1>11 DEF Range
<1>14. e \in Range(Ring(E))
  BY <1>7, <1>9, <1>11 DEF Range
<1>. QED  BY <1>12, <1>13, <1>14 DEF E

(* The ring without its first n events *)
Popped(r, n) == [r EXCEPT !.synced = @ + n, !.size = @ - n, !.head = (@ + n) % RingSize]

LEMMA PoppedFacts ==
    ASSUME NEW r \in Rams, NEW n \in 0..r.size
    PROVE  LET q == Popped(r, n)
           IN  /\ q \in Rams
               /\ q.woff = r.woff /\ q.aoff = r.aoff /\ q.sdOk = r.sdOk /\ q.mounted = r.mounted
               /\ q.total = r.total /\ q.nextId = r.nextId /\ q.synced = r.synced + n
               /\ q.size = r.size - n /\ q.ring = r.ring
               /\ Range(Ring(q)) \subseteq Range(Ring(r))
               /\ Range(Ring(r)) \subseteq {Ring(r)[i] : i \in 1..n} \cup Range(Ring(q))
<1>. DEFINE q == Popped(r, n)
            m == r.size
<1>0. RingSize \in Nat \ {0}
  BY BottleAssumption
<1>1. /\ r.head \in 0..(RingSize - 1) /\ m \in 0..RingSize /\ r.synced \in Nat
      /\ n \in 0..RingSize /\ n <= m
  <2>1. r.head \in 0..(RingSize - 1) /\ m \in 0..RingSize /\ r.synced \in Nat
    BY DEF Rams
  <2>. QED  BY <2>1, <1>0
<1>2. (r.head + n) % RingSize \in 0..(RingSize - 1)
  <2>1. r.head + n \in Nat
    BY <1>1
  <2>. QED  BY <2>1, <1>0, Around
<1>3. r.synced + n \in Nat /\ m - n \in 0..RingSize
  BY <1>0, <1>1
<1>4. q \in Rams
  BY <1>2, <1>3 DEF Rams, Popped
<1>5. /\ q.woff = r.woff /\ q.aoff = r.aoff /\ q.sdOk = r.sdOk /\ q.mounted = r.mounted
      /\ q.total = r.total /\ q.nextId = r.nextId /\ q.synced = r.synced + n
      /\ q.size = r.size - n /\ q.ring = r.ring /\ q.head = (r.head + n) % RingSize
  BY DEF Rams, Popped
<1>. HIDE DEF q
<1>6. ASSUME NEW i \in 1..(m - n)
      PROVE  (q.head + i - 1) % RingSize = (r.head + (n + i) - 1) % RingSize
  <2>. DEFINE x == r.head + n
              y == r.head + (n + i) - 1
              z == q.head + i - 1
  <2>1. x \in Nat /\ y \in Nat /\ y = x + i - 1 /\ x < 2 * RingSize /\ y < 2 * RingSize /\ x <= y
    BY <1>0, <1>1
  <2>2. /\ x < RingSize => q.head = x
        /\ RingSize <= x => q.head = x - RingSize
    <3>1. q.head = x % RingSize
      BY <1>5
    <3>. HIDE DEF x
    <3>. QED  BY <3>1, <2>1, <1>0, Around
  <2>3. q.head \in 0..(RingSize - 1) /\ i \in Nat \ {0}
    BY <1>1, <1>2, <1>5
  <2>. HIDE DEF x, y
  <2>4. CASE x < RingSize
    <3>1. z = y
      BY <2>1, <2>2, <2>4, <2>3
    <3>. QED  BY <3>1 DEF y
  <2>5. CASE RingSize <= x
    <3>1. z = y - RingSize /\ RingSize <= y
      BY <2>1, <2>2, <2>5, <2>3, <1>0
    <3>2. z \in Nat /\ z < RingSize
      BY <3>1, <2>1, <1>0
    <3>3. z % RingSize = z
      <4>. HIDE DEF z
      <4>. QED  BY <3>2, <1>0, Around
    <3>4. y % RingSize = y - RingSize
      BY <3>1, <2>1, <1>0, Around
    <3>. QED  BY <3>1, <3>3, <3>4 DEF y
  <2>. QED  BY <2>1, <2>4, <2>5, <1>0
<1>7. /\ DOMAIN Ring(q) = 1..(m - n) /\ DOMAIN Ring(r) = 1..m
      /\ \A i \in 1..(m - n) : Ring(q)[i] = q.ring[(q.head + i - 1) % RingSize]
      /\ \A i \in 1..m : Ring(r)[i] = r.ring[(r.head + i - 1) % RingSize]
  BY <1>4, <1>5, RingFacts
<1>8. ASSUME NEW i \in 1..(m - n) PROVE n + i \in 1..m /\ Ring(q)[i] = Ring(r)[n + i]
  <2>1. n + i \in 1..m
    BY <1>1
  <2>. QED  BY <2>1, <1>5, <1>6, <1>7
<1>9. Range(Ring(q)) \subseteq Range(Ring(r))
  BY <1>7, <1>8 DEF Range
<1>10. ASSUME NEW x \in Range(Ring(r)) PROVE x \in {Ring(r)[i] : i \in 1..n} \cup Range(Ring(q))
  <2>1. PICK i \in 1..m : x = Ring(r)[i]
    BY <1>7 DEF Range
  <2>2. CASE i <= n
    BY <2>1, <2>2, <1>1
  <2>3. CASE i > n
    <3>1. i - n \in 1..(m - n) /\ n + (i - n) = i
      BY <2>3, <1>1
    <3>2. Ring(q)[i - n] = x
      BY <3>1, <1>8, <2>1
    <3>. QED  BY <3>1, <3>2, <1>7 DEF Range
  <2>. QED  BY <2>2, <2>3, <1>1
<1>. QED  BY <1>4, <1>5, <1>9, <1>10 DEF q

-----------------------------------------------------------------------------
(* The compaction: once all its writes are done, the cursors are those of   *)
(* the file rewritten, and nothing else has changed.                        *)

LEMMA WriteFiles ==
    ASSUME NEW d \in Disks, NEW w, DOMAIN w \subseteq {"file", "bak", "tmp"},
           \A x \in DOMAIN w : w[x] \in Files
    PROVE  LET q == Write(d, w)
           IN  /\ q \in Disks
               /\ "file" \in DOMAIN w => q.file = w["file"]
               /\ "file" \notin DOMAIN w => q.file = d.file
               /\ q.woff = d.woff /\ q.aoff = d.aoff /\ q.total = d.total
               /\ q.nextId = d.nextId /\ q.synced = d.synced /\ q.head = d.head
               /\ q.size = d.size /\ q.ring = d.ring
<1>. DEFINE q == Write(d, w)
<1>1. q = [x \in DOMAIN d |-> IF x \in DOMAIN w THEN w[x] ELSE d[x]]
  BY DEF Write
<1>. HIDE DEF q
<1>2. q \in Disks
  BY <1>1 DEF Disks
<1>3. /\ "file" \in DOMAIN w => q.file = w["file"]
      /\ "file" \notin DOMAIN w => q.file = d.file
      /\ q.woff = d.woff /\ q.aoff = d.aoff /\ q.total = d.total
      /\ q.nextId = d.nextId /\ q.synced = d.synced /\ q.head = d.head
      /\ q.size = d.size /\ q.ring = d.ring
  BY <1>1 DEF Disks
<1>. QED  BY <1>2, <1>3 DEF q

LEMMA SwapWrites ==
    ASSUME NEW d \in Disks, NEW new \in Files, NEW old \in Files
    PROVE  LET ws == <<[tmp |-> new], [file |-> NoFile, bak |-> old],
                       [file |-> new, tmp |-> NoFile], [bak |-> NoFile]>>
               D == WriteAll(d, ws)
           IN  /\ IsWrites(ws) /\ D \in Disks /\ D.file = new
               /\ D.woff = d.woff /\ D.aoff = d.aoff /\ D.total = d.total /\ D.nextId = d.nextId
               /\ D.synced = d.synced /\ D.head = d.head /\ D.size = d.size /\ D.ring = d.ring
<1>. DEFINE w1 == [tmp |-> new]
            w2 == [file |-> NoFile, bak |-> old]
            w3 == [file |-> new, tmp |-> NoFile]
            w4 == [bak |-> NoFile]
            d1 == Write(d, w1)
            d2 == Write(d1, w2)
            d3 == Write(d2, w3)
            d4 == Write(d3, w4)
            Same(x) == /\ x.woff = d.woff /\ x.aoff = d.aoff /\ x.total = d.total
                       /\ x.nextId = d.nextId /\ x.synced = d.synced /\ x.head = d.head
                       /\ x.size = d.size /\ x.ring = d.ring
<1>0. NoFile \in Files
  BY DEF NoFile, Files
<1>1. /\ DOMAIN w1 = {"tmp"} /\ w1["tmp"] = new
      /\ DOMAIN w2 = {"file", "bak"} /\ w2["file"] = NoFile /\ w2["bak"] = old
      /\ DOMAIN w3 = {"file", "tmp"} /\ w3["file"] = new /\ w3["tmp"] = NoFile
      /\ DOMAIN w4 = {"bak"} /\ w4["bak"] = NoFile
  OBVIOUS
<1>. HIDE DEF w1, w2, w3, w4
<1>2. d1 \in Disks /\ Same(d1)
  <2>1. \A x \in DOMAIN w1 : w1[x] \in Files
    BY <1>0, <1>1
  <2>2. DOMAIN w1 \subseteq {"file", "bak", "tmp"} /\ d \in Disks
    BY <1>1
  <2>. DEFINE q == Write(d, w1)
  <2>3. /\ q \in Disks
        /\ "file" \in DOMAIN w1 => q.file = w1["file"]
        /\ "file" \notin DOMAIN w1 => q.file = d.file
        /\ q.woff = d.woff /\ q.aoff = d.aoff /\ q.total = d.total
        /\ q.nextId = d.nextId /\ q.synced = d.synced /\ q.head = d.head
        /\ q.size = d.size /\ q.ring = d.ring
    BY <2>1, <2>2, WriteFiles
  <2>. HIDE DEF q
  <2>4. q \in Disks /\ Same(q)
    BY <2>3, <1>1
  <2>. QED  BY <2>4 DEF q
<1>. HIDE DEF d1
<1>3. d2 \in Disks /\ Same(d2)
  <2>1. \A x \in DOMAIN w2 : w2[x] \in Files
    BY <1>0, <1>1
  <2>2. DOMAIN w2 \subseteq {"file", "bak", "tmp"} /\ d1 \in Disks
    BY <1>1, <1>2
  <2>. DEFINE q == Write(d1, w2)
  <2>3. /\ q \in Disks
        /\ "file" \in DOMAIN w2 => q.file = w2["file"]
        /\ "file" \notin DOMAIN w2 => q.file = d1.file
        /\ q.woff = d1.woff /\ q.aoff = d1.aoff /\ q.total = d1.total
        /\ q.nextId = d1.nextId /\ q.synced = d1.synced /\ q.head = d1.head
        /\ q.size = d1.size /\ q.ring = d1.ring
    BY <2>1, <2>2, WriteFiles
  <2>. HIDE DEF q
  <2>4. q \in Disks /\ Same(q)
    BY <2>3, <1>1, <1>2
  <2>. QED  BY <2>4 DEF q
<1>. HIDE DEF d2
<1>4. d3 \in Disks /\ Same(d3) /\ d3.file = new
  <2>1. \A x \in DOMAIN w3 : w3[x] \in Files
    BY <1>0, <1>1
  <2>2. DOMAIN w3 \subseteq {"file", "bak", "tmp"} /\ d2 \in Disks
    BY <1>1, <1>3
  <2>. DEFINE q == Write(d2, w3)
  <2>3. /\ q \in Disks
        /\ "file" \in DOMAIN w3 => q.file = w3["file"]
        /\ "file" \notin DOMAIN w3 => q.file = d2.file
        /\ q.woff = d2.woff /\ q.aoff = d2.aoff /\ q.total = d2.total
        /\ q.nextId = d2.nextId /\ q.synced = d2.synced /\ q.head = d2.head
        /\ q.size = d2.size /\ q.ring = d2.ring
    BY <2>1, <2>2, WriteFiles
  <2>. HIDE DEF q
  <2>4. q \in Disks /\ Same(q) /\ q.file = new
    BY <2>3, <1>1, <1>3
  <2>. QED  BY <2>4 DEF q
<1>. HIDE DEF d3
<1>10. d4 \in Disks /\ Same(d4) /\ d4.file = new
  <2>1. \A x \in DOMAIN w4 : w4[x] \in Files
    BY <1>0, <1>1
  <2>2. DOMAIN w4 \subseteq {"file", "bak", "tmp"} /\ d3 \in Disks
    BY <1>1, <1>4
  <2>. DEFINE q == Write(d3, w4)
  <2>3. /\ q \in Disks
        /\ "file" \in DOMAIN w4 => q.file = w4["file"]
        /\ "file" \notin DOMAIN w4 => q.file = d3.file
        /\ q.woff = d3.woff /\ q.aoff = d3.aoff /\ q.total = d3.total
        /\ q.nextId = d3.nextId /\ q.synced = d3.synced /\ q.head = d3.head
        /\ q.size = d3.size /\ q.ring = d3.ring
    BY <2>1, <2>2, WriteFiles
  <2>. HIDE DEF q
  <2>4. q \in Disks /\ Same(q) /\ q.file = new
    BY <2>3, <1>1, <1>4
  <2>. QED  BY <2>4 DEF q
<1>5. IsWrites(<<w1, w2>>) /\ WriteAll(d, <<w1, w2>>) = d2
  BY WritesTwo DEF d2, d1
<1>6. IsWrites(<<w3, w4>>) /\ WriteAll(d2, <<w3, w4>>) = d4
  BY WritesTwo DEF d4, d3
<1>7. <<w1, w2, w3, w4>> = <<w1, w2>> \o <<w3, w4>>
  <2>. DEFINE S == {w1, w2, w3, w4}
              u == <<w1, w2>>
              v == <<w3, w4>>
              s == <<w1, w2, w3, w4>>
              t == u \o v
  <2>1. u \in Seq(S) /\ v \in Seq(S) /\ Len(u) = 2 /\ Len(v) = 2
    OBVIOUS
  <2>2. u[1] = w1 /\ u[2] = w2 /\ v[1] = w3 /\ v[2] = w4
    OBVIOUS
  <2>3. s \in Seq(S) /\ Len(s) = 4 /\ s[1] = w1 /\ s[2] = w2 /\ s[3] = w3 /\ s[4] = w4
    OBVIOUS
  <2>. HIDE DEF u, v
  <2>4. t \in Seq(S) /\ Len(t) = 4 /\ t[1] = w1 /\ t[2] = w2 /\ t[3] = w3 /\ t[4] = w4
    <3>. HIDE DEF S
    <3>1. /\ t \in Seq(S) /\ Len(t) = Len(u) + Len(v)
          /\ \A i \in 1..(Len(u) + Len(v)) : t[i] = IF i <= Len(u) THEN u[i] ELSE v[i - Len(u)]
      BY <2>1, ConcatProperties
    <3>. HIDE DEF t
    <3>2. t[1] = u[1] /\ t[2] = u[2] /\ t[3] = v[1] /\ t[4] = v[2]
      BY <2>1, <3>1
    <3>. QED  BY <2>1, <2>2, <3>1, <3>2
  <2>. HIDE DEF s, t, S
  <2>5. \A i \in 1..4 : s[i] = t[i]
    BY <2>3, <2>4
  <2>6. s = t
    BY <2>3, <2>4, <2>5, SeqEqual
  <2>. QED  BY <2>6 DEF s, t, u, v
<1>8. /\ IsWrites(<<w1, w2>> \o <<w3, w4>>)
      /\ WriteAll(d, <<w1, w2>> \o <<w3, w4>>) = WriteAll(WriteAll(d, <<w1, w2>>), <<w3, w4>>)
  BY <1>5, <1>6, WritesThen
<1>9. WriteAll(d, <<w1, w2, w3, w4>>) = d4 /\ IsWrites(<<w1, w2, w3, w4>>)
  BY <1>5, <1>6, <1>7, <1>8
<1>. HIDE DEF d4
<1>. QED  BY <1>10, <1>9 DEF w1, w2, w3, w4

LEMMA CompactFacts ==
    ASSUME NEW r \in Rams, NEW d \in Disks, d.woff = r.woff, d.aoff = r.aoff
    PROVE  LET c == compact(r, d.file)
               new == Rewritten(Slots(d.file, r.aoff, r.woff))
               D == WriteAll(d, c.writes)
           IN  /\ c.ram \in Rams /\ IsWrites(c.writes) /\ D \in Disks
               /\ D.woff = c.ram.woff /\ D.aoff = c.ram.aoff
               /\ D.total = d.total /\ D.nextId = d.nextId
               /\ D.synced = d.synced /\ D.head = d.head /\ D.size = d.size /\ D.ring = d.ring
               /\ c.ram.sdOk = r.sdOk /\ c.ram.mounted = r.mounted /\ c.ram.total = r.total
               /\ c.ram.nextId = r.nextId /\ c.ram.synced = r.synced /\ c.ram.head = r.head
               /\ c.ram.size = r.size /\ c.ram.ring = r.ring
               /\ \/ c.ram.woff = r.woff /\ c.ram.aoff = r.aoff /\ D.file = d.file
                  \/ c.ram.woff = Len(new) /\ c.ram.aoff = 0 /\ D.file = new
<1>. DEFINE c == compact(r, d.file)
            new == Rewritten(Slots(d.file, r.aoff, r.woff))
            r2 == [r EXCEPT !.woff = Len(new), !.aoff = 0]
            swap == <<[tmp |-> new], [file |-> NoFile, bak |-> d.file],
                      [file |-> new, tmp |-> NoFile], [bak |-> NoFile]>>
<1>1. d.file \in Files /\ r.aoff \in Nat /\ r.woff \in Nat
  BY DEF Disks, Rams
<1>2. new \in Files /\ Len(new) \in Nat
  <2>1. Slots(d.file, r.aoff, r.woff) \in Seq(SlotRecs)
    BY <1>1, SlotsFacts DEF Files
  <2>2. new \in Files
    BY <2>1, RewrittenFacts
  <2>. HIDE DEF new
  <2>. QED  BY <2>2 DEF Files
<1>3. CASE ~r.sdOk \/ r.aoff < CompactAt \/ new = NoFile
  <2>1. c = [ram |-> r, writes |-> <<>>]
    BY <1>3 DEF compact
  <2>2. IsWrites(<<>>) /\ WriteAll(d, <<>>) = d
    BY WritesNone
  <2>. HIDE DEF c, new
  <2>. QED  BY <2>1, <2>2 DEF c, new
<1>4. CASE ~(~r.sdOk \/ r.aoff < CompactAt \/ new = NoFile)
  <2>1. c = [ram |-> r2, writes |-> swap \o saveMeta(r2)]
    BY <1>4 DEF compact
  <2>. DEFINE d1 == WriteAll(d, swap)
              D == WriteAll(d, swap \o saveMeta(r2))
  <2>2. /\ IsWrites(swap) /\ d1 \in Disks /\ d1.file = new
        /\ d1.woff = d.woff /\ d1.aoff = d.aoff /\ d1.total = d.total /\ d1.nextId = d.nextId
        /\ d1.synced = d.synced /\ d1.head = d.head /\ d1.size = d.size /\ d1.ring = d.ring
    <3>. HIDE DEF new
    <3>. QED  BY <1>1, <1>2, SwapWrites
  <2>. HIDE DEF swap, new
  <2>3. r2 \in Rams /\ r2.woff = Len(new) /\ r2.aoff = 0
        /\ r2.sdOk = r.sdOk /\ r2.mounted = r.mounted /\ r2.total = r.total
        /\ r2.nextId = r.nextId /\ r2.synced = r.synced /\ r2.head = r.head
        /\ r2.size = r.size /\ r2.ring = r.ring
    BY <1>2 DEF Rams
  <2>. HIDE DEF r2, d1
  <2>4. /\ IsWrites(saveMeta(r2))
        /\ WriteAll(d1, saveMeta(r2)) = [d1 EXCEPT !.woff = r2.woff, !.aoff = r2.aoff]
    BY <2>2, MetaWrites
  <2>5. /\ IsWrites(swap \o saveMeta(r2))
        /\ D = WriteAll(WriteAll(d, swap), saveMeta(r2))
    BY <2>2, <2>4, WritesThen
  <2>. HIDE DEF D
  <2>6. D = [d1 EXCEPT !.woff = r2.woff, !.aoff = r2.aoff]
    BY <2>4, <2>5 DEF d1
  <2>7. /\ D \in Disks /\ D.woff = r2.woff /\ D.aoff = r2.aoff /\ D.file = new
        /\ D.total = d.total /\ D.nextId = d.nextId
        /\ D.synced = d.synced /\ D.head = d.head /\ D.size = d.size /\ D.ring = d.ring
    <3>1. r2.woff \in Nat /\ r2.aoff \in Nat
      BY <2>3, <1>2
    <3>. QED  BY <2>2, <2>6, <3>1 DEF Disks
  <2>8. c.ram = r2 /\ c.writes = swap \o saveMeta(r2)
    BY <2>1
  <2>. HIDE DEF c
  <2>9. WriteAll(d, c.writes) = D
    BY <2>8 DEF D
  <2>. QED  BY <2>3, <2>5, <2>7, <2>8, <2>9 DEF c, new
<1>. QED  BY <1>3, <1>4

-----------------------------------------------------------------------------
(* The batch read from the journal and the commit of its acknowledgement.   *)

Batch == [i \in DOMAIN readPending |-> readPending[i].e]
BatchIds == [i \in DOMAIN Batch |-> Batch[i].id]

LEMMA MinOfTwo ==
    ASSUME NEW a \in Int, NEW b \in Int
    PROVE  /\ Min({a, b}) \in {a, b} /\ Min({a, b}) <= a /\ Min({a, b}) <= b
<1>1. CASE a <= b
  BY <1>1 DEF Min
<1>2. CASE b < a
  BY <1>2 DEF Min
<1>. QED  BY <1>1, <1>2

LEMMA BatchFacts ==
    ASSUME ram \in Rams, disk.file \in Files, readPending # <<>>
    PROVE  LET p == Events(disk.file, ram.aoff, ram.woff)
               b == Len(Batch)
           IN  /\ canRead(ram)
               /\ b \in 1..Len(p) /\ DOMAIN Batch = 1..b /\ Batch \in Seq(Ev)
               /\ \A i \in 1..b : Batch[i] = p[i] /\ BatchIds[i] = p[i].id
               /\ BatchIds \in Seq(Nat) /\ Len(BatchIds) = b /\ DOMAIN BatchIds = 1..b
               /\ Range(Batch) = {p[i] : i \in 1..b}
               /\ Last(BatchIds) = BatchIds[b]
<1>. DEFINE s == Slots(disk.file, ram.aoff, ram.woff)
            p == Events(disk.file, ram.aoff, ram.woff)
            n == Len(s)
            b == Min({BatchSize, n})
<1>1. canRead(ram) /\ readPending = SubSeq(s, 1, b)
  BY DEF readPending
<1>2. ram.aoff \in Nat /\ ram.woff \in Nat
  BY DEF Rams
<1>3. s \in Seq(SlotRecs) /\ n \in Nat
  BY <1>2, SlotsFacts DEF Files
<1>4. /\ p \in Seq(Ev) /\ Len(p) = n /\ DOMAIN p = 1..n
      /\ \A i \in 1..n : p[i] = s[i].e
  BY <1>2, EventsSlots
<1>5. BatchSize \in Nat \ {0}
  BY BottleAssumption
<1>. HIDE DEF s, p
<1>6. b \in {BatchSize, n} /\ b <= BatchSize /\ b <= n
  <2>1. BatchSize \in Int /\ n \in Int
    BY <1>3, <1>5
  <2>. HIDE DEF n
  <2>. QED  BY <2>1, MinOfTwo
<1>. HIDE DEF b
<1>7. b \in 0..n
  BY <1>3, <1>5, <1>6
<1>8. /\ Len(readPending) = b /\ DOMAIN readPending = 1..b
      /\ \A i \in 1..b : readPending[i] = s[i]
  BY <1>1, <1>3, <1>7
<1>9. b # 0
  <2>1. SUFFICES ASSUME b = 0 PROVE FALSE
    OBVIOUS
  <2>2. readPending = <<>>
    BY <2>1, <1>1, <1>3
  <2>. QED  BY <2>2
<1>10. b \in 1..n
  BY <1>3, <1>7, <1>9
<1>11. Batch = [i \in 1..b |-> s[i].e]
  BY <1>8 DEF Batch
<1>12. ASSUME NEW i \in 1..b PROVE s[i].e = p[i] /\ p[i] \in Ev /\ p[i].id \in Nat
  <2>1. i \in 1..n
    BY <1>10, <1>3
  <2>2. p[i] \in Ev
    BY <2>1, <1>4
  <2>. QED  BY <2>1, <2>2, <1>4 DEF Ev
<1>13. Batch \in Seq(Ev) /\ Len(Batch) = b /\ DOMAIN Batch = 1..b
  <2>1. Batch \in [1..b -> Ev]
    BY <1>11, <1>12
  <2>2. b \in Nat
    BY <1>10, <1>3
  <2>. QED  BY <2>1, <2>2
<1>14. \A i \in 1..b : Batch[i] = p[i]
  BY <1>11, <1>12
<1>15. BatchIds = [i \in 1..b |-> p[i].id]
  BY <1>13, <1>14 DEF BatchIds
<1>16. BatchIds \in Seq(Nat) /\ Len(BatchIds) = b /\ DOMAIN BatchIds = 1..b
  <2>1. BatchIds \in [1..b -> Nat]
    BY <1>15, <1>12
  <2>2. b \in Nat
    BY <1>10, <1>3
  <2>. QED  BY <2>1, <2>2
<1>17. Range(Batch) = {p[i] : i \in 1..b}
  BY <1>13, <1>14 DEF Range
<1>18. Last(BatchIds) = BatchIds[b]
  BY <1>16 DEF Last
<1>. HIDE DEF n
<1>. QED  BY <1>1, <1>4, <1>10, <1>13, <1>14, <1>15, <1>16, <1>17, <1>18 DEF p


(* A commit is nothing, or it counts n events of the batch, moves the       *)
(* cursor after the k-th of the journal's slots, compacts when it is far    *)
(* enough, and raises the total to no more than what it finds.              *)
LEMMA CommittedFacts ==
    ASSUME ram \in Rams, disk \in Disks, readPending # <<>>, NEW a \in Range(BatchIds),
           disk.woff = ram.woff, disk.aoff = ram.aoff, ram.aoff <= ram.woff
    PROVE  LET c == Committed(a, BatchIds)
               D == WriteAll(disk, c.writes)
               n == countAckedInBatch(a, BatchIds)
               p == Events(disk.file, ram.aoff, ram.woff)
               s == Slots(disk.file, ram.aoff, ram.woff)
           IN  \/ c.ram = ram /\ c.writes = <<>>
               \/ /\ n \in 1..Len(Batch)
                  /\ \E k \in 1..Len(Batch) :
                        /\ BatchIds[k] = a
                        /\ LET off == s[k].next
                               new == Rewritten(Slots(disk.file, off, ram.woff))
                           IN  \/ c.ram.woff = ram.woff /\ c.ram.aoff = off /\ D.file = disk.file
                               \/ c.ram.woff = Len(new) /\ c.ram.aoff = 0 /\ D.file = new
                  /\ c.ram \in Rams /\ IsWrites(c.writes) /\ D \in Disks
                  /\ D.woff = c.ram.woff /\ D.aoff = c.ram.aoff /\ D.synced = c.ram.synced
                  /\ D.nextId = c.ram.nextId /\ D.total = c.ram.total
                  /\ D.head = c.ram.head /\ D.size = c.ram.size /\ D.ring = c.ram.ring
                  /\ c.ram.synced = ram.synced + n /\ c.ram.nextId = ram.nextId
                  /\ c.ram.head = ram.head /\ c.ram.size = ram.size /\ c.ram.ring = ram.ring
                  /\ c.ram.mounted = ram.mounted
                  /\ LET sum == c.ram.synced + Unread(c.ram, D.file) + c.ram.size
                     IN  /\ c.ram.total >= ram.total /\ c.ram.total >= sum
                         /\ c.ram.total \in {ram.total, sum}
<1>. DEFINE c == Committed(a, BatchIds)
            n == countAckedInBatch(a, BatchIds)
            off == findAckOffset(a)
            b == Len(Batch)
            s == Slots(disk.file, ram.aoff, ram.woff)
            r1 == [ram EXCEPT !.synced = @ + n, !.aoff = off]
            cc == compact(r1, disk.file)
            cw == saveMeta(r1) \o cc.writes
            d1 == WriteAll(disk, saveMeta(r1))
            d2 == WriteAll(disk, cw)
            f2 == d2.file
            r2 == Reconciled(cc.ram, f2)
            rw == ReconcileWrites(cc.ram, f2)
            d3 == WriteAll(d2, rw)
            d4 == WriteAll(d3, persist(r2))
<1>1. disk.file \in Files /\ ram.aoff \in Nat /\ ram.woff \in Nat /\ ram.synced \in Nat
  BY DEF Disks, Rams
<1>2. /\ b \in 1..Len(s) /\ BatchIds \in Seq(Nat) /\ Len(BatchIds) = b /\ DOMAIN BatchIds = 1..b
      /\ \A i \in 1..b : BatchIds[i] = s[i].e.id
  <2>1. /\ Len(Events(disk.file, ram.aoff, ram.woff)) = Len(s)
        /\ \A i \in 1..Len(s) : Events(disk.file, ram.aoff, ram.woff)[i] = s[i].e
        /\ Len(s) \in Nat
    BY <1>1, EventsSlots
  <2>2. /\ b \in 1..Len(s) /\ BatchIds \in Seq(Nat) /\ Len(BatchIds) = b /\ DOMAIN BatchIds = 1..b
        /\ \A i \in 1..b : BatchIds[i] = Events(disk.file, ram.aoff, ram.woff)[i].id
    BY <1>1, <2>1, BatchFacts
  <2>. HIDE DEF s, b
  <2>. QED  BY <2>1, <2>2
<1>. HIDE DEF b
<1>3. PICK j \in 1..b : BatchIds[j] = a
  BY <1>2 DEF Range
<1>4. a \in Nat
  BY <1>2, <1>3
<1>5. n \in 0..b
  BY <1>2, <1>4, AckedType
<1>6. PICK k \in 1..b : BatchIds[k] = a /\ off = s[k].next
  <2>0. j \in 1..Len(s) /\ s[j].e.id = a
    <3>. HIDE DEF s
    <3>1. Len(s) \in Nat
      BY <1>1, SlotsFacts DEF Files, s
    <3>. QED  BY <1>2, <1>3, <3>1
  <2>1. \E h \in 1..j : s[h].e.id = a /\ findAckOffset(a) = s[h].next
    BY <2>0, <1>1, AckOffset
  <2>2. PICK h \in 1..j : s[h].e.id = a /\ findAckOffset(a) = s[h].next
    BY <2>1
  <2>3. h \in 1..b
    <3>1. b \in Nat
      BY <1>2
    <3>. HIDE DEF b
    <3>. QED  BY <1>3, <2>2, <3>1
  <2>. HIDE DEF s
  <2>. QED  BY <2>2, <2>3, <1>2
<1>7. off \in Nat
  <2>1. k \in 1..Len(s) /\ Len(s) \in Nat
    <3>1. Len(s) \in Nat
      BY <1>1, SlotsFacts DEF Files
    <3>. HIDE DEF s
    <3>. QED  BY <1>2, <3>1
  <2>2. s[k].next \in Nat
    BY <2>1, <1>1, SlotsFacts DEF Files
  <2>. QED  BY <2>2, <1>6
<1>. HIDE DEF s
<1>8. CASE n = 0 \/ off <= ram.aoff
  <2>1. c = [ram |-> ram, writes |-> <<>>]
    BY <1>8 DEF Committed
  <2>2. c.ram = ram /\ c.writes = <<>>
    BY <2>1
  <2>. QED  BY <2>2
<1>9. CASE ~(n = 0 \/ off <= ram.aoff)
  <2>1. c = [ram |-> AfterPersist(r2), writes |-> cw \o rw \o persist(r2)]
    BY <1>9 DEF Committed
  <2>2. n \in 1..b
    BY <1>5, <1>9, <1>2
  <2>. HIDE DEF n, off
  <2>3. /\ r1 \in Rams /\ r1.synced = ram.synced + n /\ r1.aoff = off /\ r1.woff = ram.woff
        /\ r1.total = ram.total /\ r1.nextId = ram.nextId /\ r1.head = ram.head
        /\ r1.size = ram.size /\ r1.ring = ram.ring /\ r1.mounted = ram.mounted
    <3>1. ram.synced + n \in Nat
      BY <2>2, <1>1
    <3>. QED  BY <3>1, <1>7 DEF Rams
  <2>. HIDE DEF r1
  <2>4. /\ IsWrites(saveMeta(r1)) /\ d1 \in Disks /\ d1.woff = r1.woff /\ d1.aoff = r1.aoff
        /\ d1.file = disk.file /\ d1.total = disk.total /\ d1.nextId = disk.nextId
        /\ d1.synced = disk.synced /\ d1.head = disk.head /\ d1.size = disk.size
        /\ d1.ring = disk.ring
    <3>1. IsWrites(saveMeta(r1)) /\ d1 = [disk EXCEPT !.woff = r1.woff, !.aoff = r1.aoff]
      BY MetaWrites
    <3>2. r1.woff \in Nat /\ r1.aoff \in Nat
      BY <2>3 DEF Rams
    <3>. HIDE DEF d1
    <3>. QED  BY <3>1, <3>2 DEF Disks
  <2>. DEFINE new == Rewritten(Slots(disk.file, off, ram.woff))
  <2>5. /\ cc.ram \in Rams /\ IsWrites(cc.writes) /\ WriteAll(d1, cc.writes) \in Disks
        /\ WriteAll(d1, cc.writes).woff = cc.ram.woff /\ WriteAll(d1, cc.writes).aoff = cc.ram.aoff
        /\ cc.ram.mounted = r1.mounted /\ cc.ram.total = r1.total
        /\ cc.ram.nextId = r1.nextId /\ cc.ram.synced = r1.synced /\ cc.ram.head = r1.head
        /\ cc.ram.size = r1.size /\ cc.ram.ring = r1.ring
        /\ \/ cc.ram.woff = r1.woff /\ cc.ram.aoff = r1.aoff
              /\ WriteAll(d1, cc.writes).file = disk.file
           \/ cc.ram.woff = Len(new) /\ cc.ram.aoff = 0 /\ WriteAll(d1, cc.writes).file = new
    <3>. HIDE DEF d1, cc
    <3>1. compact(r1, d1.file) = cc
      BY <2>4 DEF cc
    <3>2. Rewritten(Slots(d1.file, r1.aoff, r1.woff)) = new
      BY <2>3, <2>4
    <3>. HIDE DEF new
    <3>. QED  BY <2>3, <2>4, <3>1, <3>2, CompactFacts
  <2>. HIDE DEF cc, new
  <2>6. IsWrites(cw) /\ d2 = WriteAll(d1, cc.writes)
    BY <2>4, <2>5, WritesThen DEF d1
  <2>. HIDE DEF cw, d1, d2
  <2>7. cc.ram.aoff > 0 => cc.ram.synced > 0
    BY <2>2, <2>3, <2>5, <1>1
  <2>8. f2 \in Files
    BY <2>5, <2>6 DEF Disks
  <2>. HIDE DEF f2
  <2>9. LET sum == cc.ram.synced + Unread(cc.ram, f2) + cc.ram.size
        IN  /\ r2 \in Rams
            /\ r2.total >= cc.ram.total /\ r2.total >= sum /\ r2.total \in {cc.ram.total, sum}
            /\ r2.woff = cc.ram.woff /\ r2.aoff = cc.ram.aoff /\ r2.mounted = cc.ram.mounted
            /\ r2.nextId = cc.ram.nextId /\ r2.synced = cc.ram.synced /\ r2.head = cc.ram.head
            /\ r2.size = cc.ram.size /\ r2.ring = cc.ram.ring
    BY <2>5, <2>7, <2>8, ReconciledFacts
  <2>10. /\ IsWrites(rw) /\ d3 \in Disks
         /\ d3.woff = d2.woff /\ d3.aoff = d2.aoff /\ d3.file = d2.file
    <3>1. /\ IsWrites(rw)
          /\ \/ d3 = d2
             \/ d3 = [d2 EXCEPT !.total = r2.total, !.nextId = cc.ram.nextId, !.synced = cc.ram.synced]
      BY <2>5, <2>6, <2>7, <2>8, ReconcileWritten
    <3>2. r2.total \in Nat /\ cc.ram.nextId \in Nat /\ cc.ram.synced \in Nat
      BY <2>5, <2>9 DEF Rams
    <3>3. d2 \in Disks
      BY <2>5, <2>6
    <3>. HIDE DEF d3, rw, r2
    <3>4. CASE d3 = d2
      BY <3>1, <3>3, <3>4
    <3>5. CASE d3 = [d2 EXCEPT !.total = r2.total, !.nextId = cc.ram.nextId, !.synced = cc.ram.synced]
      BY <3>1, <3>2, <3>3, <3>5 DEF Disks
    <3>. QED  BY <3>1, <3>4, <3>5
  <2>. HIDE DEF r2, rw
  <2>11. /\ IsWrites(persist(r2)) /\ d4 \in Disks
         /\ d4.total = r2.total /\ d4.nextId = r2.nextId /\ d4.synced = r2.synced
         /\ d4.head = r2.head /\ d4.size = r2.size /\ d4.ring = r2.ring
         /\ d4.woff = d3.woff /\ d4.aoff = d3.aoff /\ d4.file = d3.file
    <3>. HIDE DEF d3
    <3>1. /\ IsWrites(persist(r2))
          /\ d4 = [d3 EXCEPT !.total = r2.total, !.nextId = r2.nextId, !.synced = r2.synced,
                             !.head = r2.head, !.size = r2.size, !.ring = r2.ring]
      BY <2>9, <2>10, PersistWrites
    <3>2. /\ r2.total \in Nat /\ r2.nextId \in Nat /\ r2.synced \in Nat
          /\ r2.head \in 0..(RingSize - 1) /\ r2.size \in 0..RingSize /\ r2.ring \in Rings
      BY <2>9 DEF Rams
    <3>. HIDE DEF d4
    <3>. QED  BY <2>10, <3>1, <3>2 DEF Disks
  <2>12. IsWrites(cw \o rw) /\ WriteAll(disk, cw \o rw) = d3
    BY <2>6, <2>10, WritesThen DEF d2
  <2>13. IsWrites(cw \o rw \o persist(r2)) /\ WriteAll(disk, cw \o rw \o persist(r2)) = d4
    BY <2>11, <2>12, WritesThen
  <2>. DEFINE q == AfterPersist(r2)
  <2>14. /\ q \in Rams /\ q.woff = r2.woff /\ q.aoff = r2.aoff /\ q.mounted = r2.mounted
         /\ q.total = r2.total /\ q.nextId = r2.nextId /\ q.synced = r2.synced
         /\ q.head = r2.head /\ q.size = r2.size /\ q.ring = r2.ring
    BY <2>9 DEF AfterPersist, Rams
  <2>15. c.ram = q /\ c.writes = cw \o rw \o persist(r2)
    BY <2>1
  <2>. HIDE DEF q, c, d3, d4
  <2>16. WriteAll(disk, c.writes) = d4 /\ IsWrites(c.writes)
    BY <2>13, <2>15
  <2>17. d4.file = f2 /\ d4.woff = cc.ram.woff /\ d4.aoff = cc.ram.aoff
    BY <2>5, <2>6, <2>10, <2>11 DEF f2
  <2>18. /\ c.ram \in Rams /\ c.ram.woff = cc.ram.woff /\ c.ram.aoff = cc.ram.aoff
         /\ c.ram.mounted = cc.ram.mounted /\ c.ram.synced = cc.ram.synced
         /\ c.ram.nextId = cc.ram.nextId /\ c.ram.total = r2.total
         /\ c.ram.head = cc.ram.head /\ c.ram.size = cc.ram.size /\ c.ram.ring = cc.ram.ring
    BY <2>9, <2>14, <2>15
  <2>19. Unread(c.ram, f2) = Unread(cc.ram, f2)
    BY <2>18 DEF Unread, canRead
  <2>20. LET sum == c.ram.synced + Unread(c.ram, f2) + c.ram.size
         IN  /\ c.ram.total >= ram.total /\ c.ram.total >= sum
             /\ c.ram.total \in {ram.total, sum}
    BY <2>3, <2>5, <2>9, <2>18, <2>19
  <2>21. /\ d4.woff = c.ram.woff /\ d4.aoff = c.ram.aoff /\ d4.synced = c.ram.synced
         /\ d4.nextId = c.ram.nextId /\ d4.total = c.ram.total
         /\ d4.head = c.ram.head /\ d4.size = c.ram.size /\ d4.ring = c.ram.ring
         /\ c.ram.synced = ram.synced + n /\ c.ram.nextId = ram.nextId
         /\ c.ram.head = ram.head /\ c.ram.size = ram.size /\ c.ram.ring = ram.ring
         /\ c.ram.mounted = ram.mounted
    BY <2>3, <2>5, <2>9, <2>11, <2>17, <2>18
  <2>22. /\ BatchIds[k] = a /\ off = s[k].next
         /\ \/ c.ram.woff = ram.woff /\ c.ram.aoff = off /\ d4.file = disk.file
            \/ c.ram.woff = Len(new) /\ c.ram.aoff = 0 /\ d4.file = new
    BY <1>6, <2>3, <2>5, <2>6, <2>17, <2>18 DEF f2
  <2>23. \E h \in 1..b : /\ BatchIds[h] = a
                         /\ \/ c.ram.woff = ram.woff /\ c.ram.aoff = s[h].next /\ d4.file = disk.file
                            \/ /\ c.ram.woff = Len(Rewritten(Slots(disk.file, s[h].next, ram.woff)))
                               /\ c.ram.aoff = 0
                               /\ d4.file = Rewritten(Slots(disk.file, s[h].next, ram.woff))
    BY <2>22 DEF new
  <2>24. d4 \in Disks
    BY <2>11
  <2>. QED  BY <2>2, <2>16, <2>17, <2>18, <2>20, <2>21, <2>23, <2>24 DEF c, n, s, b
<1>. QED  BY <1>8, <1>9

-----------------------------------------------------------------------------
(* Between two handlers the disk is what a reset reads; the next write of a *)
(* handler under way does not change what it will be.                       *)

LEMMA AtRest ==
    ASSUME BottleType, Idle
    PROVE  Settled = disk /\ disk \in Disks
<1>1. Settled = WriteAll(disk, <<>>)
  BY DEF Settled, Idle
<1>2. disk = [x \in DOMAIN disk |-> disk[x]]
  BY DEF BottleType
<1>3. WriteAll(disk, <<>>) = disk
  BY <1>2, WriteAllNone
<1>. QED  BY <1>1, <1>3 DEF BottleType

LEMMA SettledNext ==
    ASSUME BottleType, WriteNext
    PROVE  /\ Settled' = Settled /\ IsWrites(todo')
           /\ disk' = [x \in DOMAIN disk' |-> disk'[x]]
<1>1. todo \in Seq(Range(todo)) /\ todo # <<>>
  BY DEF BottleType, IsWrites, WriteNext
<1>2. WriteAll(Write(disk, Head(todo)), Tail(todo)) = WriteAll(disk, todo)
  BY <1>1, WriteAllNext
<1>3. Settled' = Settled
  BY <1>2 DEF Settled, WriteNext
<1>4. Tail(todo) \in Seq(Range(todo))
  BY <1>1
<1>5. IsWrites(todo')
  BY <1>4, WritesSeq DEF WriteNext
<1>6. disk' = [x \in DOMAIN disk' |-> disk'[x]]
  BY DEF WriteNext, Write
<1>. QED  BY <1>3, <1>5, <1>6

LEMMA WriteNextCore ==
    ASSUME Core, WriteNext
    PROVE  Core'
<1>1. BottleType
  BY DEF Core
<1>2. /\ Settled' = Settled /\ IsWrites(todo')
      /\ disk' = [x \in DOMAIN disk' |-> disk'[x]]
  BY <1>1, SettledNext
<1>3. UNCHANGED <<ram, seen, received, stored, resets, faults>>
  BY DEF WriteNext
<1>4. Pend' = Pend /\ Queued' = Queued
  BY <1>2, <1>3 DEF Pend, Queued
<1>5. BottleType'
  BY <1>1, <1>2, <1>3 DEF BottleType
<1>6. Agree' = Agree /\ Shape' = Shape /\ Sound' = Sound /\ Kept' = Kept
  BY <1>2, <1>3, <1>4 DEF Agree, Shape, Sound, Kept
<1>7. CountBounded' = CountBounded /\ CountExact' = CountExact /\ Stored' = Stored
  BY <1>2, <1>3 DEF CountBounded, CountExact, Stored, Count
<1>. QED  BY <1>1, <1>2, <1>3, <1>4, <1>5, <1>6, <1>7 DEF Core

-----------------------------------------------------------------------------
(* How Filled, Rising and Linked survive a reset, an event queued in the    *)
(* ring and an event appended to the journal.                               *)

LEMMA FilledLater ==
    ASSUME NEW p \in Seq(Ev), NEW st, NEW st2, Ids(st) \subseteq Ids(st2),
           NEW nx \in Nat, NEW snx \in Nat, NEW snx2 \in {snx, nx}, Filled(p, st, nx, snx)
    PROVE  Filled(p, st2, nx, snx2)
<1>1. \A i \in DOMAIN p : \A n \in nx..p[i].id : n \in Ids(st2) \cup Ids(Range(p))
  BY DEF Filled
<1>2. ASSUME NEW n \in snx2..(nx - 1)
      PROVE  n \in Ids(st2) \cup Ids(Range(p))
  <2>1. snx2 = snx
    BY <1>2
  <2>. QED  BY <2>1 DEF Filled
<1>. QED  BY <1>1, <1>2 DEF Filled

LEMMA FilledReset ==
    ASSUME NEW p \in Seq(Ev), NEW st, NEW nx \in Nat, NEW snx \in Nat, Filled(p, st, nx, snx)
    PROVE  Filled(p, st, snx, snx)
<1>1. ASSUME NEW i \in DOMAIN p, NEW n \in snx..p[i].id
      PROVE  n \in Ids(st) \cup Ids(Range(p))
  <2>0. p[i] \in Ev
    OBVIOUS
  <2>1. p[i].id \in Nat
    BY <2>0 DEF Ev
  <2>2. CASE n < nx
    <3>1. n \in snx..(nx - 1)
      BY <2>1, <2>2
    <3>. QED  BY <3>1 DEF Filled
  <2>3. CASE n >= nx
    <3>1. n \in nx..p[i].id
      BY <2>1, <2>3
    <3>. QED  BY <3>1 DEF Filled
  <2>. QED  BY <2>1, <2>2, <2>3
<1>2. snx..(snx - 1) = {}
  OBVIOUS
<1>. QED  BY <1>1, <1>2 DEF Filled

LEMMA FilledRing ==
    ASSUME NEW p \in Seq(Ev), NEW st, NEW nx \in Nat, NEW snx \in Nat, Filled(p, st, nx, snx)
    PROVE  Filled(p, st, nx + 1, nx + 1)
<1>1. ASSUME NEW i \in DOMAIN p, NEW n \in (nx + 1)..p[i].id
      PROVE  n \in Ids(st) \cup Ids(Range(p))
  <2>0. p[i] \in Ev
    OBVIOUS
  <2>1. p[i].id \in Nat
    BY <2>0 DEF Ev
  <2>2. n \in nx..p[i].id
    BY <2>1
  <2>. QED  BY <2>2 DEF Filled
<1>2. (nx + 1)..((nx + 1) - 1) = {}
  OBVIOUS
<1>. QED  BY <1>1, <1>2 DEF Filled

LEMMA AppendRange ==
    ASSUME NEW p \in Seq(Ev), NEW e \in Ev
    PROVE  /\ Append(p, e) \in Seq(Ev) /\ Len(Append(p, e)) = Len(p) + 1
           /\ \A i \in 1..Len(p) : Append(p, e)[i] = p[i]
           /\ Append(p, e)[Len(p) + 1] = e
           /\ Range(Append(p, e)) = Range(p) \cup {e}
<1>. DEFINE q == Append(p, e)
<1>1. /\ q \in Seq(Ev) /\ Len(q) = Len(p) + 1 /\ Len(p) \in Nat
      /\ \A i \in 1..Len(p) : q[i] = p[i]
      /\ q[Len(p) + 1] = e /\ DOMAIN q = 1..(Len(p) + 1) /\ DOMAIN p = 1..Len(p)
  OBVIOUS
<1>. HIDE DEF q
<1>2. \A i \in 1..(Len(p) + 1) : i \in 1..Len(p) \/ i = Len(p) + 1
  BY <1>1
<1>3. Range(q) \subseteq Range(p) \cup {e}
  BY <1>1, <1>2 DEF Range
<1>4. \A i \in 1..Len(p) : i \in 1..(Len(p) + 1)
  BY <1>1
<1>5. Range(p) \subseteq Range(q)
  BY <1>1, <1>4 DEF Range
<1>6. e \in Range(q)
  <2>1. Len(p) + 1 \in 1..(Len(p) + 1)
    BY <1>1
  <2>. QED  BY <2>1, <1>1 DEF Range
<1>7. Range(q) = Range(p) \cup {e}
  BY <1>3, <1>5, <1>6
<1>. QED  BY <1>1, <1>7 DEF q

LEMMA FilledAdd ==
    ASSUME NEW p \in Seq(Ev), NEW e \in Ev, NEW st, NEW nx \in Nat, NEW snx \in Nat,
           NEW snx2 \in {snx, nx + 1}, e.id = nx, Filled(p, st, nx, snx)
    PROVE  Filled(Append(p, e), st, nx + 1, snx2)
<1>. DEFINE q == Append(p, e)
<1>1. /\ q \in Seq(Ev) /\ Len(q) = Len(p) + 1 /\ Len(p) \in Nat
      /\ \A i \in 1..Len(p) : q[i] = p[i]
      /\ q[Len(p) + 1] = e /\ DOMAIN q = 1..(Len(p) + 1) /\ DOMAIN p = 1..Len(p)
      /\ Range(q) = Range(p) \cup {e}
  BY AppendRange
<1>. HIDE DEF q
<1>2. Ids(Range(q)) = Ids(Range(p)) \cup {nx}
  BY <1>1 DEF Ids
<1>3. ASSUME NEW i \in DOMAIN q, NEW n \in (nx + 1)..q[i].id
      PROVE  n \in Ids(st) \cup Ids(Range(q))
  <2>1. i \in 1..Len(p) \/ i = Len(p) + 1
    BY <1>1
  <2>2. CASE i \in 1..Len(p)
    <3>0. p[i] \in Ev
      BY <2>2, <1>1
    <3>1. q[i] = p[i] /\ p[i].id \in Nat
      BY <2>2, <1>1, <3>0 DEF Ev
    <3>2. n \in nx..p[i].id
      BY <3>1
    <3>. QED  BY <2>2, <3>2, <1>1, <1>2 DEF Filled
  <2>3. CASE i = Len(p) + 1
    <3>1. q[i].id = nx
      BY <2>3, <1>1
    <3>. QED  BY <3>1
  <2>. QED  BY <2>1, <2>2, <2>3
<1>4. ASSUME NEW n \in snx2..((nx + 1) - 1)
      PROVE  n \in Ids(st) \cup Ids(Range(q))
  <2>1. CASE n = nx
    BY <2>1, <1>2
  <2>2. CASE n # nx
    <3>1. snx2 = snx
      BY <2>2
    <3>2. n \in snx..(nx - 1)
      BY <3>1, <2>2
    <3>. QED  BY <3>2, <1>2 DEF Filled
  <2>. QED  BY <2>1, <2>2
<1>. QED  BY <1>3, <1>4 DEF Filled, q

LEMMA RisingLater ==
    ASSUME NEW p, NEW st, NEW st2, st \subseteq st2, Rising(p, st)
    PROVE  Rising(p, st2)
BY DEF Rising, Doubled

LEMMA RisingAdd ==
    ASSUME NEW p \in Seq(Ev), NEW e \in Ev, NEW st \in SUBSET Ev, NEW nx \in Nat,
           NEW snx, e.id = nx, Filled(p, st, nx, snx), \A s \in st : s.bottle # e.bottle,
           Rising(p, st)
    PROVE  Rising(Append(p, e), st)
<1>. DEFINE q == Append(p, e)
<1>1. /\ q \in Seq(Ev) /\ Len(q) = Len(p) + 1 /\ Len(p) \in Nat
      /\ \A i \in 1..Len(p) : q[i] = p[i]
      /\ q[Len(p) + 1] = e /\ DOMAIN q = 1..(Len(p) + 1) /\ DOMAIN p = 1..Len(p)
  BY AppendRange
<1>. HIDE DEF q
<1>2. ASSUME NEW j \in DOMAIN q, NEW i \in 1..(j - 1), q[j].id <= q[i].id
      PROVE  Doubled(q, st, j)
  <2>1. j \in 1..Len(p) \/ j = Len(p) + 1
    BY <1>1
  <2>2. CASE j \in 1..Len(p)
    <3>1. i \in 1..Len(p) /\ i \in 1..(j - 1)
      BY <2>2, <1>1
    <3>2. q[j] = p[j] /\ q[i] = p[i]
      BY <2>2, <3>1, <1>1
    <3>3. Doubled(p, st, j)
      BY <1>2, <2>2, <3>1, <3>2, <1>1 DEF Rising
    <3>4. \A h \in 1..(j - 1) : h \in 1..Len(p)
      BY <2>2, <1>1
    <3>5. \A h \in 1..(j - 1) : q[h] = p[h]
      BY <3>4, <1>1
    <3>. QED  BY <3>3, <3>5, <3>2 DEF Doubled
  <2>3. CASE j = Len(p) + 1
    <3>0. i \in 1..Len(p) /\ p[i] \in Ev
      BY <2>3, <1>1
    <3>1. i \in 1..Len(p) /\ q[i] = p[i] /\ q[j].id = nx /\ q[j] = e /\ p[i].id \in Nat
      BY <2>3, <1>1, <3>0 DEF Ev
    <3>2. nx \in nx..p[i].id
      BY <3>1, <1>2
    <3>3. nx \in Ids(st) \cup Ids(Range(p))
      BY <3>1, <3>2, <1>1 DEF Filled
    <3>4. CASE nx \in Ids(st)
      BY <3>4, <3>1 DEF Ids, Doubled
    <3>5. CASE nx \in Ids(Range(p))
      <4>1. PICK h \in 1..Len(p) : p[h].id = nx
        BY <3>5, <1>1 DEF Ids, Range
      <4>2. h \in 1..(j - 1) /\ q[h].id = q[j].id
        BY <4>1, <2>3, <1>1, <3>1
      <4>. QED  BY <4>2 DEF Doubled
    <3>. QED  BY <3>3, <3>4, <3>5
  <2>. QED  BY <2>1, <2>2, <2>3
<1>3. Rising(q, st)
  BY <1>2 DEF Rising
<1>. QED  BY <1>3 DEF q

LEMMA LinkedAdd ==
    ASSUME NEW w \in SUBSET Ev, NEW st \in SUBSET Ev, NEW rc, NEW e,
           \A x \in w \cup st : x.bottle # e.bottle, e.bottle \notin rc, Linked(w, st, rc)
    PROVE  Linked(w \cup {e}, st, rc)
BY DEF Linked

LEMMA BottleNat ==
    ASSUME NEW f \in Files, NEW a \in 1..Len(f)
    PROVE  f[a] \in HalfRecs /\ f[a].e \in Ev /\ f[a].e.bottle \in Nat /\ f[a].e.id \in Nat
<1>1. f[a] \in HalfRecs
  BY DEF Files
<1>2. f[a].e \in Ev
  BY <1>1 DEF HalfRecs
<1>. QED  BY <1>1, <1>2 DEF Ev

LEMMA OrderedLater ==
    ASSUME NEW f \in Files, NEW n \in Nat, OrderedUpTo(f, n)
    PROVE  OrderedUpTo(f, n + 1)
<1>1. \A a \in 1..Len(f) : f[a].e.bottle \in Nat
  BY BottleNat
<1>. QED  BY <1>1 DEF OrderedUpTo

LEMMA OrderedShort ==
    ASSUME NEW f \in Files, NEW n \in Nat, OrderedUpTo(f, n), NEW e \in Ev, e.bottle = n + 1,
           NEW x \in HalfRecs, x.e = e
    PROVE  Append(f, x) \in Files /\ OrderedUpTo(Append(f, x), n + 1)
<1>. DEFINE g == Append(f, x)
<1>1. /\ g \in Files /\ Len(g) = Len(f) + 1 /\ Len(f) \in Nat
      /\ \A i \in 1..Len(f) : g[i] = f[i]
      /\ g[Len(f) + 1] = x
  BY DEF Files
<1>. HIDE DEF g
<1>2. \A a \in 1..Len(f) : f[a].e.bottle \in Nat /\ f[a].e.bottle <= n
  BY BottleNat DEF OrderedUpTo
<1>3. \A a \in 1..Len(g) : a \in 1..Len(f) \/ a = Len(f) + 1
  BY <1>1
<1>4. \A a \in 1..Len(g) : g[a].e.bottle <= n + 1
  BY <1>1, <1>2, <1>3
<1>5. ASSUME NEW a \in 1..Len(g), NEW b \in 1..Len(g), a < b
      PROVE  \/ g[a].e.bottle < g[b].e.bottle
             \/ g[a].e.bottle = g[b].e.bottle /\ g[a].half < g[b].half
  <2>1. a \in 1..Len(f) /\ g[a] = f[a] /\ f[a].e.bottle <= n /\ f[a].e.bottle \in Nat
    BY <1>1, <1>2, <1>5
  <2>2. CASE b \in 1..Len(f)
    BY <2>1, <2>2, <1>1, <1>5 DEF OrderedUpTo
  <2>3. CASE b = Len(f) + 1
    BY <2>1, <2>3, <1>1
  <2>. QED  BY <1>3, <2>2, <2>3
<1>6. OrderedUpTo(g, n + 1)
  BY <1>4, <1>5 DEF OrderedUpTo
<1>. QED  BY <1>1, <1>6 DEF g

LEMMA OrderedAdd ==
    ASSUME NEW f \in Files, NEW n \in Nat, OrderedUpTo(f, n), NEW e \in Ev, e.bottle = n + 1
    PROVE  OrderedUpTo(f \o Halves(e), n + 1)
<1>. DEFINE g == f \o Halves(e)
<1>1. /\ g \in Files /\ Len(g) = Len(f) + 2 /\ Len(f) \in Nat
      /\ \A i \in 1..Len(f) : g[i] = f[i]
      /\ g[Len(f) + 1] = [e |-> e, half |-> 1] /\ g[Len(f) + 2] = [e |-> e, half |-> 2]
  <2>1. Len(f) \in Nat
    BY DEF Files
  <2>. QED  BY <2>1, HalvesFacts
<1>. HIDE DEF g
<1>2. \A a \in 1..Len(f) : f[a].e.bottle \in Nat /\ f[a].e.bottle <= n
  BY BottleNat DEF OrderedUpTo
<1>3. \A a \in 1..Len(g) : a \in 1..Len(f) \/ a = Len(f) + 1 \/ a = Len(f) + 2
  BY <1>1
<1>4. \A a \in 1..Len(g) : g[a].e.bottle <= n + 1
  BY <1>1, <1>2, <1>3
<1>5. ASSUME NEW a \in 1..Len(g), NEW b \in 1..Len(g), a < b
      PROVE  \/ g[a].e.bottle < g[b].e.bottle
             \/ g[a].e.bottle = g[b].e.bottle /\ g[a].half < g[b].half
  <2>1. CASE a \in 1..Len(f)
    <3>1. g[a] = f[a] /\ f[a].e.bottle <= n /\ f[a].e.bottle \in Nat
      BY <1>1, <1>2, <2>1
    <3>2. CASE b \in 1..Len(f)
      BY <2>1, <3>1, <3>2, <1>1, <1>5 DEF OrderedUpTo
    <3>3. CASE b = Len(f) + 1 \/ b = Len(f) + 2
      BY <3>1, <3>3, <1>1
    <3>. QED  BY <1>3, <3>2, <3>3
  <2>2. CASE a \notin 1..Len(f)
    <3>1. a = Len(f) + 1 /\ b = Len(f) + 2
      BY <2>2, <1>1, <1>3, <1>5
    <3>. QED  BY <3>1, <1>1
  <2>. QED  BY <2>1, <2>2
<1>6. OrderedUpTo(g, n + 1)
  BY <1>4, <1>5 DEF OrderedUpTo
<1>. QED  BY <1>6 DEF g

-----------------------------------------------------------------------------
(* Steps that only settle: flush and reconcileTotals.                       *)

LEMMA SumBounded ==
    ASSUME ram \in Rams, Settled \in Disks, Shape, NEW f \in Files
    PROVE  /\ ram.synced + Unread(ram, f) + ram.size \in Nat /\ Count \in Nat
           /\ ram.synced + Unread(ram, f) + ram.size <= Count
<1>. DEFINE u == Unread(ram, f)
            half == (ram.woff - ram.aoff) \div 2
<1>1. ram.woff \in Nat /\ ram.aoff \in Nat /\ ram.synced \in Nat /\ ram.size \in Nat /\ ram.aoff <= ram.woff
  <2>1. ram.size \in 0..RingSize /\ RingSize \in Nat
    BY BottleAssumption DEF Rams
  <2>2. ram.size \in Nat
    BY <2>1
  <2>. QED  BY <2>2 DEF Rams, Shape
<1>2. half \in Nat
  BY <1>1
<1>3. u \in Nat /\ u <= half
  <2>1. CASE canRead(ram)
    <3>1. /\ Len(Slots(f, ram.aoff, ram.woff)) \in Nat
          /\ 2 * Len(Slots(f, ram.aoff, ram.woff)) <= ram.woff - ram.aoff
      BY <1>1, SlotsFacts DEF Files
    <3>2. u = Len(Slots(f, ram.aoff, ram.woff))
      BY <2>1 DEF Unread
    <3>. QED  BY <3>1, <3>2, <1>1
  <2>2. CASE ~canRead(ram)
    <3>1. u = 0
      BY <2>2 DEF Unread
    <3>. QED  BY <3>1, <1>2
  <2>. QED  BY <2>1, <2>2
<1>4. Count = ram.synced + half + ram.size
  BY DEF Count
<1>. HIDE DEF u, half
<1>5. /\ ram.synced + u + ram.size \in Nat /\ Count \in Nat
      /\ ram.synced + u + ram.size <= Count
  BY <1>1, <1>2, <1>3, <1>4
<1>. QED  BY <1>5 DEF u

(* A step that writes what RAM holds, and may raise the total to the sum it *)
(* finds, keeps the invariant.                                              *)
LEMMA QuietCore ==
    ASSUME Core, Idle, UNCHANGED <<disk, seen, received, stored, faults>>,
           IsWrites(todo'), Settled' \in Disks, ram' \in Rams,
           Settled'.file = Settled.file, Settled'.woff = Settled.woff,
           Settled'.aoff = Settled.aoff, Settled'.synced \in {Settled.synced, ram.synced},
           \/ /\ Settled'.head = Settled.head /\ Settled'.size = Settled.size
              /\ Settled'.ring = Settled.ring /\ ram'.dirty = ram.dirty
           \/ /\ Settled'.head = ram.head /\ Settled'.size = ram.size
              /\ Settled'.ring = ram.ring,
           ram'.woff = ram.woff, ram'.aoff = ram.aoff, ram'.synced = ram.synced,
           ram'.mounted = ram.mounted, ram'.nextId = ram.nextId, ram'.head = ram.head,
           ram'.size = ram.size, ram'.ring = ram.ring,
           ram'.total >= ram.total,
           NEW f \in Files,
           ram'.total \in {ram.total, ram.synced + Unread(ram, f) + ram.size},
           \/ Settled'.total = Settled.total /\ Settled'.nextId = Settled.nextId
           \/ Settled'.total = ram'.total /\ Settled'.nextId = ram.nextId
    PROVE  Core'
<1>1. BottleType /\ Agree /\ Shape
  BY DEF Core
<1>2. Settled \in Disks /\ ram \in Rams /\ seen \in Nat
  BY <1>1 DEF BottleType
<1>3. Queued' = Queued
  BY DEF Queued, Ring
<1>4. Pend' = Pend
  BY DEF Pend
<1>5. BottleType'
  BY <1>1 DEF BottleType
<1>6. ram.nextId \in Nat /\ Settled.nextId \in Nat /\ ram.total \in Nat /\ Settled.total \in Nat
      /\ ram'.total \in Nat
  BY <1>2 DEF Disks, Rams
<1>7. Agree'
  BY <1>1, <1>6 DEF Agree
<1>8. Shape' = Shape
  BY DEF Shape
<1>9. Kept' = Kept
  BY <1>3, <1>4 DEF Kept
<1>10. Sound => Sound'
  BY DEF Sound
<1>11. Count' = Count
  BY DEF Count
<1>12. /\ ram.synced + Unread(ram, f) + ram.size \in Nat /\ Count \in Nat
       /\ ram.synced + Unread(ram, f) + ram.size <= Count
  BY <1>1, <1>2, SumBounded
<1>13. Sound /\ CountBounded => CountBounded'
  <2>1. SUFFICES ASSUME Sound, CountBounded PROVE CountBounded'
    OBVIOUS
  <2>2. ram.total = seen /\ ram.nextId = seen + 1 /\ Count <= seen
    BY <2>1 DEF Sound, CountBounded
  <2>3. ram'.total = seen
    BY <2>2, <1>2, <1>6, <1>12
  <2>. QED  BY <2>1, <2>2, <2>3, <1>11 DEF CountBounded
<1>14. CountExact => CountExact'
  <2>1. SUFFICES ASSUME CountExact PROVE CountExact'
    OBVIOUS
  <2>2. Count = seen /\ ram.total <= seen /\ Settled.total <= seen
        /\ (ram.mounted => ram.total = seen)
    BY <2>1 DEF CountExact
  <2>3. ram'.total <= seen
    BY <2>2, <1>2, <1>6, <1>12
  <2>4. ram.mounted => ram'.total = seen
    BY <2>2, <2>3, <1>2, <1>6, <1>12
  <2>. QED  BY <2>2, <2>3, <2>4, <1>11 DEF CountExact
<1>15. Stored' = Stored
  BY DEF Stored
<1>16. Pend \in Seq(Ev)
  BY <1>2, EventsSlots DEF Pend, Disks, Rams
<1>17. Filled(Pend, stored, ram.nextId, Settled.nextId)
          => Filled(Pend, stored, ram.nextId, Settled'.nextId)
  BY <1>6, <1>16, FilledLater
<1>18. Linked(Range(Pend) \cup Queued, stored, received)' = Linked(Range(Pend) \cup Queued, stored, received)
  BY <1>3, <1>4
<1>19. Filled(Pend, stored, ram.nextId, Settled.nextId)' = Filled(Pend, stored, ram.nextId, Settled'.nextId)
  BY <1>4
<1>20. Rising(Pend, stored)' = Rising(Pend, stored)
  BY <1>4
<1>21. "id" \notin faults => Sound
  BY DEF Core
<1>22. faults \subseteq {"refused", "overwritten", "short"} => CountBounded /\ Sound
  BY <1>21 DEF Core
<1>. QED  BY <1>5, <1>7, <1>8, <1>1, <1>9, <1>10, <1>13, <1>14, <1>15, <1>17, <1>18, <1>19, <1>20, <1>21, <1>22 DEF Core

LEMMA FlushCore ==
    ASSUME Core, Flush
    PROVE  Core'
<1>1. BottleType /\ Idle /\ UNCHANGED <<disk, seen, received, stored, faults>>
  BY DEF Core, Flush
<1>2. Settled = disk /\ disk \in Disks /\ ram \in Rams /\ Settled' = WriteAll(disk, todo')
  BY <1>1, AtRest DEF BottleType, Settled
<1>3. ram.total \in Nat /\ ram.nextId \in Nat /\ ram.synced \in Nat /\ disk.file \in Files
      /\ ram.head \in 0..(RingSize - 1) /\ ram.size \in 0..RingSize /\ ram.ring \in Rings
  BY <1>2 DEF Rams, Disks
<1>4. CASE ram.dirty /\ todo' = persist(ram) /\ ram' = AfterPersist(ram)
  <2>1. /\ IsWrites(todo')
        /\ Settled' = [disk EXCEPT !.total = ram.total, !.nextId = ram.nextId, !.synced = ram.synced,
                                   !.head = ram.head, !.size = ram.size, !.ring = ram.ring]
    BY <1>2, <1>4, PersistWrites
  <2>2. Settled' \in Disks
    BY <2>1, <1>2, <1>3 DEF Disks
  <2>3. ram' \in Rams /\ ram'.woff = ram.woff /\ ram'.aoff = ram.aoff /\ ram'.synced = ram.synced
        /\ ram'.mounted = ram.mounted /\ ram'.nextId = ram.nextId /\ ram'.head = ram.head
        /\ ram'.size = ram.size /\ ram'.ring = ram.ring /\ ram'.total = ram.total
    BY <1>4, <1>2 DEF Rams, AfterPersist
  <2>4. /\ Settled'.file = disk.file /\ Settled'.woff = disk.woff
        /\ Settled'.aoff = disk.aoff /\ Settled'.synced = ram.synced
        /\ Settled'.head = ram.head /\ Settled'.size = ram.size
        /\ Settled'.ring = ram.ring /\ Settled'.total = ram.total /\ Settled'.nextId = ram.nextId
    BY <2>1, <1>2 DEF Disks
  <2>5. ram'.total >= ram.total
    BY <2>3, <1>3
  <2>. QED  BY <1>1, <1>2, <1>3, <2>1, <2>2, <2>3, <2>4, <2>5, QuietCore
<1>5. CASE /\ ~ram.dirty /\ ram.totalsDirty
           /\ todo' = persistTotals(ram)
           /\ ram' = [ram EXCEPT !.totalsDirty = FALSE]
  <2>1. /\ IsWrites(todo')
        /\ Settled' = [disk EXCEPT !.total = ram.total, !.nextId = ram.nextId, !.synced = ram.synced]
    BY <1>2, <1>5, TotalsWrites
  <2>2. Settled' \in Disks
    BY <2>1, <1>2, <1>3 DEF Disks
  <2>3. ram' \in Rams /\ ram'.woff = ram.woff /\ ram'.aoff = ram.aoff /\ ram'.synced = ram.synced
        /\ ram'.mounted = ram.mounted /\ ram'.nextId = ram.nextId /\ ram'.head = ram.head
        /\ ram'.size = ram.size /\ ram'.ring = ram.ring /\ ram'.total = ram.total
        /\ ram'.dirty = ram.dirty
    BY <1>5, <1>2 DEF Rams
  <2>4. /\ Settled'.file = disk.file /\ Settled'.woff = disk.woff
        /\ Settled'.aoff = disk.aoff /\ Settled'.synced = ram.synced
        /\ Settled'.head = disk.head /\ Settled'.size = disk.size
        /\ Settled'.ring = disk.ring /\ Settled'.total = ram.total /\ Settled'.nextId = ram.nextId
    BY <2>1, <1>2 DEF Disks
  <2>5. ram'.total >= ram.total
    BY <2>3, <1>3
  <2>. QED  BY <1>1, <1>2, <1>3, <2>1, <2>2, <2>3, <2>4, <2>5, QuietCore
<1>. QED  BY <1>4, <1>5 DEF Flush

LEMMA ReconcileCore ==
    ASSUME Core, Reconcile
    PROVE  Core'
<1>1. BottleType /\ Idle /\ UNCHANGED <<disk, seen, received, stored, faults>>
  BY DEF Core, Reconcile
<1>2. Settled = disk /\ disk \in Disks /\ ram \in Rams /\ Settled' = WriteAll(disk, todo')
  BY <1>1, AtRest DEF BottleType, Settled
<1>3. ram.total \in Nat /\ ram.nextId \in Nat /\ ram.synced \in Nat /\ disk.file \in Files
      /\ (ram.aoff > 0 => ram.synced > 0)
  BY <1>2 DEF Rams, Disks, Core, Shape
<1>. DEFINE R == Reconciled(ram, disk.file)
            sum == ram.synced + Unread(ram, disk.file) + ram.size
            ws == ReconcileWrites(ram, disk.file)
<1>4. ram' = R /\ todo' = ws
  BY DEF Reconcile
<1>5. /\ R \in Rams
      /\ R.total >= ram.total /\ R.total \in {ram.total, sum}
      /\ R.woff = ram.woff /\ R.aoff = ram.aoff /\ R.mounted = ram.mounted
      /\ R.nextId = ram.nextId /\ R.synced = ram.synced /\ R.head = ram.head
      /\ R.size = ram.size /\ R.ring = ram.ring /\ R.dirty = ram.dirty
  BY <1>2, <1>3, ReconciledFacts
<1>6. /\ IsWrites(ws)
      /\ \/ WriteAll(disk, ws) = disk
         \/ WriteAll(disk, ws) =
               [disk EXCEPT !.total = R.total, !.nextId = ram.nextId, !.synced = ram.synced]
  BY <1>2, <1>3, ReconcileWritten
<1>7. R.total \in Nat
  BY <1>5 DEF Rams
<1>. HIDE DEF R, ws
<1>8. CASE WriteAll(disk, ws) = disk
  <2>1. Settled' = disk
    BY <1>8, <1>4, <1>2
  <2>. QED  BY <2>1, <1>1, <1>2, <1>3, <1>4, <1>5, <1>6, QuietCore
<1>9. CASE WriteAll(disk, ws) = [disk EXCEPT !.total = R.total, !.nextId = ram.nextId, !.synced = ram.synced]
  <2>1. Settled' = [disk EXCEPT !.total = R.total, !.nextId = ram.nextId, !.synced = ram.synced]
    BY <1>9, <1>4, <1>2
  <2>2. Settled' \in Disks
    BY <2>1, <1>2, <1>3, <1>7 DEF Disks
  <2>4. /\ Settled'.file = disk.file /\ Settled'.woff = disk.woff
        /\ Settled'.aoff = disk.aoff /\ Settled'.synced = ram.synced
        /\ Settled'.head = disk.head /\ Settled'.size = disk.size
        /\ Settled'.ring = disk.ring /\ Settled'.total = R.total /\ Settled'.nextId = ram.nextId
    BY <2>1, <1>2 DEF Disks
  <2>. QED  BY <2>2, <2>4, <1>1, <1>2, <1>3, <1>4, <1>5, <1>6, QuietCore
<1>. QED  BY <1>6, <1>8, <1>9

-----------------------------------------------------------------------------
(* The two uploads.  What waits is typed and in the order of the bottles. *)

LEMMA InsertType ==
    ASSUME NEW st \in SUBSET Ev, NEW evs \in SUBSET Ev, NEW rc, Bottles(st) \subseteq rc
    PROVE  /\ Inserted(st, evs) \in SUBSET Ev /\ st \subseteq Inserted(st, evs)
           /\ Bottles(Inserted(st, evs)) \subseteq rc \cup Bottles(evs)
           /\ Ids(st) \subseteq Ids(Inserted(st, evs))
           /\ Ids(evs) \subseteq Ids(Inserted(st, evs))
<1>. DEFINE st2 == Inserted(st, evs)
<1>1. /\ st \subseteq st2 /\ st2 \subseteq st \cup evs /\ st2 \in SUBSET Ev
      /\ \A e \in evs : \E s \in st2 : s.id = e.id
  BY InsertedFacts
<1>. HIDE DEF st2
<1>2. st2 \in SUBSET Ev /\ st \subseteq st2
  BY <1>1
<1>3. Bottles(st2) \subseteq rc \cup Bottles(evs)
  BY <1>1 DEF Bottles
<1>4. Ids(st) \subseteq Ids(st2)
  BY <1>1 DEF Ids
<1>5. Ids(evs) \subseteq Ids(st2)
  BY <1>1 DEF Ids
<1>. QED  BY <1>2, <1>3, <1>4, <1>5 DEF st2

LEMMA InsertSound ==
    ASSUME NEW st \in SUBSET Ev, NEW evs \in SUBSET Ev, NEW rc, rc = Bottles(st),
           \A e \in st \cup evs : e.id = e.bottle
    PROVE  /\ \A e \in Inserted(st, evs) : e.id = e.bottle
           /\ rc \cup Bottles(evs) = Bottles(Inserted(st, evs))
<1>. DEFINE st2 == Inserted(st, evs)
<1>1. /\ st \subseteq st2 /\ st2 \subseteq st \cup evs /\ st2 \in SUBSET Ev
      /\ \A e \in evs : \E s \in st2 : s.id = e.id
  BY InsertedFacts
<1>. HIDE DEF st2
<1>2. \A e \in st2 : e.id = e.bottle
  BY <1>1
<1>3. \A e \in evs : \E s \in st2 : s.bottle = e.bottle
  BY <1>1, <1>2
<1>4. rc \cup Bottles(evs) \subseteq Bottles(st2)
  BY <1>1, <1>3 DEF Bottles
<1>5. Bottles(st2) \subseteq rc \cup Bottles(evs)
  BY <1>1 DEF Bottles
<1>. QED  BY <1>2, <1>4, <1>5 DEF st2

LEMMA WaitingType ==
    ASSUME BottleType, Shape
    PROVE  /\ Pend \in Seq(Ev) /\ Range(Pend) \in SUBSET Ev /\ Queued \in SUBSET Ev
           /\ Bottles(Range(Pend) \cup Queued) \subseteq 0..seen
           /\ \A i, j \in 1..Len(Pend) : i < j => Pend[i].bottle < Pend[j].bottle
           /\ Sound => \A x \in Range(Pend) \cup Queued : x.id = x.bottle
<1>. DEFINE f == Settled.file
            s == Slots(f, ram.aoff, ram.woff)
            n == Len(s)
<1>1. f \in Files /\ ram.aoff \in Nat /\ ram.woff \in Nat /\ seen \in Nat /\ OrderedUpTo(f, seen)
      /\ ram \in Rams
  BY DEF BottleType, Disks, Rams, Shape
<1>2. /\ Pend \in Seq(Ev) /\ Len(Pend) = n /\ n \in Nat /\ DOMAIN Pend = 1..n
      /\ \A i \in 1..n : Pend[i] = s[i].e
  BY <1>1, EventsSlots DEF Pend
<1>3. /\ \A i \in 1..n : s[i].e.bottle <= seen
      /\ \A i, j \in 1..n : i < j => s[i].e.bottle < s[j].e.bottle
  BY <1>1, SlotsOrdered
<1>4. \A i \in 1..n : s[i].next - 1 \in 1..Len(f) /\ s[i].e = f[s[i].next - 1].e
  BY <1>1, SlotEvents
<1>5. /\ Ring(ram) \in Seq(Ev) /\ DOMAIN Ring(ram) = 1..ram.size
      /\ \A i \in 1..ram.size : /\ (ram.head + i - 1) % RingSize \in 0..(RingSize - 1)
                                /\ Ring(ram)[i] = ram.ring[(ram.head + i - 1) % RingSize]
  BY <1>1, RingFacts
<1>. HIDE DEF n, s, f
<1>6. Range(Pend) \in SUBSET Ev
  BY <1>2 DEF Range
<1>7. Queued \in SUBSET Ev
  <2>. DEFINE q == Ring(ram)
  <2>1. q \in Seq(Ev)
    BY <1>5
  <2>. HIDE DEF q
  <2>2. \A i \in DOMAIN q : q[i] \in Ev
    BY <2>1
  <2>3. Range(q) \in SUBSET Ev
    BY <2>2 DEF Range
  <2>. QED  BY <2>3 DEF Queued, q
<1>8. \A x \in Range(Pend) : x.bottle <= seen
  BY <1>2, <1>3 DEF Range
<1>9. \A x \in Queued : \E i \in 0..(RingSize - 1) : x = ram.ring[i]
  BY <1>5 DEF Range, Queued
<1>10. \A x \in Queued : x.bottle <= seen
  BY <1>9 DEF BottleType
<1>11. \A x \in Range(Pend) \cup Queued : x.bottle \in Nat
  BY <1>6, <1>7 DEF Ev
<1>12. Bottles(Range(Pend) \cup Queued) \subseteq 0..seen
  BY <1>1, <1>8, <1>10, <1>11 DEF Bottles
<1>13. \A i, j \in 1..Len(Pend) : i < j => Pend[i].bottle < Pend[j].bottle
  BY <1>2, <1>3
<1>14. Sound => \A x \in Range(Pend) : x.id = x.bottle
  <2>1. SUFFICES ASSUME Sound PROVE \A i \in 1..n : s[i].e.id = s[i].e.bottle
    BY <1>2 DEF Range
  <2>2. \A a \in 1..Len(f) : f[a].e.id = f[a].e.bottle
    BY <2>1 DEF Sound, f
  <2>. QED  BY <2>2, <1>4
<1>15. Sound => \A x \in Queued : x.id = x.bottle
  BY <1>9 DEF Sound
<1>. QED  BY <1>2, <1>6, <1>7, <1>12, <1>13, <1>14, <1>15

RingBatch == SubSeq(Ring(ram), 1, Min({BatchSize, ram.size}))

LEMMA RingBatchFacts ==
    ASSUME ram \in Rams, ram.size > 0
    PROVE  /\ RingBatch \in Seq(Ev) /\ Len(RingBatch) \in 1..ram.size
           /\ DOMAIN RingBatch = 1..Len(RingBatch)
           /\ Range(RingBatch) = {Ring(ram)[i] : i \in 1..Len(RingBatch)}
           /\ Range(RingBatch) \subseteq Queued
<1>. DEFINE q == Ring(ram)
            m == Min({BatchSize, ram.size})
<1>1. q \in Seq(Ev) /\ Len(q) = ram.size /\ DOMAIN q = 1..ram.size /\ ram.size \in Nat
  BY RingFacts
<1>2. BatchSize \in Nat \ {0}
  BY BottleAssumption
<1>3. m \in {BatchSize, ram.size} /\ m <= BatchSize /\ m <= ram.size
  <2>1. BatchSize \in Int /\ ram.size \in Int
    BY <1>1, <1>2
  <2>2. \A a, b \in Int : /\ Min({a, b}) \in {a, b} /\ Min({a, b}) <= a /\ Min({a, b}) <= b
    BY MinOfTwo
  <2>. QED  BY <2>1, <2>2
<1>. HIDE DEF q, m
<1>4. m \in 1..ram.size
  BY <1>1, <1>2, <1>3
<1>5. /\ SubSeq(q, 1, m) \in Seq(Ev) /\ Len(SubSeq(q, 1, m)) = m
      /\ DOMAIN SubSeq(q, 1, m) = 1..m
      /\ \A i \in 1..m : SubSeq(q, 1, m)[i] = q[i]
  BY <1>1, <1>4
<1>6. RingBatch = SubSeq(q, 1, m)
  BY DEF RingBatch, q, m
<1>7. Range(RingBatch) = {q[i] : i \in 1..m}
  BY <1>5, <1>6 DEF Range
<1>8. \A i \in 1..m : i \in DOMAIN q
  BY <1>1, <1>4
<1>9. Range(RingBatch) \subseteq Range(q)
  BY <1>7, <1>8 DEF Range
<1>10. Range(q) = Queued
  BY DEF q, Queued
<1>11. Len(RingBatch) = m
  BY <1>5, <1>6
<1>12. Range(RingBatch) = {Ring(ram)[i] : i \in 1..Len(RingBatch)}
  BY <1>7, <1>11 DEF q
<1>. QED  BY <1>4, <1>5, <1>6, <1>9, <1>10, <1>11, <1>12

LEMMA UploadRingEffect ==
    ASSUME Core, NEW ack \in -1..MaxBottles, UploadRing(ack)
    PROVE  /\ Settled = disk /\ disk \in Disks /\ ram \in Rams
           /\ IsWrites(todo') /\ Settled' \in Disks /\ ram' \in Rams
           /\ UNCHANGED <<disk, seen, faults>>
           /\ received' = received \cup Bottles(Range(RingBatch))
           /\ stored' = Inserted(stored, Range(RingBatch))
           /\ Range(RingBatch) \subseteq Queued
           /\ Settled'.file = disk.file /\ Settled'.woff = disk.woff /\ Settled'.aoff = disk.aoff
           /\ ram'.woff = ram.woff /\ ram'.aoff = ram.aoff /\ ram'.mounted = ram.mounted
           /\ ram'.total = ram.total /\ ram'.nextId = ram.nextId /\ ram'.ring = ram.ring
           /\ Queued' \subseteq Queued /\ Queued \subseteq Range(RingBatch) \cup Queued'
           /\ \/ Settled' = disk /\ ram' = ram
              \/ /\ \E n \in 0..ram.size : ram'.synced = ram.synced + n /\ ram'.size = ram.size - n
                 /\ Settled'.total = ram'.total /\ Settled'.nextId = ram'.nextId
                 /\ Settled'.synced = ram'.synced /\ Settled'.head = ram'.head
                 /\ Settled'.size = ram'.size /\ Settled'.ring = ram'.ring
<1>. DEFINE ids == [i \in DOMAIN RingBatch |-> RingBatch[i].id]
            n == IF ack = 0 THEN Len(RingBatch) ELSE countAckedInBatch(ack, ids)
            r == Popped(ram, n)
<1>1. BottleType /\ Idle /\ UNCHANGED <<disk, seen, faults>> /\ ram.size > 0
  BY DEF Core, UploadRing
<1>2. Settled = disk /\ disk \in Disks /\ ram \in Rams /\ Settled' = WriteAll(disk, todo')
      /\ ram.size \in Nat
  <2>1. ram \in Rams
    BY <1>1 DEF BottleType
  <2>. QED  BY <1>1, <2>1, AtRest, RingFacts DEF Settled
<1>3. /\ ack \in Range(ids) \cup {0, -1}
      /\ received' = received \cup {e.bottle : e \in Range(RingBatch)}
      /\ Insert(Range(RingBatch))
      /\ ram' = IF ack = -1 \/ n = 0 THEN ram ELSE AfterPersist(r)
      /\ todo' = IF ack = -1 \/ n = 0 THEN <<>> ELSE persist(r)
  BY DEF UploadRing, RingBatch, Popped
<1>4. received' = received \cup Bottles(Range(RingBatch))
  BY <1>3 DEF Bottles
<1>5. stored' = Inserted(stored, Range(RingBatch))
  BY <1>3 DEF Insert, Inserted
<1>6. /\ RingBatch \in Seq(Ev) /\ Len(RingBatch) \in 1..ram.size
      /\ DOMAIN RingBatch = 1..Len(RingBatch)
      /\ Range(RingBatch) = {Ring(ram)[i] : i \in 1..Len(RingBatch)}
      /\ Range(RingBatch) \subseteq Queued
  BY <1>1, <1>2, RingBatchFacts
<1>7. CASE ack = -1 \/ n = 0
  <2>1. ram' = ram /\ todo' = <<>>
    BY <1>3, <1>7
  <2>2. Settled' = disk /\ IsWrites(todo')
    BY <2>1, <1>2, WritesNone
  <2>3. Queued' = Queued
    BY <2>1 DEF Queued
  <2>. QED  BY <1>1, <1>2, <1>4, <1>5, <1>6, <2>1, <2>2, <2>3
<1>8. CASE ~(ack = -1 \/ n = 0)
  <2>1. ids \in Seq(Nat) /\ Len(ids) = Len(RingBatch)
    <3>1. \A i \in DOMAIN RingBatch : RingBatch[i].id \in Nat
      <4>1. \A i \in DOMAIN RingBatch : RingBatch[i] \in Ev
        BY <1>6
      <4>. QED  BY <4>1 DEF Ev
    <3>2. Len(RingBatch) \in Nat
      BY <1>6
    <3>. QED  BY <3>1, <3>2, <1>6
  <2>2. n \in 0..Len(RingBatch)
    <3>1. CASE ack = 0
      BY <3>1, <1>6
    <3>2. CASE ack \in Range(ids)
      <4>1. ack \in Nat
        BY <3>2, <2>1 DEF Range
      <4>2. countAckedInBatch(ack, ids) \in 0..Len(RingBatch)
        BY <4>1, <2>1, AckedType
      <4>. QED  BY <3>1, <4>2
    <3>. QED  BY <3>1, <3>2, <1>3, <1>8
  <2>. HIDE DEF n
  <2>3. n \in 0..ram.size
    BY <2>2, <1>6, <1>2
  <2>4. /\ r \in Rams
        /\ r.woff = ram.woff /\ r.aoff = ram.aoff /\ r.sdOk = ram.sdOk /\ r.mounted = ram.mounted
        /\ r.total = ram.total /\ r.nextId = ram.nextId /\ r.synced = ram.synced + n
        /\ r.size = ram.size - n /\ r.ring = ram.ring
        /\ Range(Ring(r)) \subseteq Range(Ring(ram))
        /\ Range(Ring(ram)) \subseteq {Ring(ram)[i] : i \in 1..n} \cup Range(Ring(r))
    BY <1>2, <2>3, PoppedFacts
  <2>. HIDE DEF r
  <2>5. ram' = AfterPersist(r) /\ todo' = persist(r)
    BY <1>3, <1>8
  <2>6. /\ ram' \in Rams /\ ram'.woff = r.woff /\ ram'.aoff = r.aoff /\ ram'.mounted = r.mounted
        /\ ram'.total = r.total /\ ram'.nextId = r.nextId /\ ram'.synced = r.synced
        /\ ram'.size = r.size /\ ram'.head = r.head /\ ram'.ring = r.ring
    BY <2>4, <2>5 DEF AfterPersist, Rams
  <2>7. /\ IsWrites(todo')
        /\ Settled' = [disk EXCEPT !.total = r.total, !.nextId = r.nextId, !.synced = r.synced,
                                   !.head = r.head, !.size = r.size, !.ring = r.ring]
    BY <1>2, <2>4, <2>5, PersistWrites
  <2>8. r.total \in Nat /\ r.nextId \in Nat /\ r.synced \in Nat /\ r.head \in 0..(RingSize - 1)
        /\ r.size \in 0..RingSize /\ r.ring \in Rings
    BY <2>4 DEF Rams
  <2>9. Settled' \in Disks
    BY <2>7, <2>8, <1>2 DEF Disks
  <2>10. /\ Settled'.file = disk.file /\ Settled'.woff = disk.woff
         /\ Settled'.aoff = disk.aoff /\ Settled'.synced = r.synced
         /\ Settled'.head = r.head /\ Settled'.size = r.size
         /\ Settled'.ring = r.ring /\ Settled'.total = r.total /\ Settled'.nextId = r.nextId
    BY <2>7, <1>2 DEF Disks
  <2>11. Queued' = Range(Ring(r))
    <3>1. Ring(ram') = Ring(r)
      BY <2>6 DEF Ring
    <3>. QED  BY <3>1 DEF Queued
  <2>12. {Ring(ram)[i] : i \in 1..n} \subseteq Range(RingBatch)
    <3>1. \A i \in 1..n : i \in 1..Len(RingBatch)
      BY <2>2, <1>6, <1>2
    <3>. QED  BY <3>1, <1>6
  <2>13. Queued' \subseteq Queued /\ Queued \subseteq Range(RingBatch) \cup Queued'
    BY <2>4, <2>11, <2>12 DEF Queued
  <2>14. ram'.synced = ram.synced + n /\ ram'.size = ram.size - n
    BY <2>4, <2>6
  <2>. QED  BY <1>1, <1>2, <1>4, <1>5, <1>6, <2>3, <2>4, <2>6, <2>7, <2>9, <2>10, <2>13, <2>14
<1>. QED  BY <1>7, <1>8

LEMMA UploadRingCore ==
    ASSUME Core, NEW ack \in -1..MaxBottles, UploadRing(ack)
    PROVE  Core'
<1>. DEFINE evs == Range(RingBatch)
            w == Range(Pend) \cup Queued
            w2 == Range(Pend) \cup Queued'
            st2 == Inserted(stored, evs)
            rc2 == received \cup Bottles(evs)
<1>1. /\ Settled = disk /\ disk \in Disks /\ ram \in Rams
      /\ IsWrites(todo') /\ Settled' \in Disks /\ ram' \in Rams
      /\ UNCHANGED <<disk, seen, faults>>
      /\ received' = rc2 /\ stored' = st2 /\ evs \subseteq Queued
      /\ Settled'.file = disk.file /\ Settled'.woff = disk.woff /\ Settled'.aoff = disk.aoff
      /\ ram'.woff = ram.woff /\ ram'.aoff = ram.aoff /\ ram'.mounted = ram.mounted
      /\ ram'.total = ram.total /\ ram'.nextId = ram.nextId /\ ram'.ring = ram.ring
      /\ Queued' \subseteq Queued /\ Queued \subseteq evs \cup Queued'
      /\ \/ Settled' = disk /\ ram' = ram
         \/ /\ \E n \in 0..ram.size : ram'.synced = ram.synced + n /\ ram'.size = ram.size - n
            /\ Settled'.total = ram'.total /\ Settled'.nextId = ram'.nextId
            /\ Settled'.synced = ram'.synced /\ Settled'.head = ram'.head
            /\ Settled'.size = ram'.size /\ Settled'.ring = ram'.ring
  BY UploadRingEffect
<1>2. BottleType /\ Agree /\ Shape
  BY DEF Core
<1>3. /\ Pend \in Seq(Ev) /\ Range(Pend) \in SUBSET Ev /\ Queued \in SUBSET Ev
      /\ Bottles(w) \subseteq 0..seen
      /\ Sound => \A x \in w : x.id = x.bottle
  BY <1>2, WaitingType
<1>4. evs \in SUBSET Ev /\ evs \in SUBSET w /\ w \in SUBSET Ev /\ w2 \in SUBSET w
      /\ Queued' \in SUBSET Ev
  BY <1>1, <1>3
<1>5. stored \in SUBSET Ev /\ Bottles(stored) \subseteq received /\ received \subseteq 0..seen
      /\ seen \in Nat
  BY <1>2 DEF BottleType
<1>6. /\ st2 \in SUBSET Ev /\ stored \subseteq st2 /\ Bottles(st2) \subseteq rc2
      /\ Ids(stored) \subseteq Ids(st2)
  BY <1>4, <1>5, InsertType
<1>7. Pend' = Pend
  BY <1>1 DEF Pend
<1>8. (Range(Pend) \cup Queued)' = w2
  BY <1>7
<1>. HIDE DEF w, w2, st2, rc2, evs
<1>9. rc2 \subseteq 0..seen
  <2>1. Bottles(evs) \subseteq Bottles(w)
    BY <1>4 DEF Bottles
  <2>. QED  BY <2>1, <1>3, <1>5 DEF rc2
<1>10. BottleType'
  <2>1. \A i \in 0..(RingSize - 1) : ram'.ring[i].bottle <= seen /\ Settled'.ring[i].bottle <= seen
    <3>1. Settled'.ring \in {Settled.ring, ram.ring} /\ ram'.ring = ram.ring
      BY <1>1
    <3>. QED  BY <3>1, <1>2 DEF BottleType
  <2>2. st2 \subseteq Ev
    BY <1>6
  <2>. QED  BY <2>1, <2>2, <1>1, <1>2, <1>6, <1>9 DEF BottleType
<1>11. ram.nextId \in Nat /\ Settled.nextId \in Nat /\ ram.synced \in Nat /\ ram.size \in Nat
       /\ ram.aoff \in Nat /\ ram.woff \in Nat
  <2>1. ram.size \in Nat
    BY <1>1, RingFacts
  <2>. QED  BY <2>1, <1>1 DEF Disks, Rams
<1>12. Agree'
  BY <1>1, <1>2, <1>11 DEF Agree
<1>13. Shape'
  <2>1. ram'.synced >= ram.synced /\ ram'.synced \in Nat
    BY <1>1, <1>11
  <2>2. ram.aoff > 0 => ram'.synced > 0
    BY <2>1, <1>2, <1>11 DEF Shape
  <2>. QED  BY <2>2, <1>1, <1>2 DEF Shape
<1>14. Sound => Sound'
  <2>1. SUFFICES ASSUME Sound PROVE Sound'
    OBVIOUS
  <2>2. \A e \in stored \cup evs : e.id = e.bottle
    BY <2>1, <1>3, <1>4 DEF Sound
  <2>3. received = Bottles(stored)
    BY <2>1 DEF Sound
  <2>4. (\A e \in st2 : e.id = e.bottle) /\ rc2 = Bottles(st2)
    BY <2>2, <2>3, <1>4, <1>5, InsertSound DEF st2, rc2
  <2>5. Settled'.ring \in {Settled.ring, ram.ring} /\ ram'.ring = ram.ring
    BY <1>1
  <2>. QED  BY <2>1, <2>4, <2>5, <1>1 DEF Sound
<1>15. Kept => Kept'
  <2>1. Bottles(w) \subseteq Bottles(evs) \cup Bottles(w2)
    <3>1. w \subseteq evs \cup w2
      BY <1>1 DEF w, w2
    <3>. QED  BY <3>1 DEF Bottles
  <2>2. Kept => 1..seen \subseteq received \cup Bottles(w)
    BY DEF Kept, w
  <2>3. (1..seen \subseteq rc2 \cup Bottles(w2)) => Kept'
    BY <1>1, <1>8 DEF Kept
  <2>. QED  BY <2>1, <2>2, <2>3 DEF rc2
<1>16. Count' = Count
  <2>1. CASE Settled' = disk /\ ram' = ram
    BY <2>1 DEF Count
  <2>2. CASE \E n \in 0..ram.size : ram'.synced = ram.synced + n /\ ram'.size = ram.size - n
    <3>1. PICK n \in 0..ram.size : ram'.synced = ram.synced + n /\ ram'.size = ram.size - n
      BY <2>2
    <3>. DEFINE half == (ram.woff - ram.aoff) \div 2
    <3>2. half \in Int
      BY <1>11
    <3>3. Count = ram.synced + half + ram.size /\ Count' = (ram.synced + n) + half + (ram.size - n)
      BY <3>1, <1>1 DEF Count
    <3>. HIDE DEF half
    <3>. QED  BY <3>2, <3>3, <1>11
  <2>. QED  BY <1>1, <2>1, <2>2
<1>17. Sound /\ CountBounded => CountBounded'
  <2>1. SUFFICES ASSUME Sound, CountBounded PROVE CountBounded'
    OBVIOUS
  <2>2. ram.total = seen /\ ram.nextId = seen + 1 /\ Count <= seen
    BY <2>1 DEF Sound, CountBounded
  <2>. QED  BY <2>1, <2>2, <1>1, <1>16 DEF CountBounded
<1>18. CountExact => CountExact'
  <2>1. SUFFICES ASSUME CountExact PROVE CountExact'
    OBVIOUS
  <2>. QED  BY <2>1, <1>1, <1>16 DEF CountExact
<1>19. Linked(w, stored, received) =>
           Linked(w2, st2, rc2) /\ (rc2 = Bottles(st2) => received = Bottles(stored))
  <2>1. SUFFICES ASSUME Linked(w, stored, received)
                 PROVE  Linked(w2, st2, rc2) /\ (rc2 = Bottles(st2) => received = Bottles(stored))
    OBVIOUS
  <2>2. Linked(w2, Inserted(stored, evs), received \cup Bottles(evs))
    BY <2>1, <1>4, <1>5, LinkedUpload
  <2>3. ASSUME received \cup Bottles(evs) = Bottles(Inserted(stored, evs))
        PROVE  received = Bottles(stored)
    BY <2>1, <2>3, <1>4, <1>5, LinkedStored
  <2>. QED  BY <2>2, <2>3 DEF st2, rc2
<1>20. Filled(Pend, stored, ram.nextId, Settled.nextId)
          => Filled(Pend, st2, ram.nextId, Settled'.nextId)
  BY <1>1, <1>3, <1>6, <1>11, FilledLater
<1>21. Rising(Pend, stored) => Rising(Pend, st2)
  BY <1>6, RisingLater
<1>22. Stored' <=> rc2 = Bottles(st2)
  BY <1>1 DEF Stored
<1>23. Linked(w, stored, received) /\ Stored' => Stored
  BY <1>19, <1>22 DEF Stored
<1>24. Linked(Range(Pend) \cup Queued, stored, received)' <=> Linked(w2, st2, rc2)
  BY <1>8, <1>1
<1>25. Filled(Pend, stored, ram.nextId, Settled.nextId)' <=> Filled(Pend, st2, ram.nextId, Settled'.nextId)
  BY <1>7, <1>1
<1>26. Rising(Pend, stored)' <=> Rising(Pend, st2)
  BY <1>7, <1>1
<1>27. "id" \notin faults => Sound
  BY DEF Core
<1>28. faults \subseteq {"refused", "overwritten", "short"} => CountBounded /\ Sound
  BY <1>27 DEF Core
<1>29. faults \cap {"ring", "short", "overwritten"} = {} => Kept
  BY DEF Core
<1>30. ASSUME faults \subseteq {"refused", "id"}
       PROVE  /\ Linked(w, stored, received)
              /\ Filled(Pend, stored, ram.nextId, Settled.nextId)
              /\ Stored => Rising(Pend, stored) /\ CountExact
  BY <1>30 DEF Core, w
<1>31. ASSUME faults \subseteq {"refused", "id"}
       PROVE  /\ Linked(Range(Pend) \cup Queued, stored, received)'
              /\ Filled(Pend, stored, ram.nextId, Settled.nextId)'
              /\ Stored' => Rising(Pend, stored)' /\ CountExact'
  BY <1>30, <1>31, <1>18, <1>19, <1>20, <1>21, <1>23, <1>24, <1>25, <1>26
<1>32. faults' = faults
  BY <1>1
<1>. QED  BY <1>10, <1>12, <1>13, <1>14, <1>15, <1>17, <1>27, <1>28, <1>29, <1>31, <1>32 DEF Core

-----------------------------------------------------------------------------
(* A bottle whose event goes to the ring, the card failing or taking a part *)
(* of the record.                                                           *)

NewEvent == [id |-> ram.nextId, bottle |-> seen + 1]

LEMMA NewEventType ==
    ASSUME BottleType
    PROVE  /\ NewEvent \in Ev /\ NewEvent.id = ram.nextId /\ NewEvent.bottle = seen + 1
           /\ ram.nextId \in Nat /\ seen \in Nat /\ Halves(NewEvent)[1] \in HalfRecs
           /\ Halves(NewEvent)[1].e = NewEvent
<1>1. ram \in Rams /\ seen \in Nat
  BY DEF BottleType
<1>2. ram.nextId \in Nat
  BY <1>1 DEF Rams
<1>3. NewEvent \in Ev
  BY <1>1, <1>2 DEF NewEvent, Ev
<1>4. Halves(NewEvent)[1] = [e |-> NewEvent, half |-> 1]
  BY DEF Halves
<1>. QED  BY <1>1, <1>2, <1>3, <1>4 DEF NewEvent, HalfRecs

LEMMA AddToRingEffect ==
    ASSUME Core, NEW short \in BOOLEAN, AddToRing(short)
    PROVE  /\ Settled = disk /\ disk \in Disks /\ ram \in Rams
           /\ IsWrites(todo') /\ Settled' \in Disks /\ ram' \in Rams
           /\ UNCHANGED <<disk, received, stored>> /\ seen' = seen + 1
           /\ faults' = faults \cup (IF short THEN {"short"}
                                     ELSE IF ram.sdOk THEN {"refused"} ELSE {})
                               \cup (IF ram.size = RingSize THEN {"overwritten"} ELSE {})
           /\ Settled'.file = (IF short THEN Append(disk.file, Halves(NewEvent)[1]) ELSE disk.file)
           /\ Settled'.woff = disk.woff /\ Settled'.aoff = disk.aoff
           /\ Settled'.total = ram'.total /\ Settled'.nextId = ram'.nextId
           /\ Settled'.synced = ram'.synced
           /\ ram'.woff = ram.woff /\ ram'.aoff = ram.aoff /\ ram'.mounted = ram.mounted
           /\ ram'.total = ram.total + 1 /\ ram'.nextId = ram.nextId + 1
           /\ ram'.synced = ram.synced
           /\ ram'.size = (IF ram.size < RingSize THEN ram.size + 1 ELSE ram.size)
           /\ \A i \in 0..(RingSize - 1) : ram'.ring[i] \in {NewEvent, ram.ring[i]}
           /\ Settled'.ring \in {disk.ring, ram'.ring}
           /\ ~ram'.dirty => /\ Settled'.head = ram'.head /\ Settled'.size = ram'.size
                             /\ Settled'.ring = ram'.ring
           /\ ram.size < RingSize => Queued' = Queued \cup {NewEvent}
<1>. DEFINE r0 == [ram EXCEPT !.total = @ + 1, !.nextId = @ + 1, !.sdOk = FALSE]
            r == Enqueued(r0, NewEvent)
            g == IF short THEN Append(disk.file, Halves(NewEvent)[1]) ELSE disk.file
            W == IF short THEN <<[file |-> Append(disk.file, Halves(NewEvent)[1])]>> ELSE <<>>
            D1 == WriteAll(disk, W)
            fl == faults \cup (IF short THEN {"short"}
                                     ELSE IF ram.sdOk THEN {"refused"} ELSE {})
                               \cup (IF ram.size = RingSize THEN {"overwritten"} ELSE {})
<1>1. BottleType /\ Idle /\ UNCHANGED <<disk, received, stored>> /\ seen' = seen + 1 /\ Shape
  BY DEF Core, AddToRing
<1>2. Settled = disk /\ disk \in Disks /\ ram \in Rams /\ Settled' = WriteAll(disk, todo')
  BY <1>1, AtRest DEF BottleType, Settled
<1>3. ram' = AfterQueue(r) /\ todo' = W \o QueueWrites(r) /\ faults' = fl
  BY DEF AddToRing, NewEvent
<1>4. NewEvent \in Ev /\ Halves(NewEvent)[1] \in HalfRecs
  BY <1>1, NewEventType
<1>5. ram.total \in Nat /\ ram.nextId \in Nat
  BY <1>2 DEF Rams
<1>6. /\ r0 \in Rams /\ r0.woff = ram.woff /\ r0.aoff = ram.aoff /\ r0.mounted = ram.mounted
      /\ r0.total = ram.total + 1 /\ r0.nextId = ram.nextId + 1 /\ r0.synced = ram.synced
      /\ r0.head = ram.head /\ r0.size = ram.size /\ r0.ring = ram.ring
  <2>1. ram.total + 1 \in Nat /\ ram.nextId + 1 \in Nat
    BY <1>5
  <2>2. r0 \in Rams
    BY <2>1, <1>2 DEF Rams
  <2>. QED  BY <2>2, <1>2 DEF Rams
<1>7. Ring(r0) = Ring(ram)
  BY <1>6 DEF Ring
<1>. HIDE DEF r0
<1>8. /\ r \in Rams
      /\ r.woff = r0.woff /\ r.aoff = r0.aoff /\ r.mounted = r0.mounted
      /\ r.total = r0.total /\ r.nextId = r0.nextId /\ r.synced = r0.synced /\ r.dirty
      /\ r.size = (IF r0.size < RingSize THEN r0.size + 1 ELSE r0.size)
      /\ \A i \in 0..(RingSize - 1) : r.ring[i] \in {NewEvent, r0.ring[i]}
  BY <1>4, <1>6, EnqueuedFacts
<1>9. r0.size < RingSize => Range(Ring(r)) = Range(Ring(r0)) \cup {NewEvent}
  BY <1>4, <1>6, EnqueuedRing
<1>. HIDE DEF r, W, D1, fl
<1>10. IsWrites(W) /\ D1 = [disk EXCEPT !.file = g] /\ D1 \in Disks
  <2>1. disk.file \in Files
    BY <1>2 DEF Disks
  <2>2. g \in Files
    BY <2>1, <1>4 DEF Files
  <2>3. CASE short
    <3>. DEFINE x == [file |-> Append(disk.file, Halves(NewEvent)[1])]
    <3>1. W = <<x>>
      BY <2>3 DEF W
    <3>2. IsWrites(W) /\ D1 = Write(disk, x)
      BY <3>1, WritesOne DEF D1
    <3>3. Plain(disk)
      BY <1>2, PlainDisk
    <3>4. D1 = [disk EXCEPT !.file = g]
      <4>1. \A v : Write(disk, [file |-> v]) = [disk EXCEPT !.file = v]
        BY <3>3, WritePlain
      <4>2. g = Append(disk.file, Halves(NewEvent)[1])
        BY <2>3
      <4>. HIDE DEF g
      <4>. QED  BY <3>2, <4>1, <4>2
    <3>5. D1 \in Disks
      BY <3>4, <2>2, <1>2 DEF Disks
    <3>. QED  BY <3>2, <3>4, <3>5
  <2>4. CASE ~short
    <3>1. W = <<>>
      BY <2>4 DEF W
    <3>2. IsWrites(W) /\ D1 = disk
      BY <3>1, <1>2, WritesNone DEF D1
    <3>3. disk = [disk EXCEPT !.file = disk.file]
      BY <1>2 DEF Disks
    <3>. QED  BY <3>2, <3>3, <2>4, <1>2
  <2>. QED  BY <2>3, <2>4
<1>. HIDE DEF g
<1>11. /\ D1.file = g /\ D1.woff = disk.woff /\ D1.aoff = disk.aoff /\ D1.head = disk.head
       /\ D1.size = disk.size /\ D1.ring = disk.ring
  BY <1>10, <1>2 DEF Disks
<1>12. r.total \in Nat /\ r.nextId \in Nat /\ r.synced \in Nat /\ r.head \in 0..(RingSize - 1)
       /\ r.size \in 0..RingSize /\ r.ring \in Rings
  BY <1>8 DEF Rams
<1>13. /\ ram' \in Rams /\ ram'.woff = r.woff /\ ram'.aoff = r.aoff /\ ram'.mounted = r.mounted
       /\ ram'.total = r.total /\ ram'.nextId = r.nextId /\ ram'.synced = r.synced
       /\ ram'.size = r.size /\ ram'.head = r.head /\ ram'.ring = r.ring
  BY <1>3, <1>8 DEF AfterQueue, AfterPersist, Rams
<1>14. /\ IsWrites(todo') /\ Settled' \in Disks /\ Settled'.file = g /\ Settled'.woff = disk.woff
       /\ Settled'.aoff = disk.aoff /\ Settled'.total = r.total /\ Settled'.nextId = r.nextId
       /\ Settled'.synced = r.synced /\ Settled'.ring \in {disk.ring, r.ring}
       /\ ~ram'.dirty => /\ Settled'.head = r.head /\ Settled'.size = r.size
                         /\ Settled'.ring = r.ring
  <2>1. CASE r.since >= PersistEvery \/ r.size >= RingSize
    <3>1. QueueWrites(r) = persist(r)
      BY <2>1 DEF QueueWrites
    <3>2. /\ IsWrites(persist(r))
          /\ WriteAll(D1, persist(r)) =
               [D1 EXCEPT !.total = r.total, !.nextId = r.nextId, !.synced = r.synced,
                          !.head = r.head, !.size = r.size, !.ring = r.ring]
      BY <1>8, <1>10, PersistWrites
    <3>3. IsWrites(todo') /\ Settled' = WriteAll(D1, persist(r))
      BY <3>1, <3>2, <1>2, <1>3, <1>10, WritesThen DEF D1
    <3>4. Settled' \in Disks
      BY <3>2, <3>3, <1>10, <1>12 DEF Disks
    <3>5. /\ Settled'.file = D1.file /\ Settled'.woff = D1.woff
          /\ Settled'.aoff = D1.aoff /\ Settled'.total = r.total /\ Settled'.nextId = r.nextId
          /\ Settled'.synced = r.synced /\ Settled'.ring = r.ring /\ Settled'.head = r.head
          /\ Settled'.size = r.size
      BY <3>2, <3>3, <1>10 DEF Disks
    <3>. QED  BY <3>3, <3>4, <3>5, <1>11
  <2>2. CASE ~(r.since >= PersistEvery \/ r.size >= RingSize)
    <3>1. QueueWrites(r) = persistTotals(r) /\ ram' = [r EXCEPT !.totalsDirty = FALSE, !.since = 0]
      BY <2>2, <1>3 DEF QueueWrites, AfterQueue
    <3>2. /\ IsWrites(persistTotals(r))
          /\ WriteAll(D1, persistTotals(r)) =
               [D1 EXCEPT !.total = r.total, !.nextId = r.nextId, !.synced = r.synced]
      BY <1>10, TotalsWrites
    <3>3. IsWrites(todo') /\ Settled' = WriteAll(D1, persistTotals(r))
      BY <3>1, <3>2, <1>2, <1>3, <1>10, WritesThen DEF D1
    <3>4. Settled' \in Disks
      BY <3>2, <3>3, <1>10, <1>12 DEF Disks
    <3>5. /\ Settled'.file = D1.file /\ Settled'.woff = D1.woff
          /\ Settled'.aoff = D1.aoff /\ Settled'.total = r.total /\ Settled'.nextId = r.nextId
          /\ Settled'.synced = r.synced /\ Settled'.ring = D1.ring
      BY <3>2, <3>3, <1>10 DEF Disks
    <3>6. ram'.dirty
      BY <3>1, <1>8 DEF Rams
    <3>. QED  BY <3>3, <3>4, <3>5, <3>6, <1>11
  <2>. QED  BY <2>1, <2>2
<1>15. ram.size < RingSize => Queued' = Queued \cup {NewEvent}
  <2>1. Ring(ram') = Ring(r)
    BY <1>13 DEF Ring
  <2>. QED  BY <2>1, <1>6, <1>7, <1>9 DEF Queued
<1>. QED  BY <1>1, <1>2, <1>3, <1>6, <1>8, <1>13, <1>14, <1>15 DEF g, fl

LEMMA CountType ==
    ASSUME ram \in Rams
    PROVE  /\ ram.synced \in Nat /\ ram.size \in Nat /\ ram.aoff \in Nat /\ ram.woff \in Nat
           /\ ram.total \in Nat /\ ram.nextId \in Nat
           /\ (ram.woff - ram.aoff) \div 2 \in Int /\ Count \in Int
           /\ ram.size \in 0..RingSize /\ RingSize \in Nat \ {0}
<1>1. /\ ram.synced \in Nat /\ ram.aoff \in Nat /\ ram.woff \in Nat
      /\ ram.total \in Nat /\ ram.nextId \in Nat /\ ram.size \in 0..RingSize
  BY DEF Rams
<1>2. RingSize \in Nat \ {0}
  BY BottleAssumption
<1>3. ram.size \in Nat
  BY <1>1, <1>2
<1>4. (ram.woff - ram.aoff) \div 2 \in Int
  BY <1>1
<1>5. Count \in Int
  BY <1>1, <1>3, <1>4 DEF Count
<1>. QED  BY <1>1, <1>2, <1>3, <1>4, <1>5

LEMMA AddToRingCore ==
    ASSUME Core, NEW short \in BOOLEAN, AddToRing(short)
    PROVE  Core'
<1>. DEFINE e == NewEvent
            w == Range(Pend) \cup Queued
<1>1. /\ Settled = disk /\ disk \in Disks /\ ram \in Rams
      /\ IsWrites(todo') /\ Settled' \in Disks /\ ram' \in Rams
      /\ UNCHANGED <<disk, received, stored>> /\ seen' = seen + 1
      /\ faults' = faults \cup (IF short THEN {"short"}
                                ELSE IF ram.sdOk THEN {"refused"} ELSE {})
                          \cup (IF ram.size = RingSize THEN {"overwritten"} ELSE {})
      /\ Settled'.file = (IF short THEN Append(disk.file, Halves(e)[1]) ELSE disk.file)
      /\ Settled'.woff = disk.woff /\ Settled'.aoff = disk.aoff
      /\ Settled'.total = ram'.total /\ Settled'.nextId = ram'.nextId
      /\ Settled'.synced = ram'.synced
      /\ ram'.woff = ram.woff /\ ram'.aoff = ram.aoff /\ ram'.mounted = ram.mounted
      /\ ram'.total = ram.total + 1 /\ ram'.nextId = ram.nextId + 1
      /\ ram'.synced = ram.synced
      /\ ram'.size = (IF ram.size < RingSize THEN ram.size + 1 ELSE ram.size)
      /\ \A i \in 0..(RingSize - 1) : ram'.ring[i] \in {e, ram.ring[i]}
      /\ Settled'.ring \in {disk.ring, ram'.ring}
      /\ ~ram'.dirty => /\ Settled'.head = ram'.head /\ Settled'.size = ram'.size
                        /\ Settled'.ring = ram'.ring
      /\ ram.size < RingSize => Queued' = Queued \cup {e}
  BY AddToRingEffect
<1>2. BottleType /\ Agree /\ Shape
  BY DEF Core
<1>3. /\ Pend \in Seq(Ev) /\ Range(Pend) \in SUBSET Ev /\ Queued \in SUBSET Ev
      /\ Bottles(w) \subseteq 0..seen
  BY <1>2, WaitingType
<1>4. /\ e \in Ev /\ e.id = ram.nextId /\ e.bottle = seen + 1
      /\ ram.nextId \in Nat /\ seen \in Nat /\ Halves(e)[1] \in HalfRecs
      /\ Halves(e)[1].e = e
  BY <1>2, NewEventType
<1>5. stored \in SUBSET Ev /\ Bottles(stored) \subseteq received /\ received \subseteq 0..seen
  BY <1>2 DEF BottleType
<1>6. /\ ram.synced \in Nat /\ ram.size \in Nat /\ ram.aoff \in Nat /\ ram.woff \in Nat
      /\ ram.total \in Nat /\ (ram.woff - ram.aoff) \div 2 \in Int /\ Count \in Int
      /\ ram.size \in 0..RingSize /\ RingSize \in Nat \ {0}
  BY <1>1, CountType
<1>7. faults \subseteq faults'
  BY <1>1
<1>8. "short" \notin faults' => ~short
  BY <1>1
<1>9. "overwritten" \notin faults' => ram.size < RingSize
  <2>1. "overwritten" \notin faults' => ram.size # RingSize
    BY <1>1
  <2>. QED  BY <2>1, <1>6
<1>10. Settled.file = disk.file /\ disk.file \in Files /\ Settled.nextId \in Nat
       /\ OrderedUpTo(disk.file, seen)
  BY <1>1, <1>2 DEF Disks, Shape
<1>11. ~short => Pend' = Pend
  BY <1>1 DEF Pend
<1>. HIDE DEF e, w
<1>12. BottleType'
  <2>1. \A i \in 0..(RingSize - 1) :
           /\ disk.ring[i].bottle \in Nat /\ ram.ring[i].bottle \in Nat
           /\ disk.ring[i].bottle <= seen /\ ram.ring[i].bottle <= seen
    <3>1. \A i \in 0..(RingSize - 1) : disk.ring[i] \in Ev /\ ram.ring[i] \in Ev
      BY <1>1 DEF Disks, Rams, Rings
    <3>. QED  BY <3>1, <1>1, <1>2 DEF BottleType, Ev
  <2>2. \A i \in 0..(RingSize - 1) : ram'.ring[i].bottle <= seen + 1
    BY <2>1, <1>1, <1>4
  <2>3. \A i \in 0..(RingSize - 1) : Settled'.ring[i].bottle <= seen + 1
    <3>1. CASE Settled'.ring = disk.ring
      BY <3>1, <2>1, <1>4
    <3>2. CASE Settled'.ring = ram'.ring
      BY <3>2, <2>2
    <3>. QED  BY <3>1, <3>2, <1>1
  <2>4. received \subseteq 0..(seen + 1) /\ seen + 1 \in Nat
    BY <1>5, <1>4
  <2>. QED  BY <2>2, <2>3, <2>4, <1>1, <1>2 DEF BottleType
<1>13. Agree'
  BY <1>1, <1>2, <1>4 DEF Agree
<1>14. Shape'
  <2>1. OrderedUpTo(Settled'.file, seen + 1)
    <3>1. CASE short
      BY <3>1, <1>1, <1>4, <1>10, OrderedShort
    <3>2. CASE ~short
      BY <3>2, <1>1, <1>4, <1>10, OrderedLater
    <3>. QED  BY <3>1, <3>2
  <2>2. Len(disk.file) <= Len(Settled'.file) /\ Len(disk.file) \in Nat /\ Len(Settled'.file) \in Nat
    <3>1. Len(Append(disk.file, Halves(e)[1])) = Len(disk.file) + 1 /\ Len(disk.file) \in Nat
      BY <1>10, <1>4 DEF Files
    <3>. QED  BY <3>1, <1>1
  <2>3. ram.woff <= Len(Settled'.file)
    BY <2>2, <1>2, <1>6, <1>10 DEF Shape
  <2>4. "short" \notin faults' => Whole(Settled'.file, ram.woff)
    BY <1>1, <1>2, <1>7, <1>8 DEF Shape
  <2>. QED  BY <2>1, <2>3, <2>4, <1>1, <1>2 DEF Shape
<1>15. "id" \notin faults' => Sound'
  <2>1. SUFFICES ASSUME Sound PROVE Sound'
    BY <1>7 DEF Core
  <2>2. e.id = e.bottle
    BY <2>1, <1>4 DEF Sound
  <2>3. \A i \in 0..(RingSize - 1) : ram'.ring[i].id = ram'.ring[i].bottle
    BY <2>1, <2>2, <1>1 DEF Sound
  <2>4. \A i \in 0..(RingSize - 1) : Settled'.ring[i].id = Settled'.ring[i].bottle
    BY <2>1, <2>3, <1>1 DEF Sound
  <2>5. \A a \in 1..Len(Settled'.file) : Settled'.file[a].e.id = Settled'.file[a].e.bottle
    <3>1. CASE ~short
      BY <3>1, <2>1, <1>1 DEF Sound
    <3>2. CASE short
      <4>. DEFINE g == Append(disk.file, Halves(e)[1])
      <4>1. /\ Len(g) = Len(disk.file) + 1 /\ Len(disk.file) \in Nat
            /\ \A a \in 1..Len(disk.file) : g[a] = disk.file[a]
            /\ g[Len(disk.file) + 1] = Halves(e)[1]
        BY <1>10, <1>4 DEF Files
      <4>. HIDE DEF g
      <4>2. \A a \in 1..Len(g) : a \in 1..Len(disk.file) \/ a = Len(disk.file) + 1
        BY <4>1
      <4>3. \A a \in 1..Len(disk.file) : disk.file[a].e.id = disk.file[a].e.bottle
        BY <2>1, <1>10 DEF Sound
      <4>4. \A a \in 1..Len(g) : g[a].e.id = g[a].e.bottle
        BY <4>1, <4>2, <4>3, <2>2, <1>4
      <4>5. Settled'.file = g
        BY <3>2, <1>1 DEF g
      <4>. QED  BY <4>4, <4>5
    <3>. QED  BY <3>1, <3>2
  <2>6. ram'.nextId = (seen + 1) + 1
    BY <2>1, <1>1 DEF Sound
  <2>. QED  BY <2>1, <2>3, <2>4, <2>5, <2>6, <1>1 DEF Sound
<1>16. faults' \cap {"ring", "short", "overwritten"} = {} => Kept'
  <2>1. SUFFICES ASSUME faults' \cap {"ring", "short", "overwritten"} = {} PROVE Kept'
    OBVIOUS
  <2>2. Kept /\ ~short /\ ram.size < RingSize
    BY <2>1, <1>7, <1>8, <1>9 DEF Core
  <2>3. Pend' = Pend /\ Queued' = Queued \cup {e}
    BY <2>2, <1>1, <1>11
  <2>4. Bottles(w) \cup {seen + 1} \subseteq Bottles(Range(Pend) \cup (Queued \cup {e}))
    BY <1>4 DEF Bottles, w
  <2>5. 1..seen \subseteq received \cup Bottles(w)
    BY <2>2 DEF Kept, w
  <2>6. \A i \in 1..(seen + 1) : i \in 1..seen \/ i = seen + 1
    BY <1>4
  <2>7. 1..(seen + 1) \subseteq received \cup Bottles(Range(Pend) \cup (Queued \cup {e}))
    BY <2>4, <2>5, <2>6
  <2>. QED  BY <2>3, <2>7, <1>1 DEF Kept
<1>17. faults' \subseteq {"refused", "overwritten", "short"} => CountBounded'
  <2>1. SUFFICES ASSUME faults' \subseteq {"refused", "overwritten", "short"} PROVE CountBounded'
    OBVIOUS
  <2>2. CountBounded /\ Sound
    BY <2>1, <1>7 DEF Core
  <2>3. ram.total = seen /\ ram.nextId = seen + 1 /\ Count <= seen
    BY <2>2 DEF CountBounded, Sound
  <2>4. Count' <= Count + 1
    <3>. DEFINE half == (ram.woff - ram.aoff) \div 2
    <3>1. Count = ram.synced + half + ram.size /\ Count' = ram.synced + half + ram'.size
      BY <1>1 DEF Count
    <3>2. ram'.size <= ram.size + 1 /\ ram'.size \in Int /\ half \in Int
      BY <1>1, <1>6
    <3>. HIDE DEF half
    <3>. QED  BY <3>1, <3>2, <1>6
  <2>5. Count' <= seen + 1
    <3>1. Count' \in Int
      BY <1>1, <1>6 DEF Count
    <3>. QED  BY <2>3, <2>4, <3>1, <1>4, <1>6
  <2>. QED  BY <2>3, <2>5, <1>1 DEF CountBounded
<1>18. ASSUME faults' \subseteq {"refused", "id"}
       PROVE  /\ Linked(Range(Pend) \cup Queued, stored, received)'
              /\ Filled(Pend, stored, ram.nextId, Settled.nextId)'
              /\ Stored' => Rising(Pend, stored)' /\ CountExact'
  <2>1. ~short /\ ram.size < RingSize /\ faults \subseteq {"refused", "id"}
    BY <1>18, <1>7, <1>8, <1>9
  <2>2. /\ Linked(w, stored, received)
        /\ Filled(Pend, stored, ram.nextId, Settled.nextId)
        /\ Stored => Rising(Pend, stored) /\ CountExact
    BY <2>1 DEF Core, w
  <2>3. Pend' = Pend /\ Queued' = Queued \cup {e}
    BY <2>1, <1>1, <1>11
  <2>4. (Range(Pend) \cup Queued)' = w \cup {e}
    BY <2>3 DEF w
  <2>5. Linked(w \cup {e}, stored, received)
    <3>1. \A x \in w \cup stored : x.bottle \in 0..seen
      BY <1>3, <1>5 DEF Bottles
    <3>2. \A x \in w \cup stored : x.bottle # e.bottle
      BY <3>1, <1>4
    <3>3. e.bottle \notin received
      BY <1>4, <1>5
    <3>4. w \in SUBSET Ev
      BY <1>3 DEF w
    <3>. QED  BY <3>2, <3>3, <3>4, <2>2, <1>5, LinkedAdd
  <2>6. Filled(Pend, stored, ram.nextId + 1, ram.nextId + 1)
    BY <2>2, <1>3, <1>4, <1>10, FilledRing
  <2>7. Stored' = Stored /\ Rising(Pend, stored)' = Rising(Pend, stored)
    BY <2>3, <1>1 DEF Stored
  <2>8. CountExact => CountExact'
    <3>1. SUFFICES ASSUME CountExact PROVE CountExact'
      OBVIOUS
    <3>. DEFINE half == (ram.woff - ram.aoff) \div 2
    <3>2. Count = ram.synced + half + ram.size /\ Count' = ram.synced + half + ram'.size
      BY <1>1 DEF Count
    <3>3. ram'.size = ram.size + 1 /\ half \in Int
      BY <2>1, <1>1, <1>6
    <3>. HIDE DEF half
    <3>4. Count' = Count + 1
      BY <3>2, <3>3, <1>6
    <3>5. /\ Count = seen /\ ram.total <= seen /\ (ram.mounted => ram.total = seen)
      BY <3>1 DEF CountExact
    <3>6. ram'.total <= seen + 1 /\ Settled'.total <= seen + 1
      BY <3>5, <1>1, <1>4, <1>6
    <3>. QED  BY <3>4, <3>5, <3>6, <1>1 DEF CountExact
  <2>9. Filled(Pend, stored, ram.nextId, Settled.nextId)'
    BY <2>6, <2>3, <1>1
  <2>10. Linked(Range(Pend) \cup Queued, stored, received)'
    BY <2>4, <2>5, <1>1
  <2>. QED  BY <2>2, <2>7, <2>8, <2>9, <2>10
<1>. QED  BY <1>12, <1>13, <1>14, <1>15, <1>16, <1>17, <1>18 DEF Core

-----------------------------------------------------------------------------
(* A bottle whose event the card accepts.                                   *)

LEMMA AddToJournalEffect ==
    ASSUME Core, AddToJournal
    PROVE  /\ Settled = disk /\ disk \in Disks /\ ram \in Rams
           /\ IsWrites(todo') /\ Settled' \in Disks /\ ram' \in Rams
           /\ UNCHANGED <<disk, received, stored, faults>> /\ seen' = seen + 1
           /\ Settled'.file = disk.file \o Halves(NewEvent)
           /\ Settled'.woff = ram.woff + 2 /\ Settled'.aoff = ram.aoff
           /\ Settled'.head = disk.head /\ Settled'.size = disk.size /\ Settled'.ring = disk.ring
           /\ \/ Settled'.total = disk.total /\ Settled'.nextId = disk.nextId
                 /\ Settled'.synced = disk.synced
              \/ Settled'.total = ram.total + 1 /\ Settled'.nextId = ram.nextId + 1
                 /\ Settled'.synced = ram.synced
           /\ ram'.woff = ram.woff + 2 /\ ram'.aoff = ram.aoff /\ ram'.mounted = ram.mounted
           /\ ram'.total = ram.total + 1 /\ ram'.nextId = ram.nextId + 1
           /\ ram'.synced = ram.synced /\ ram'.dirty = ram.dirty
           /\ ram'.head = ram.head /\ ram'.size = ram.size /\ ram'.ring = ram.ring
<1>. DEFINE e == NewEvent
            r == [ram EXCEPT !.total = @ + 1, !.nextId = @ + 1, !.since = @ + 1,
                             !.woff = @ + RECORD_SIZE, !.totalsDirty = TRUE]
            due == r.since >= PersistEvery
            g == disk.file \o Halves(e)
            x == [file |-> g]
            T == IF due THEN persistTotals(r) ELSE <<>>
            D1 == Write(disk, x)
            D2 == WriteAll(D1, saveMeta(r))
<1>1. BottleType /\ Idle /\ UNCHANGED <<disk, received, stored, faults>> /\ seen' = seen + 1
  BY DEF Core, AddToJournal
<1>2. Settled = disk /\ disk \in Disks /\ ram \in Rams /\ Settled' = WriteAll(disk, todo')
  BY <1>1, AtRest DEF BottleType, Settled
<1>3. /\ ram' = IF due THEN [r EXCEPT !.since = 0, !.totalsDirty = FALSE] ELSE r
      /\ todo' = (<<x>> \o saveMeta(r)) \o T
  BY DEF AddToJournal, NewEvent
<1>4. e \in Ev
  BY <1>1, NewEventType
<1>5. ram.total \in Nat /\ ram.nextId \in Nat /\ ram.since \in Nat /\ ram.woff \in Nat
      /\ ram.aoff \in Nat /\ disk.file \in Files
  BY <1>2 DEF Rams, Disks
<1>6. /\ r \in Rams /\ r.woff = ram.woff + 2 /\ r.aoff = ram.aoff /\ r.mounted = ram.mounted
      /\ r.total = ram.total + 1 /\ r.nextId = ram.nextId + 1 /\ r.synced = ram.synced
      /\ r.head = ram.head /\ r.size = ram.size /\ r.ring = ram.ring /\ r.dirty = ram.dirty
  <2>1. ram.total + 1 \in Nat /\ ram.nextId + 1 \in Nat /\ ram.since + 1 \in Nat
        /\ ram.woff + RECORD_SIZE \in Nat /\ RECORD_SIZE = 2
    BY <1>5 DEF RECORD_SIZE
  <2>2. r \in Rams
    BY <2>1, <1>2 DEF Rams
  <2>. QED  BY <2>1, <2>2, <1>2 DEF Rams
<1>. HIDE DEF r, e
<1>7. /\ ram' \in Rams /\ ram'.woff = r.woff /\ ram'.aoff = r.aoff /\ ram'.mounted = r.mounted
      /\ ram'.total = r.total /\ ram'.nextId = r.nextId /\ ram'.synced = r.synced
      /\ ram'.size = r.size /\ ram'.head = r.head /\ ram'.ring = r.ring /\ ram'.dirty = r.dirty
  BY <1>3, <1>6 DEF Rams
<1>8. g \in Files
  BY <1>4, <1>5, HalvesFacts
<1>. HIDE DEF g
<1>9. IsWrites(<<x>>) /\ WriteAll(disk, <<x>>) = D1 /\ D1 = [disk EXCEPT !.file = g]
      /\ D1 \in Disks
  <2>1. IsWrites(<<x>>) /\ WriteAll(disk, <<x>>) = D1
    BY WritesOne
  <2>2. D1 = [disk EXCEPT !.file = g]
    <3>1. Plain(disk)
      BY <1>2, PlainDisk
    <3>2. \A v : Write(disk, [file |-> v]) = [disk EXCEPT !.file = v]
      BY <3>1, WritePlain
    <3>. QED  BY <3>2
  <2>3. [disk EXCEPT !.file = g] \in Disks
    BY <1>2, <1>8 DEF Disks
  <2>. QED  BY <2>1, <2>2, <2>3
<1>. HIDE DEF x, D1
<1>10. IsWrites(saveMeta(r)) /\ D2 = [D1 EXCEPT !.woff = r.woff, !.aoff = r.aoff]
  BY <1>9, MetaWrites
<1>. HIDE DEF D2
<1>11. IsWrites(<<x>> \o saveMeta(r)) /\ WriteAll(disk, <<x>> \o saveMeta(r)) = D2
  <2>1. /\ IsWrites(<<x>> \o saveMeta(r))
        /\ WriteAll(disk, <<x>> \o saveMeta(r)) = WriteAll(WriteAll(disk, <<x>>), saveMeta(r))
    BY <1>9, <1>10, WritesThen
  <2>. QED  BY <2>1, <1>9 DEF D2
<1>12. r.woff \in Nat /\ r.aoff \in Nat /\ r.total \in Nat /\ r.nextId \in Nat /\ r.synced \in Nat
  BY <1>6 DEF Rams
<1>13. /\ D2 \in Disks /\ D2.file = g /\ D2.woff = r.woff /\ D2.aoff = r.aoff
       /\ D2.head = disk.head /\ D2.size = disk.size /\ D2.ring = disk.ring
       /\ D2.total = disk.total /\ D2.nextId = disk.nextId /\ D2.synced = disk.synced
  <2>1. /\ D1.file = g /\ D1.head = disk.head /\ D1.size = disk.size /\ D1.ring = disk.ring
        /\ D1.total = disk.total /\ D1.nextId = disk.nextId /\ D1.synced = disk.synced
    BY <1>9, <1>2 DEF Disks
  <2>2. D2 \in Disks
    BY <1>9, <1>10, <1>12 DEF Disks
  <2>3. /\ D2.file = D1.file /\ D2.woff = r.woff /\ D2.aoff = r.aoff
        /\ D2.head = D1.head /\ D2.size = D1.size /\ D2.ring = D1.ring
        /\ D2.total = D1.total /\ D2.nextId = D1.nextId /\ D2.synced = D1.synced
    BY <1>9, <1>10 DEF Disks
  <2>. QED  BY <2>1, <2>2, <2>3
<1>14. CASE due
  <2>1. T = persistTotals(r)
    BY <1>14
  <2>2. /\ IsWrites(T)
        /\ WriteAll(D2, T) = [D2 EXCEPT !.total = r.total, !.nextId = r.nextId, !.synced = r.synced]
    <3>1. /\ IsWrites(persistTotals(r))
          /\ WriteAll(D2, persistTotals(r)) =
                [D2 EXCEPT !.total = r.total, !.nextId = r.nextId, !.synced = r.synced]
      BY <1>13, TotalsWrites
    <3>. QED  BY <2>1, <3>1
  <2>. HIDE DEF T
  <2>3. IsWrites(todo') /\ Settled' = WriteAll(D2, T)
    BY <2>2, <1>2, <1>3, <1>11, WritesThen
  <2>4. Settled' \in Disks
    BY <2>2, <2>3, <1>12, <1>13 DEF Disks
  <2>5. /\ Settled'.file = D2.file /\ Settled'.woff = D2.woff /\ Settled'.aoff = D2.aoff
        /\ Settled'.head = D2.head /\ Settled'.size = D2.size /\ Settled'.ring = D2.ring
        /\ Settled'.total = r.total /\ Settled'.nextId = r.nextId /\ Settled'.synced = r.synced
    BY <2>2, <2>3, <1>13 DEF Disks
  <2>. QED  BY <2>3, <2>4, <2>5, <1>1, <1>2, <1>6, <1>7, <1>13 DEF g, e
<1>15. CASE ~due
  <2>1. T = <<>>
    BY <1>15
  <2>2. IsWrites(T) /\ WriteAll(D2, T) = D2
    BY <2>1, <1>13, WritesNone
  <2>. HIDE DEF T
  <2>3. IsWrites(todo') /\ Settled' = D2
    BY <2>2, <1>2, <1>3, <1>11, WritesThen
  <2>. QED  BY <2>3, <1>1, <1>2, <1>6, <1>7, <1>13 DEF g, e
<1>. QED  BY <1>14, <1>15

LEMMA AddToJournalCore ==
    ASSUME Core, AddToJournal
    PROVE  Core'
<1>. DEFINE e == NewEvent
            w == Range(Pend) \cup Queued
            f2 == disk.file \o Halves(e)
<1>1. /\ Settled = disk /\ disk \in Disks /\ ram \in Rams
      /\ IsWrites(todo') /\ Settled' \in Disks /\ ram' \in Rams
      /\ UNCHANGED <<disk, received, stored, faults>> /\ seen' = seen + 1
      /\ Settled'.file = f2
      /\ Settled'.woff = ram.woff + 2 /\ Settled'.aoff = ram.aoff
      /\ Settled'.head = disk.head /\ Settled'.size = disk.size /\ Settled'.ring = disk.ring
      /\ \/ Settled'.total = disk.total /\ Settled'.nextId = disk.nextId
            /\ Settled'.synced = disk.synced
         \/ Settled'.total = ram.total + 1 /\ Settled'.nextId = ram.nextId + 1
            /\ Settled'.synced = ram.synced
      /\ ram'.woff = ram.woff + 2 /\ ram'.aoff = ram.aoff /\ ram'.mounted = ram.mounted
      /\ ram'.total = ram.total + 1 /\ ram'.nextId = ram.nextId + 1
      /\ ram'.synced = ram.synced /\ ram'.dirty = ram.dirty
      /\ ram'.head = ram.head /\ ram'.size = ram.size /\ ram'.ring = ram.ring
  BY AddToJournalEffect
<1>2. BottleType /\ Agree /\ Shape
  BY DEF Core
<1>3. /\ Pend \in Seq(Ev) /\ Range(Pend) \in SUBSET Ev /\ Queued \in SUBSET Ev
      /\ Bottles(w) \subseteq 0..seen
  BY <1>2, WaitingType
<1>4. /\ e \in Ev /\ e.id = ram.nextId /\ e.bottle = seen + 1
      /\ ram.nextId \in Nat /\ seen \in Nat
  BY <1>2, NewEventType
<1>5. stored \in SUBSET Ev /\ Bottles(stored) \subseteq received /\ received \subseteq 0..seen
  BY <1>2 DEF BottleType
<1>6. /\ ram.synced \in Nat /\ ram.size \in Nat /\ ram.aoff \in Nat /\ ram.woff \in Nat
      /\ ram.total \in Nat /\ (ram.woff - ram.aoff) \div 2 \in Int /\ Count \in Int
  BY <1>1, CountType
<1>7. /\ disk.file \in Files /\ disk.nextId \in Nat /\ disk.total \in Nat
      /\ OrderedUpTo(disk.file, seen) /\ ram.woff <= Len(disk.file)
      /\ ram.aoff % 2 = 0 /\ ram.woff % 2 = 0 /\ ram.aoff <= ram.woff
      /\ "short" \notin faults => Whole(disk.file, ram.woff)
  BY <1>1, <1>2 DEF Disks, Shape
<1>8. Queued' = Queued
  BY <1>1 DEF Queued, Ring
<1>9. "short" \notin faults => Pend' = Append(Pend, e)
  <2>1. SUFFICES ASSUME "short" \notin faults PROVE Pend' = Append(Pend, e)
    OBVIOUS
  <2>2. Events(f2, ram.aoff, ram.woff + 2) = Append(Events(disk.file, ram.aoff, ram.woff), e)
    BY <2>1, <1>4, <1>6, <1>7, EventsAppend
  <2>. QED  BY <2>2, <1>1 DEF Pend
<1>10. /\ f2 \in Files /\ Len(f2) = Len(disk.file) + 2 /\ Len(disk.file) \in Nat
       /\ \A i \in 1..Len(disk.file) : f2[i] = disk.file[i]
       /\ f2[Len(disk.file) + 1] = [e |-> e, half |-> 1]
       /\ f2[Len(disk.file) + 2] = [e |-> e, half |-> 2]
  <2>1. Len(disk.file) \in Nat
    BY <1>7 DEF Files
  <2>. QED  BY <2>1, <1>4, <1>7, HalvesFacts
<1>11. OrderedUpTo(f2, seen + 1)
  BY <1>4, <1>7, OrderedAdd
<1>12. "short" \notin faults => Whole(f2, ram.woff + 2)
  BY <1>4, <1>6, <1>7, WholeAppend
<1>13. "short" \notin faults => Range(Append(Pend, e)) = Range(Pend) \cup {e}
  BY <1>3, <1>4, AppendRange
<1>. HIDE DEF e, w, f2
<1>14. BottleType'
  <2>1. \A i \in 0..(RingSize - 1) :
           /\ disk.ring[i].bottle \in Nat /\ ram.ring[i].bottle \in Nat
           /\ disk.ring[i].bottle <= seen /\ ram.ring[i].bottle <= seen
    <3>1. \A i \in 0..(RingSize - 1) : disk.ring[i] \in Ev /\ ram.ring[i] \in Ev
      BY <1>1 DEF Disks, Rams, Rings
    <3>. QED  BY <3>1, <1>1, <1>2 DEF BottleType, Ev
  <2>2. \A i \in 0..(RingSize - 1) : disk.ring[i].bottle <= seen + 1 /\ ram.ring[i].bottle <= seen + 1
    BY <2>1, <1>4
  <2>3. received \subseteq 0..(seen + 1) /\ seen + 1 \in Nat
    BY <1>5, <1>4
  <2>. QED  BY <2>2, <2>3, <1>1, <1>2 DEF BottleType
<1>15. Agree'
  BY <1>1, <1>2, <1>4, <1>7 DEF Agree
<1>16. Shape'
  <2>1. (ram.woff + 2) % 2 = 0 /\ ram.aoff <= ram.woff + 2
    BY <1>6, <1>7
  <2>2. ram.woff + 2 <= Len(f2)
    <3>1. ram.woff \in Nat /\ Len(disk.file) \in Nat /\ Len(f2) = Len(disk.file) + 2
          /\ ram.woff <= Len(disk.file)
      BY <1>6, <1>7, <1>10
    <3>. QED  BY <3>1
  <2>. QED  BY <2>1, <2>2, <1>1, <1>2, <1>7, <1>11, <1>12 DEF Shape
<1>17. Sound => Sound'
  <2>1. SUFFICES ASSUME Sound PROVE Sound'
    OBVIOUS
  <2>2. e.id = e.bottle
    BY <2>1, <1>4 DEF Sound
  <2>3. \A a \in 1..Len(f2) : f2[a].e.id = f2[a].e.bottle
    <3>1. \A a \in 1..Len(f2) : a \in 1..Len(disk.file) \/ a = Len(disk.file) + 1 \/ a = Len(disk.file) + 2
      BY <1>10
    <3>2. \A a \in 1..Len(disk.file) : disk.file[a].e.id = disk.file[a].e.bottle
      BY <2>1, <1>1 DEF Sound
    <3>. QED  BY <3>1, <3>2, <2>2, <1>10
  <2>4. ram'.nextId = (seen + 1) + 1
    BY <2>1, <1>1 DEF Sound
  <2>. QED  BY <2>1, <2>3, <2>4, <1>1 DEF Sound
<1>18. "short" \notin faults /\ Kept => Kept'
  <2>1. SUFFICES ASSUME "short" \notin faults, Kept PROVE Kept'
    OBVIOUS
  <2>2. (Range(Pend) \cup Queued)' = w \cup {e}
    BY <2>1, <1>8, <1>9, <1>13 DEF w
  <2>3. Bottles(w) \cup {seen + 1} \subseteq Bottles(w \cup {e})
    BY <1>4 DEF Bottles
  <2>4. 1..seen \subseteq received \cup Bottles(w)
    BY <2>1 DEF Kept, w
  <2>5. \A i \in 1..(seen + 1) : i \in 1..seen \/ i = seen + 1
    BY <1>4
  <2>6. 1..(seen + 1) \subseteq received \cup Bottles(w \cup {e})
    BY <2>3, <2>4, <2>5
  <2>. QED  BY <2>2, <2>6, <1>1 DEF Kept
<1>19. Count' = Count + 1
  <2>. DEFINE half == (ram.woff - ram.aoff) \div 2
              half2 == ((ram.woff + 2) - ram.aoff) \div 2
  <2>1. half \in Int /\ half2 = half + 1
    BY <1>6, <1>7
  <2>2. Count = ram.synced + half + ram.size /\ Count' = ram.synced + half2 + ram.size
    BY <1>1 DEF Count
  <2>3. half2 \in Int /\ ram.synced \in Int /\ ram.size \in Int
    BY <2>1, <1>6
  <2>. HIDE DEF half, half2
  <2>4. (ram.synced + half2) + ram.size = ((ram.synced + half) + ram.size) + 1
    BY <2>1, <2>3
  <2>. QED  BY <2>2, <2>4
<1>20. Sound /\ CountBounded => CountBounded'
  <2>1. SUFFICES ASSUME Sound, CountBounded PROVE CountBounded'
    OBVIOUS
  <2>2. ram.total = seen /\ ram.nextId = seen + 1 /\ Count <= seen /\ disk.total + 1 = disk.nextId
    BY <2>1, <1>1 DEF Sound, CountBounded
  <2>3. Count' <= seen + 1
    BY <2>2, <1>4, <1>6, <1>19
  <2>. QED  BY <2>2, <2>3, <1>1 DEF CountBounded
<1>21. CountExact => CountExact'
  <2>1. SUFFICES ASSUME CountExact PROVE CountExact'
    OBVIOUS
  <2>2. Count = seen /\ ram.total <= seen /\ disk.total <= seen /\ (ram.mounted => ram.total = seen)
    BY <2>1, <1>1 DEF CountExact
  <2>3. ram.total + 1 <= seen + 1 /\ disk.total <= seen + 1
    BY <2>2, <1>4, <1>6, <1>7
  <2>4. ram'.total <= seen + 1
    BY <2>3, <1>1
  <2>5. Settled'.total <= seen + 1
    BY <2>3, <1>1
  <2>. QED  BY <2>2, <2>4, <2>5, <1>1, <1>19 DEF CountExact
<1>22. ASSUME faults \subseteq {"refused", "id"}
       PROVE  /\ Linked(Range(Pend) \cup Queued, stored, received)'
              /\ Filled(Pend, stored, ram.nextId, Settled.nextId)'
              /\ Stored' => Rising(Pend, stored)' /\ CountExact'
  <2>1. /\ Linked(w, stored, received)
        /\ Filled(Pend, stored, ram.nextId, Settled.nextId)
        /\ Stored => Rising(Pend, stored) /\ CountExact
    BY <1>22 DEF Core, w
  <2>2. Pend' = Append(Pend, e) /\ (Range(Pend) \cup Queued)' = w \cup {e}
    BY <1>22, <1>8, <1>9, <1>13 DEF w
  <2>3. \A x \in w \cup stored : x.bottle # e.bottle
    <3>1. \A x \in w \cup stored : x.bottle \in 0..seen
      BY <1>3, <1>5 DEF Bottles, w
    <3>. QED  BY <3>1, <1>4
  <2>4. Linked(w \cup {e}, stored, received)
    <3>3. e.bottle \notin received
      BY <1>4, <1>5
    <3>4. w \in SUBSET Ev
      BY <1>3 DEF w
    <3>. QED  BY <2>3, <3>3, <3>4, <2>1, <1>5, LinkedAdd
  <2>5. Filled(Append(Pend, e), stored, ram.nextId + 1, Settled'.nextId)
    <3>1. Settled'.nextId \in {Settled.nextId, ram.nextId + 1} /\ Settled.nextId \in Nat
      BY <1>1, <1>7
    <3>. QED  BY <3>1, <2>1, <1>3, <1>4, FilledAdd
  <2>6. Rising(Pend, stored) => Rising(Append(Pend, e), stored)
    <3>1. \A s \in stored : s.bottle # e.bottle
      BY <2>3
    <3>. QED  BY <3>1, <2>1, <1>3, <1>4, <1>5, RisingAdd
  <2>7. Stored' = Stored
    BY <1>1 DEF Stored
  <2>8. Linked(Range(Pend) \cup Queued, stored, received)'
    BY <2>2, <2>4, <1>1
  <2>9. Filled(Pend, stored, ram.nextId, Settled.nextId)'
    BY <2>2, <2>5, <1>1
  <2>10. Rising(Pend, stored) => Rising(Pend, stored)'
    BY <2>2, <2>6, <1>1
  <2>. QED  BY <2>1, <2>7, <2>8, <2>9, <2>10, <1>21
<1>23. "id" \notin faults => Sound
  BY DEF Core
<1>24. faults \subseteq {"refused", "overwritten", "short"} => CountBounded /\ Sound
  BY <1>23 DEF Core
<1>25. faults \cap {"ring", "short", "overwritten"} = {} => Kept
  BY DEF Core
<1>26. faults' = faults
  BY <1>1
<1>27. faults \cap {"ring", "short", "overwritten"} = {} => Kept'
  BY <1>18, <1>25
<1>. QED  BY <1>14, <1>15, <1>16, <1>17, <1>20, <1>22, <1>23, <1>24, <1>26, <1>27 DEF Core

-----------------------------------------------------------------------------
(* A reset between two handlers.                                            *)

LEMMA UnreadWhole ==
    ASSUME NEW r \in Rams, NEW f \in Files, r.aoff <= r.woff
    PROVE  /\ Unread(r, f) \in Nat /\ Unread(r, f) <= (r.woff - r.aoff) \div 2
           /\ (r.woff - r.aoff) \div 2 \in Nat
           /\ r.mounted /\ r.aoff % 2 = 0 /\ r.woff % 2 = 0 /\ Whole(f, r.woff)
                 => Unread(r, f) = (r.woff - r.aoff) \div 2
<1>. DEFINE half == (r.woff - r.aoff) \div 2
            n == Len(Slots(f, r.aoff, r.woff))
<1>1. r.woff \in Nat /\ r.aoff \in Nat
  BY DEF Rams
<1>2. half \in Nat /\ 2 * half <= r.woff - r.aoff
  BY <1>1
<1>3. n \in Nat /\ 2 * n <= r.woff - r.aoff
  BY <1>1, SlotsFacts DEF Files
<1>4. n <= half
  BY <1>1, <1>3
<1>5. ASSUME r.aoff % 2 = 0, r.woff % 2 = 0, Whole(f, r.woff)
      PROVE  n = half
  BY <1>1, <1>5, EventsWhole
<1>. HIDE DEF n
<1>6. CASE canRead(r)
  <2>1. Unread(r, f) = n
    BY <1>6 DEF Unread, n
  <2>. HIDE DEF half
  <2>2. /\ Unread(r, f) \in Nat /\ Unread(r, f) <= half /\ half \in Nat
        /\ r.mounted /\ r.aoff % 2 = 0 /\ r.woff % 2 = 0 /\ Whole(f, r.woff)
              => Unread(r, f) = half
    BY <2>1, <1>2, <1>3, <1>4, <1>5
  <2>. QED  BY <2>2 DEF half
<1>7. CASE ~canRead(r)
  <2>1. Unread(r, f) = 0
    BY <1>7 DEF Unread
  <2>2. r.mounted => half = 0
    BY <1>1, <1>7 DEF canRead
  <2>. HIDE DEF half
  <2>3. /\ Unread(r, f) \in Nat /\ Unread(r, f) <= half /\ half \in Nat
        /\ r.mounted /\ r.aoff % 2 = 0 /\ r.woff % 2 = 0 /\ Whole(f, r.woff)
              => Unread(r, f) = half
    BY <2>1, <2>2, <1>2
  <2>. QED  BY <2>3 DEF half
<1>. QED  BY <1>6, <1>7

LEMMA ResetEffect ==
    ASSUME Core, NEW card \in BOOLEAN, Reset(card), todo = <<>>
    PROVE  /\ Settled = disk /\ disk \in Disks /\ ram \in Rams
           /\ IsWrites(todo') /\ Settled' \in Disks /\ ram' \in Rams
           /\ UNCHANGED <<disk, seen, received, stored>>
           /\ faults \subseteq faults'
           /\ "ring" \notin faults' => ~ram.dirty
           /\ "id" \notin faults' => ram.nextId = disk.nextId
           /\ Settled'.file = disk.file /\ Settled'.woff = disk.woff
           /\ Settled'.aoff = disk.aoff /\ Settled'.synced = disk.synced
           /\ Settled'.head = disk.head /\ Settled'.size = disk.size
           /\ Settled'.ring = disk.ring /\ Settled'.nextId = disk.nextId
           /\ Settled'.total = ram'.total
           /\ ram'.woff = disk.woff /\ ram'.aoff = disk.aoff /\ ram'.synced = disk.synced
           /\ ram'.nextId = disk.nextId /\ ram'.head = disk.head
           /\ ram'.size = disk.size /\ ram'.ring = disk.ring
           /\ ram'.total \in Nat /\ disk.total \in Nat /\ disk.size \in Nat
           /\ ram'.total >= disk.total
           /\ \E u \in Nat :
                 /\ u <= (disk.woff - disk.aoff) \div 2
                 /\ ram'.mounted /\ "short" \notin faults => u = (disk.woff - disk.aoff) \div 2
                 /\ ram'.total >= (disk.synced + u) + disk.size
                 /\ ram'.total \in {disk.total, (disk.synced + u) + disk.size}
<1>. DEFINE m0 == [woff |-> disk.woff, aoff |-> disk.aoff]
            m == IF card THEN Resynced(disk) ELSE [woff |-> disk.woff, aoff |-> disk.aoff]
            l == Loaded(disk, m0, card)
            R == Reconciled(l, disk.file)
            ws == ReconcileWrites(l, disk.file)
            u == Unread(l, disk.file)
<1>1. /\ BottleType /\ Idle /\ UNCHANGED <<disk, seen, received, stored>> /\ Shape /\ Agree
      /\ faults' = faults \cup Undone
  BY DEF Core, Reset, Idle
<1>2. Settled = disk /\ disk \in Disks /\ ram \in Rams /\ Settled' = WriteAll(disk, todo')
  BY <1>1, AtRest DEF BottleType, Settled
<1>3. disk.woff \in Nat /\ disk.aoff \in Nat /\ disk.file \in Files /\ Len(disk.file) \in Nat
      /\ disk.total \in Nat /\ disk.nextId \in Nat /\ disk.synced \in Nat
      /\ disk.head \in 0..(RingSize - 1) /\ disk.size \in 0..RingSize /\ disk.ring \in Rings
  <2>1. disk.file \in Files
    BY <1>2 DEF Disks
  <2>2. Len(disk.file) \in Nat
    BY <2>1 DEF Files
  <2>. QED  BY <2>1, <2>2, <1>2 DEF Disks
<1>4. /\ disk.woff <= Len(disk.file) /\ disk.aoff <= disk.woff
      /\ disk.aoff % 2 = 0 /\ disk.woff % 2 = 0
      /\ disk.aoff > 0 => disk.synced > 0
      /\ "short" \notin faults => Whole(disk.file, disk.woff)
  BY <1>1, <1>2 DEF Shape, Agree
<1>5. m = m0
  <2>1. ~(disk.woff > Len(disk.file))
    BY <1>3, <1>4
  <2>. QED  BY <2>1 DEF Resynced
<1>6. ram' = R /\ todo' = <<>> \o ws
  <2>1. /\ ram' = Reconciled(Loaded(disk, m, card), disk.file)
        /\ todo' = (IF m.woff # disk.woff THEN saveMeta(m) ELSE <<>>)
                      \o ReconcileWrites(Loaded(disk, m, card), disk.file)
    BY DEF Reset
  <2>. HIDE DEF m
  <2>2. m.woff = disk.woff
    BY <1>5
  <2>. QED  BY <2>1, <2>2, <1>5
<1>7. /\ l \in Rams /\ l.woff = disk.woff /\ l.aoff = disk.aoff /\ l.mounted = card
      /\ l.total = disk.total /\ l.nextId = disk.nextId /\ l.synced = disk.synced
      /\ l.head = disk.head /\ l.size = disk.size /\ l.ring = disk.ring
  <2>1. l = [woff |-> disk.woff, aoff |-> disk.aoff, sdOk |-> card, mounted |-> card,
             total |-> disk.total,
             nextId |-> disk.nextId, synced |-> disk.synced, head |-> disk.head,
             size |-> disk.size, ring |-> disk.ring,
             dirty |-> FALSE, totalsDirty |-> FALSE, since |-> 0]
    BY DEF Loaded
  <2>. HIDE DEF l
  <2>2. l \in Rams
    BY <2>1, <1>3 DEF Rams
  <2>. QED  BY <2>1, <2>2
<1>. HIDE DEF l, m, m0
<1>8. l.aoff > 0 => l.synced > 0
  BY <1>4, <1>7
<1>9. /\ R \in Rams /\ u \in Nat
      /\ R.total >= l.total /\ R.total >= (l.synced + u) + l.size
      /\ R.total \in {l.total, (l.synced + u) + l.size}
      /\ R.woff = l.woff /\ R.aoff = l.aoff /\ R.mounted = l.mounted
      /\ R.nextId = l.nextId /\ R.synced = l.synced /\ R.head = l.head
      /\ R.size = l.size /\ R.ring = l.ring
  BY <1>3, <1>7, <1>8, ReconciledFacts
<1>10. /\ IsWrites(ws)
       /\ \/ R.total = l.total /\ WriteAll(disk, ws) = disk
          \/ WriteAll(disk, ws) =
                [disk EXCEPT !.total = R.total, !.nextId = l.nextId, !.synced = l.synced]
  BY <1>2, <1>3, <1>7, <1>8, ReconcileWritten
<1>11. /\ u <= (l.woff - l.aoff) \div 2
       /\ l.mounted /\ "short" \notin faults => u = (l.woff - l.aoff) \div 2
  <2>1. l.aoff <= l.woff /\ l.aoff % 2 = 0 /\ l.woff % 2 = 0
        /\ ("short" \notin faults => Whole(disk.file, l.woff))
    BY <1>4, <1>7
  <2>. QED  BY <2>1, <1>3, <1>7, UnreadWhole
<1>. HIDE DEF R, ws, u
<1>12. R.total \in Nat
  BY <1>9 DEF Rams
<1>13. IsWrites(todo') /\ Settled' = WriteAll(disk, ws)
  <2>1. IsWrites(<<>>) /\ WriteAll(disk, <<>>) = disk
    BY <1>2, WritesNone
  <2>. QED  BY <2>1, <1>2, <1>6, <1>10, WritesThen
<1>14. /\ Settled' \in Disks
       /\ Settled'.file = disk.file /\ Settled'.woff = disk.woff
       /\ Settled'.aoff = disk.aoff /\ Settled'.synced = disk.synced
       /\ Settled'.head = disk.head /\ Settled'.size = disk.size
       /\ Settled'.ring = disk.ring /\ Settled'.nextId = disk.nextId
       /\ Settled'.total = R.total
  <2>1. CASE R.total = l.total /\ WriteAll(disk, ws) = disk
    BY <2>1, <1>2, <1>7, <1>13
  <2>2. CASE WriteAll(disk, ws) = [disk EXCEPT !.total = R.total, !.nextId = l.nextId, !.synced = l.synced]
    <3>1. Settled' = [disk EXCEPT !.total = R.total, !.nextId = disk.nextId, !.synced = disk.synced]
      BY <2>2, <1>7, <1>13
    <3>2. Settled' \in Disks
      BY <3>1, <1>2, <1>3, <1>12 DEF Disks
    <3>. QED  BY <3>1, <3>2, <1>2 DEF Disks
  <2>. QED  BY <1>10, <2>1, <2>2
<1>15. /\ faults \subseteq faults'
       /\ "ring" \notin faults' => ~ram.dirty
       /\ "id" \notin faults' => ram.nextId = disk.nextId
  BY <1>1 DEF Undone
<1>16. disk.size \in Nat
  <2>1. RingSize \in Nat
    BY BottleAssumption
  <2>. QED  BY <2>1, <1>3
<1>17. /\ u \in Nat /\ u <= (disk.woff - disk.aoff) \div 2
       /\ ram'.mounted /\ "short" \notin faults => u = (disk.woff - disk.aoff) \div 2
       /\ ram'.total >= (disk.synced + u) + disk.size
       /\ ram'.total \in {disk.total, (disk.synced + u) + disk.size}
  BY <1>6, <1>7, <1>9, <1>11
<1>18. \E v \in Nat :
          /\ v <= (disk.woff - disk.aoff) \div 2
          /\ ram'.mounted /\ "short" \notin faults => v = (disk.woff - disk.aoff) \div 2
          /\ ram'.total >= (disk.synced + v) + disk.size
          /\ ram'.total \in {disk.total, (disk.synced + v) + disk.size}
  BY <1>17
<1>. QED  BY <1>1, <1>2, <1>3, <1>6, <1>7, <1>9, <1>12, <1>13, <1>14, <1>15, <1>16, <1>18

LEMMA ResetCore ==
    ASSUME Core, NEW card \in BOOLEAN, Reset(card), todo = <<>>
    PROVE  Core'
<1>. DEFINE half == (disk.woff - disk.aoff) \div 2
<1>1. /\ Settled = disk /\ disk \in Disks /\ ram \in Rams
      /\ IsWrites(todo') /\ Settled' \in Disks /\ ram' \in Rams
      /\ UNCHANGED <<disk, seen, received, stored>>
      /\ faults \subseteq faults'
      /\ "ring" \notin faults' => ~ram.dirty
      /\ "id" \notin faults' => ram.nextId = disk.nextId
      /\ Settled'.file = disk.file /\ Settled'.woff = disk.woff
      /\ Settled'.aoff = disk.aoff /\ Settled'.synced = disk.synced
      /\ Settled'.head = disk.head /\ Settled'.size = disk.size
      /\ Settled'.ring = disk.ring /\ Settled'.nextId = disk.nextId
      /\ Settled'.total = ram'.total
      /\ ram'.woff = disk.woff /\ ram'.aoff = disk.aoff /\ ram'.synced = disk.synced
      /\ ram'.nextId = disk.nextId /\ ram'.head = disk.head
      /\ ram'.size = disk.size /\ ram'.ring = disk.ring
      /\ ram'.total \in Nat /\ disk.total \in Nat /\ disk.size \in Nat
      /\ ram'.total >= disk.total
      /\ \E u \in Nat :
            /\ u <= half
            /\ ram'.mounted /\ "short" \notin faults => u = half
            /\ ram'.total >= (disk.synced + u) + disk.size
            /\ ram'.total \in {disk.total, (disk.synced + u) + disk.size}
  BY ResetEffect
<1>2. BottleType /\ Agree /\ Shape
  BY DEF Core
<1>3. /\ disk.woff = ram.woff /\ disk.aoff = ram.aoff /\ disk.synced = ram.synced
      /\ disk.nextId <= ram.nextId
      /\ ~ram.dirty => disk.head = ram.head /\ disk.size = ram.size /\ disk.ring = ram.ring
  BY <1>1, <1>2 DEF Agree
<1>4. PICK u \in Nat :
            /\ u <= half
            /\ ram'.mounted /\ "short" \notin faults => u = half
            /\ ram'.total >= (disk.synced + u) + disk.size
            /\ ram'.total \in {disk.total, (disk.synced + u) + disk.size}
  BY <1>1
<1>5. Pend' = Pend
  BY <1>1, <1>3 DEF Pend
<1>6. ~ram.dirty => Queued' = Queued
  BY <1>1, <1>3 DEF Queued, Ring
<1>7. /\ disk.synced \in Nat /\ disk.nextId \in Nat /\ half \in Int /\ seen \in Nat
      /\ ram.nextId \in Nat
  <2>1. disk.woff \in Nat /\ disk.aoff \in Nat
    BY <1>1 DEF Disks
  <2>2. half \in Int
    BY <2>1
  <2>. QED  BY <1>1, <1>2, <2>2 DEF Disks, BottleType, Rams
<1>8. /\ Count' = (disk.synced + half) + disk.size
      /\ ~ram.dirty => Count = (disk.synced + half) + disk.size
  BY <1>1, <1>3 DEF Count
<1>. HIDE DEF half
<1>9. (disk.synced + u) + disk.size <= (disk.synced + half) + disk.size
  BY <1>1, <1>4, <1>7
<1>10. BottleType'
  <2>1. \A i \in 0..(RingSize - 1) : disk.ring[i].bottle <= seen
    BY <1>1, <1>2 DEF BottleType
  <2>. QED  BY <2>1, <1>1, <1>2 DEF BottleType
<1>11. Agree'
  BY <1>1, <1>7 DEF Agree
<1>12. Shape'
  BY <1>1, <1>2, <1>3 DEF Shape
<1>13. "id" \notin faults' => Sound'
  <2>1. SUFFICES ASSUME "id" \notin faults' PROVE Sound'
    OBVIOUS
  <2>2. Sound /\ ram.nextId = disk.nextId
    BY <2>1, <1>1 DEF Core
  <2>. QED  BY <2>2, <1>1 DEF Sound
<1>14. faults' \cap {"ring", "short", "overwritten"} = {} => Kept'
  <2>1. SUFFICES ASSUME faults' \cap {"ring", "short", "overwritten"} = {} PROVE Kept'
    OBVIOUS
  <2>2. Kept /\ ~ram.dirty
    BY <2>1, <1>1 DEF Core
  <2>. QED  BY <2>2, <1>1, <1>5, <1>6 DEF Kept
<1>15. ASSUME faults' \subseteq {"refused", "overwritten", "short"}
       PROVE  CountBounded'
  <2>1. "id" \notin faults' /\ "ring" \notin faults' /\ faults \subseteq {"refused", "overwritten", "short"}
    BY <1>1, <1>15
  <2>2. CountBounded /\ Sound /\ ~ram.dirty /\ ram.nextId = disk.nextId
    <3>1. "id" \notin faults
      BY <2>1
    <3>. QED  BY <2>1, <3>1, <1>1 DEF Core
  <2>3. ram.nextId = seen + 1 /\ disk.total + 1 = disk.nextId /\ Count <= seen
    BY <2>2, <1>1 DEF CountBounded, Sound
  <2>4. disk.total = seen
    BY <2>2, <2>3, <1>1, <1>7
  <2>5. (disk.synced + half) + disk.size <= seen
    BY <2>2, <2>3, <1>8
  <2>6. (disk.synced + u) + disk.size <= seen
    BY <2>5, <1>1, <1>4, <1>7, <1>9
  <2>7. ram'.total = seen
    <3>1. ram'.total <= seen
      BY <2>4, <2>6, <1>4, <1>7
    <3>. QED  BY <3>1, <2>4, <1>1, <1>7
  <2>8. Count' <= seen
    BY <2>5, <1>8
  <2>9. disk.nextId = seen + 1
    BY <2>2, <2>3
  <2>. QED  BY <2>7, <2>8, <2>9, <1>1 DEF CountBounded
<1>16. ASSUME faults' \subseteq {"refused", "id"}
       PROVE  /\ Linked(Range(Pend) \cup Queued, stored, received)'
              /\ Filled(Pend, stored, ram.nextId, Settled.nextId)'
              /\ Stored' => Rising(Pend, stored)' /\ CountExact'
  <2>1. faults \subseteq {"refused", "id"} /\ "ring" \notin faults' /\ "short" \notin faults
    BY <1>1, <1>16
  <2>2. /\ Linked(Range(Pend) \cup Queued, stored, received)
        /\ Filled(Pend, stored, ram.nextId, Settled.nextId)
        /\ Stored => Rising(Pend, stored) /\ CountExact
    BY <2>1 DEF Core
  <2>3. ~ram.dirty /\ Queued' = Queued
    BY <2>1, <1>1, <1>6
  <2>4. Linked(Range(Pend) \cup Queued, stored, received)'
    BY <2>2, <2>3, <1>1, <1>5
  <2>5. Pend \in Seq(Ev)
    BY <1>2, WaitingType
  <2>6. Filled(Pend, stored, disk.nextId, disk.nextId)
    BY <2>2, <2>5, <1>1, <1>7, FilledReset
  <2>7. Filled(Pend, stored, ram.nextId, Settled.nextId)'
    BY <2>6, <1>1, <1>5
  <2>8. Stored' = Stored /\ Rising(Pend, stored)' = Rising(Pend, stored)
    BY <1>1, <1>5 DEF Stored
  <2>9. CountExact => CountExact'
    <3>1. SUFFICES ASSUME CountExact PROVE CountExact'
      OBVIOUS
    <3>2. Count = seen /\ disk.total <= seen
      BY <3>1, <1>1 DEF CountExact
    <3>3. (disk.synced + half) + disk.size = seen
      BY <3>2, <2>3, <1>8
    <3>4. (disk.synced + u) + disk.size <= seen
      BY <3>3, <1>9
    <3>5. ram'.total <= seen
      BY <3>2, <3>4, <1>4
    <3>6. ram'.mounted => ram'.total = seen
      <4>1. SUFFICES ASSUME ram'.mounted PROVE ram'.total = seen
        OBVIOUS
      <4>2. u = half
        BY <4>1, <2>1, <1>4
      <4>3. ram'.total >= seen
        BY <4>2, <3>3, <1>4
      <4>. QED  BY <4>3, <3>5, <1>1, <1>7
    <3>7. Count' = seen
      BY <3>3, <1>8
    <3>. QED  BY <3>5, <3>6, <3>7, <1>1 DEF CountExact
  <2>. QED  BY <2>2, <2>4, <2>7, <2>8, <2>9
<1>. QED  BY <1>10, <1>11, <1>12, <1>13, <1>14, <1>15, <1>16 DEF Core

-----------------------------------------------------------------------------
(* An upload from the journal: the acknowledged events are dropped, with or *)
(* without a compaction, and the rest stays as it was.                      *)

DrawnFrom(g, f) == \A a \in 1..Len(g) : \E b \in 1..Len(f) : g[a].e = f[b].e
MovedTo(f, off, w, g, a2, w2) ==
    \/ w2 = w /\ a2 = off /\ g = f
    \/ /\ w2 = Len(Rewritten(Slots(f, off, w))) /\ a2 = 0
       /\ g = Rewritten(Slots(f, off, w))

LEMMA MovedShape ==
    ASSUME NEW f \in Files, NEW off \in Nat, NEW w \in Nat, off <= w, off % 2 = 0, w % 2 = 0,
           w <= Len(f), NEW n \in Nat, OrderedUpTo(f, n), NEW g, NEW a2, NEW w2,
           MovedTo(f, off, w, g, a2, w2)
    PROVE  /\ g \in Files /\ a2 \in Nat /\ w2 \in Nat /\ a2 % 2 = 0 /\ w2 % 2 = 0
           /\ a2 <= w2 /\ w2 <= Len(g) /\ OrderedUpTo(g, n)
           /\ Events(g, a2, w2) = Events(f, off, w)
           /\ (w2 - a2) \div 2 \in Int /\ (w2 - a2) \div 2 <= (w - off) \div 2
           /\ Whole(f, w) => Whole(g, w2) /\ (w2 - a2) \div 2 = (w - off) \div 2
           /\ DrawnFrom(g, f)
<1>1. CASE w2 = w /\ a2 = off /\ g = f
  <2>1. (w - off) \div 2 \in Int
    OBVIOUS
  <2>2. DrawnFrom(f, f)
    BY DEF DrawnFrom
  <2>. QED  BY <1>1, <2>1, <2>2
<1>. DEFINE keep == Slots(f, off, w)
            new == Rewritten(keep)
<1>2. CASE w2 = Len(new) /\ a2 = 0 /\ g = new
  <2>1. /\ keep \in Seq(SlotRecs) /\ Len(keep) \in Nat /\ 2 * Len(keep) <= w - off
    BY SlotsFacts DEF Files
  <2>2. /\ new \in Files /\ Len(new) = 2 * Len(keep)
        /\ \A a \in 1..Len(new) :
              (a + 1) \div 2 \in 1..Len(keep) /\ new[a].e = keep[(a + 1) \div 2].e
        /\ Whole(new, Len(new))
    BY <2>1, RewrittenFacts
  <2>3. Events(new, 0, Len(new)) = Events(f, off, w)
    BY RewrittenEvents
  <2>4. OrderedUpTo(new, n)
    BY RewrittenOrdered
  <2>5. Whole(f, w) => Len(keep) = (w - off) \div 2
    BY EventsWhole
  <2>6. \A i \in 1..Len(keep) : keep[i].next \in 1..Len(f) /\ keep[i].e = f[keep[i].next].e
    BY SlotEvents
  <2>. HIDE DEF keep, new
  <2>7. DrawnFrom(new, f)
    BY <2>2, <2>6 DEF DrawnFrom
  <2>8. w2 \in Nat /\ w2 % 2 = 0 /\ a2 <= w2 /\ w2 <= Len(g) /\ (w2 - a2) \div 2 = Len(keep)
    BY <1>2, <2>1, <2>2
  <2>9. Len(keep) <= (w - off) \div 2
    BY <2>1
  <2>10. a2 \in Nat /\ a2 % 2 = 0
    BY <1>2
  <2>. QED  BY <1>2, <2>1, <2>2, <2>3, <2>4, <2>5, <2>7, <2>8, <2>9, <2>10
<1>. QED  BY <1>1, <1>2 DEF MovedTo

LEMMA UploadJournalEffect ==
    ASSUME Core, NEW ack \in -1..MaxBottles, UploadJournal(ack)
    PROVE  /\ Settled = disk /\ disk \in Disks /\ ram \in Rams /\ canRead(ram)
           /\ disk.woff = ram.woff /\ disk.aoff = ram.aoff /\ ram.aoff <= ram.woff
           /\ readPending # <<>>
           /\ IsWrites(todo') /\ UNCHANGED <<disk, seen, faults>>
           /\ Settled' = WriteAll(disk, todo')
           /\ received' = received \cup Bottles(Range(Batch))
           /\ stored' = Inserted(stored, Range(Batch))
           /\ \/ Settled' = disk /\ ram' = ram
              \/ \E a \in Range(BatchIds) :
                    /\ ~(Committed(a, BatchIds).ram = ram /\ Committed(a, BatchIds).writes = <<>>)
                    /\ ram' = Committed(a, BatchIds).ram
                    /\ todo' = Committed(a, BatchIds).writes
<1>. DEFINE ackId == IF ack = 0 THEN Last(BatchIds) ELSE ack
            c == Committed(ackId, BatchIds)
<1>1. BottleType /\ Agree /\ Shape /\ Idle /\ UNCHANGED <<disk, seen, faults>> /\ readPending # <<>>
  BY DEF Core, UploadJournal
<1>2. Settled = disk /\ disk \in Disks /\ ram \in Rams /\ Settled' = WriteAll(disk, todo')
  BY <1>1, AtRest DEF BottleType, Settled
<1>3. disk.woff = ram.woff /\ disk.aoff = ram.aoff /\ ram.aoff <= ram.woff /\ disk.file \in Files
  BY <1>1, <1>2 DEF Agree, Shape, Disks
<1>4. /\ ack \in Range(BatchIds) \cup {0, -1}
      /\ received' = received \cup {x.bottle : x \in Range(Batch)}
      /\ Insert(Range(Batch))
      /\ ram' = IF ack = -1 THEN ram ELSE c.ram
      /\ todo' = IF ack = -1 THEN <<>> ELSE c.writes
  BY DEF UploadJournal, Batch, BatchIds
<1>5. received' = received \cup Bottles(Range(Batch))
  BY <1>4 DEF Bottles
<1>6. stored' = Inserted(stored, Range(Batch))
  BY <1>4 DEF Insert, Inserted
<1>7. /\ canRead(ram) /\ Len(Batch) \in 1..Len(Events(disk.file, ram.aoff, ram.woff))
      /\ DOMAIN BatchIds = 1..Len(Batch) /\ Last(BatchIds) = BatchIds[Len(Batch)]
  BY <1>1, <1>2, <1>3, BatchFacts
<1>8. CASE ack = -1
  <2>1. ram' = ram /\ todo' = <<>>
    BY <1>4, <1>8
  <2>2. Settled' = disk /\ IsWrites(todo')
    BY <2>1, <1>2, WritesNone
  <2>. QED  BY <2>1, <2>2, <1>1, <1>2, <1>3, <1>5, <1>6, <1>7
<1>9. CASE ack # -1
  <2>1. ackId \in Range(BatchIds)
    <3>1. CASE ack = 0
      <4>1. Len(Batch) \in DOMAIN BatchIds
        <5>1. Len(Batch) \in Nat /\ Len(Batch) >= 1
          BY <1>7
        <5>. QED  BY <5>1, <1>7
      <4>. QED  BY <3>1, <4>1, <1>7 DEF Range
    <3>2. CASE ack # 0
      BY <3>2, <1>4, <1>9
    <3>. QED  BY <3>1, <3>2
  <2>. HIDE DEF ackId
  <2>2. ram' = c.ram /\ todo' = c.writes
    BY <1>4, <1>9
  <2>3. CASE c.ram = ram /\ c.writes = <<>>
    <3>1. ram' = ram /\ todo' = <<>>
      BY <2>2, <2>3
    <3>2. Settled' = disk /\ IsWrites(todo')
      BY <3>1, <1>2, WritesNone
    <3>. QED  BY <3>1, <3>2, <1>1, <1>2, <1>3, <1>5, <1>6, <1>7
  <2>4. CASE ~(c.ram = ram /\ c.writes = <<>>)
    <3>1. IsWrites(c.writes)
      BY <2>1, <2>4, <1>1, <1>2, <1>3, CommittedFacts
    <3>. QED  BY <2>1, <2>2, <2>4, <3>1, <1>1, <1>2, <1>3, <1>5, <1>6, <1>7
  <2>. QED  BY <2>3, <2>4
<1>. QED  BY <1>8, <1>9

-----------------------------------------------------------------------------
(* The answer acknowledged n events with the k-th of the batch, after which *)
(* the next slot is at off.                                                 *)

Moved(n, k, off) ==
    /\ n = countAckedInBatch(BatchIds[k], BatchIds)
    /\ off = Slots(disk.file, ram.aoff, ram.woff)[k].next
    /\ ram.aoff + 2 * k <= off /\ off <= ram.woff /\ off % 2 = 0
    /\ ram' \in Rams /\ Settled' \in Disks
    /\ Settled'.woff = ram'.woff /\ Settled'.aoff = ram'.aoff /\ Settled'.synced = ram'.synced
    /\ Settled'.nextId = ram'.nextId /\ Settled'.total = ram'.total
    /\ Settled'.head = ram'.head /\ Settled'.size = ram'.size /\ Settled'.ring = ram'.ring
    /\ ram'.synced = ram.synced + n /\ ram'.nextId = ram.nextId /\ ram'.mounted = ram.mounted
    /\ ram'.head = ram.head /\ ram'.size = ram.size /\ ram'.ring = ram.ring
    /\ ram'.aoff % 2 = 0 /\ ram'.woff % 2 = 0 /\ ram'.aoff <= ram'.woff
    /\ ram'.woff <= Len(Settled'.file) /\ OrderedUpTo(Settled'.file, seen)
    /\ Whole(disk.file, ram.woff) => Whole(Settled'.file, ram'.woff)
    /\ DrawnFrom(Settled'.file, disk.file)
    /\ Pend' = Events(disk.file, off, ram.woff)
    /\ (ram'.woff - ram'.aoff) \div 2 <= (ram.woff - off) \div 2
    /\ Whole(disk.file, ram.woff) =>
          (ram'.woff - ram'.aoff) \div 2 = (ram.woff - off) \div 2
    /\ ram'.total >= ram.total
    /\ ram'.total = ram.total \/ ram'.total <= Count'

LEMMA EvenSum ==
    ASSUME NEW x \in Nat, NEW y \in Nat, x % 2 = 0, (y - x) % 2 = 0
    PROVE  y % 2 = 0
OBVIOUS

LEMMA UploadJournalMoved ==
    ASSUME Core, NEW ack \in -1..MaxBottles, UploadJournal(ack), ~(Settled' = disk /\ ram' = ram)
    PROVE  \E n \in 1..Len(Batch), k \in 1..Len(Batch), off \in Nat : Moved(n, k, off)
<1>. DEFINE s == Slots(disk.file, ram.aoff, ram.woff)
            f == disk.file
<1>1. /\ Settled = disk /\ disk \in Disks /\ ram \in Rams
      /\ disk.woff = ram.woff /\ disk.aoff = ram.aoff /\ ram.aoff <= ram.woff
      /\ readPending # <<>> /\ Settled' = WriteAll(disk, todo')
      /\ \E a \in Range(BatchIds) :
            /\ ~(Committed(a, BatchIds).ram = ram /\ Committed(a, BatchIds).writes = <<>>)
            /\ ram' = Committed(a, BatchIds).ram
            /\ todo' = Committed(a, BatchIds).writes
  BY UploadJournalEffect
<1>2. PICK a \in Range(BatchIds) :
            /\ ~(Committed(a, BatchIds).ram = ram /\ Committed(a, BatchIds).writes = <<>>)
            /\ ram' = Committed(a, BatchIds).ram
            /\ todo' = Committed(a, BatchIds).writes
  BY <1>1
<1>. DEFINE n == countAckedInBatch(a, BatchIds)
            c == Committed(a, BatchIds)
            D == WriteAll(disk, c.writes)
<1>3. /\ n \in 1..Len(Batch)
      /\ \E k \in 1..Len(Batch) :
            /\ BatchIds[k] = a
            /\ LET off == s[k].next
                   new == Rewritten(Slots(f, off, ram.woff))
               IN  \/ c.ram.woff = ram.woff /\ c.ram.aoff = off /\ D.file = f
                   \/ c.ram.woff = Len(new) /\ c.ram.aoff = 0 /\ D.file = new
      /\ c.ram \in Rams /\ IsWrites(c.writes) /\ D \in Disks
      /\ D.woff = c.ram.woff /\ D.aoff = c.ram.aoff /\ D.synced = c.ram.synced
      /\ D.nextId = c.ram.nextId /\ D.total = c.ram.total
      /\ D.head = c.ram.head /\ D.size = c.ram.size /\ D.ring = c.ram.ring
      /\ c.ram.synced = ram.synced + n /\ c.ram.nextId = ram.nextId
      /\ c.ram.head = ram.head /\ c.ram.size = ram.size /\ c.ram.ring = ram.ring
      /\ c.ram.mounted = ram.mounted
      /\ LET sum == c.ram.synced + Unread(c.ram, D.file) + c.ram.size
         IN  /\ c.ram.total >= ram.total /\ c.ram.total >= sum
             /\ c.ram.total \in {ram.total, sum}
  BY <1>1, <1>2, CommittedFacts
<1>4. c.ram = ram' /\ D = Settled'
  BY <1>1, <1>2
<1>. HIDE DEF c, D, n
<1>5. PICK k \in 1..Len(Batch) :
            /\ BatchIds[k] = a
            /\ \/ ram'.woff = ram.woff /\ ram'.aoff = s[k].next /\ Settled'.file = f
               \/ /\ ram'.woff = Len(Rewritten(Slots(f, s[k].next, ram.woff))) /\ ram'.aoff = 0
                  /\ Settled'.file = Rewritten(Slots(f, s[k].next, ram.woff))
  BY <1>3, <1>4
<1>. DEFINE off == s[k].next
<1>6. /\ f \in Files /\ ram.aoff \in Nat /\ ram.woff \in Nat /\ seen \in Nat
      /\ OrderedUpTo(f, seen) /\ ram.woff <= Len(f) /\ ram.aoff % 2 = 0 /\ ram.woff % 2 = 0
      /\ ram.nextId \in Nat /\ ram.total \in Nat /\ ram.synced \in Nat
  BY <1>1 DEF Core, BottleType, Shape, Disks, Rams
<1>7. Len(Batch) \in 1..Len(s) /\ Len(s) \in Nat
  <2>1. Len(Batch) \in 1..Len(Events(f, ram.aoff, ram.woff))
    BY <1>1, <1>6, BatchFacts
  <2>2. Len(Events(f, ram.aoff, ram.woff)) = Len(s) /\ Len(Events(f, ram.aoff, ram.woff)) \in Nat
    BY <1>6, EventsSlots
  <2>. QED  BY <2>1, <2>2
<1>8. off \in Nat /\ ram.aoff + 2 * k <= off /\ off <= ram.woff /\ (off - ram.aoff) % 2 = 0
  <2>1. \A i \in 1..Len(s) : /\ s[i].next >= ram.aoff + 2 * i
                             /\ s[i].next <= ram.woff /\ s[i].next \in Nat
                             /\ (s[i].next - ram.aoff) % 2 = 0
    <3>1. f \in Seq(HalfRecs)
      BY <1>6 DEF Files
    <3>2. /\ \A i \in 1..Len(s) : /\ s[i].next - 2 \in Good(f, ram.aoff, ram.woff)
                                  /\ s[i].e = f[s[i].next - 1].e
                                  /\ s[i].next >= ram.aoff + 2 * i
                                  /\ s[i].next <= ram.woff /\ s[i].next \in Nat /\ s[i].e \in Ev
                                  /\ (s[i].next - ram.aoff) % 2 = 0
      BY <1>6, <3>1, SlotsFacts
    <3>. HIDE DEF s
    <3>. QED  BY <3>2
  <2>2. k \in 1..Len(s)
    BY <1>7
  <2>. HIDE DEF s
  <2>3. off >= ram.aoff + 2 * k
    BY <2>1, <2>2
  <2>4. off \in Nat /\ off <= ram.woff /\ (off - ram.aoff) % 2 = 0
    BY <2>1, <2>2
  <2>. HIDE DEF off
  <2>. QED  BY <2>3, <2>4, <1>6
<1>9. off % 2 = 0
  <2>. HIDE DEF off
  <2>. QED  BY <1>6, <1>8, EvenSum
<1>10. \/ ram'.woff = ram.woff /\ ram'.aoff = off /\ Settled'.file = f
       \/ /\ ram'.woff = Len(Rewritten(Slots(f, off, ram.woff))) /\ ram'.aoff = 0
          /\ Settled'.file = Rewritten(Slots(f, off, ram.woff))
  BY <1>5
<1>11. off = s[k].next
  OBVIOUS
<1>. HIDE DEF off
<1>. DEFINE g == Settled'.file
            a2 == ram'.aoff
            w2 == ram'.woff
<1>17. MovedTo(f, off, ram.woff, g, a2, w2)
  BY <1>10 DEF MovedTo
<1>12. /\ g \in Files /\ a2 \in Nat /\ w2 \in Nat /\ a2 % 2 = 0 /\ w2 % 2 = 0
       /\ a2 <= w2 /\ w2 <= Len(g) /\ OrderedUpTo(g, seen)
       /\ Events(g, a2, w2) = Events(f, off, ram.woff)
       /\ (w2 - a2) \div 2 \in Int /\ (w2 - a2) \div 2 <= (ram.woff - off) \div 2
       /\ Whole(f, ram.woff) => Whole(g, w2) /\ (w2 - a2) \div 2 = (ram.woff - off) \div 2
       /\ DrawnFrom(g, f)
  <2>. HIDE DEF g, a2, w2, f, s
  <2>1. /\ f \in Files /\ off \in Nat /\ ram.woff \in Nat /\ off <= ram.woff /\ off % 2 = 0
        /\ ram.woff % 2 = 0 /\ ram.woff <= Len(f) /\ seen \in Nat /\ OrderedUpTo(f, seen)
    BY <1>6, <1>8, <1>9
  <2>. QED  BY <2>1, <1>17, MovedShape
<1>13. Pend' = Events(f, off, ram.woff)
  BY <1>12 DEF Pend
<1>14. ram'.total = ram.total \/ ram'.total <= Count'
  <2>. DEFINE half == (w2 - a2) \div 2
              u == Unread(ram', g)
  <2>1. ram'.total \in {ram.total, (ram'.synced + u) + ram'.size}
    BY <1>3, <1>4
  <2>2. u \in Nat /\ u <= half /\ half \in Nat
    BY <1>3, <1>4, <1>12, UnreadWhole
  <2>3. ram'.synced \in Nat /\ ram'.size \in Nat
    <3>1. ram' \in Rams
      BY <1>3, <1>4
    <3>. QED  BY <3>1, RingFacts DEF Rams
  <2>4. Count' = (ram'.synced + half) + ram'.size
    BY DEF Count
  <2>. HIDE DEF half, u
  <2>. QED  BY <2>1, <2>2, <2>3, <2>4
<1>15. n = countAckedInBatch(BatchIds[k], BatchIds)
  BY <1>5 DEF n
<1>. HIDE DEF s
<1>16. Moved(n, k, off)
  BY <1>3, <1>4, <1>8, <1>9, <1>11, <1>12, <1>13, <1>14, <1>15 DEF Moved, s
<1>. QED  BY <1>3, <1>8, <1>16

LEMMA BatchPend ==
    ASSUME Core, NEW ack \in -1..MaxBottles, UploadJournal(ack)
    PROVE  /\ Pend \in Seq(Ev) /\ Len(Pend) \in Nat /\ DOMAIN Pend = 1..Len(Pend)
           /\ Len(Batch) \in 1..Len(Pend)
           /\ Range(Batch) = {Pend[i] : i \in 1..Len(Batch)}
           /\ Range(Batch) \subseteq Range(Pend)
           /\ BatchIds \in Seq(Nat) /\ Len(BatchIds) = Len(Batch)
           /\ \A i \in 1..Len(Batch) : BatchIds[i] = Pend[i].id
           /\ Pend = Events(disk.file, ram.aoff, ram.woff)
           /\ disk.file \in Files /\ ram.aoff \in Nat /\ ram.woff \in Nat
<1>1. /\ Settled = disk /\ disk \in Disks /\ ram \in Rams /\ readPending # <<>>
  BY UploadJournalEffect
<1>2. disk.file \in Files /\ ram.aoff \in Nat /\ ram.woff \in Nat
  BY <1>1 DEF Disks, Rams
<1>3. Pend = Events(disk.file, ram.aoff, ram.woff)
  BY <1>1 DEF Pend
<1>4. /\ Len(Batch) \in 1..Len(Pend)
      /\ \A i \in 1..Len(Batch) : Batch[i] = Pend[i] /\ BatchIds[i] = Pend[i].id
      /\ BatchIds \in Seq(Nat) /\ Len(BatchIds) = Len(Batch)
      /\ Range(Batch) = {Pend[i] : i \in 1..Len(Batch)}
  BY <1>1, <1>2, <1>3, BatchFacts
<1>5. Pend \in Seq(Ev)
  BY <1>2, <1>3, EventsSlots
<1>6. Len(Pend) \in Nat /\ DOMAIN Pend = 1..Len(Pend)
  BY <1>5
<1>7. Range(Batch) \subseteq Range(Pend)
  <2>1. \A i \in 1..Len(Batch) : i \in DOMAIN Pend
    BY <1>4, <1>6
  <2>. QED  BY <2>1, <1>4 DEF Range
<1>. QED  BY <1>2, <1>3, <1>4, <1>5, <1>6, <1>7

LEMMA UploadJournalDrop ==
    ASSUME Core, NEW ack \in -1..MaxBottles, UploadJournal(ack), "short" \notin faults
    PROVE  /\ Pend' \in Seq(Ev)
           /\ \E k \in 0..Len(Batch) :
                 /\ Dropped(Pend, Pend', k)
                 /\ \/ k = 0 /\ ram' = ram /\ Settled' = disk
                    \/ /\ k \in 1..Len(Batch)
                       /\ \E n \in 1..Len(Batch), off \in Nat :
                             Moved(n, k, off) /\ off = ram.aoff + 2 * k
<1>1. /\ Pend \in Seq(Ev) /\ Len(Pend) \in Nat /\ Len(Batch) \in 1..Len(Pend)
      /\ Pend = Events(disk.file, ram.aoff, ram.woff)
      /\ disk.file \in Files /\ ram.aoff \in Nat /\ ram.woff \in Nat
  BY BatchPend
<1>2. Settled = disk
  BY UploadJournalEffect
<1>3. ram.aoff <= ram.woff /\ ram.aoff % 2 = 0 /\ ram.woff % 2 = 0 /\ Whole(disk.file, ram.woff)
  BY <1>2 DEF Core, Shape
<1>4. CASE Settled' = disk /\ ram' = ram
  <2>1. Pend' = Pend
    BY <1>2, <1>4 DEF Pend
  <2>2. Dropped(Pend, Pend', 0)
    BY <2>1, <1>1 DEF Dropped
  <2>3. 0 \in 0..Len(Batch)
    BY <1>1
  <2>. QED  BY <2>1, <2>2, <2>3, <1>1, <1>4
<1>5. CASE ~(Settled' = disk /\ ram' = ram)
  <2>1. PICK n \in 1..Len(Batch), k \in 1..Len(Batch), off \in Nat : Moved(n, k, off)
    BY <1>5, UploadJournalMoved
  <2>2. off = Slots(disk.file, ram.aoff, ram.woff)[k].next /\ Pend' = Events(disk.file, off, ram.woff)
    BY <2>1 DEF Moved
  <2>3. Slots(disk.file, ram.aoff, ram.woff) =
           [i \in 1..((ram.woff - ram.aoff) \div 2) |->
               [e |-> disk.file[ram.aoff + 2 * i - 1].e, next |-> ram.aoff + 2 * i]]
    BY <1>1, <1>3, EventsWhole
  <2>4. Len(Pend) = (ram.woff - ram.aoff) \div 2
    <3>1. Len(Slots(disk.file, ram.aoff, ram.woff)) = (ram.woff - ram.aoff) \div 2
      BY <1>1, <1>3, EventsWhole
    <3>2. Len(Events(disk.file, ram.aoff, ram.woff)) = Len(Slots(disk.file, ram.aoff, ram.woff))
      BY <1>1, EventsSlots
    <3>. QED  BY <3>1, <3>2, <1>1
  <2>5. k \in 1..((ram.woff - ram.aoff) \div 2) /\ k \in 0..Len(Pend) /\ k \in 0..Len(Batch)
    <3>. DEFINE b == Len(Batch)
    <3>1. k \in 1..b /\ b \in 1..Len(Pend) /\ Len(Pend) \in Nat
      BY <1>1
    <3>. HIDE DEF b
    <3>2. k \in 1..Len(Pend) /\ k \in 0..Len(Pend) /\ k \in 0..b
      BY <3>1
    <3>. QED  BY <3>2, <2>4 DEF b
  <2>6. off = ram.aoff + 2 * k
    BY <2>2, <2>3, <2>5
  <2>7. /\ Len(Pend') = Len(Pend) - k
        /\ \A i \in 1..(Len(Pend) - k) : Pend'[i] = Pend[i + k]
    <3>1. k \in 0..Len(Events(disk.file, ram.aoff, ram.woff))
      BY <2>5, <1>1
    <3>. DEFINE f == disk.file
                x == ram.aoff
                y == ram.woff
                p == Events(f, x, y)
                q == Events(f, x + 2 * k, y)
    <3>2. /\ f \in Files /\ x \in Nat /\ y \in Nat /\ x <= y /\ x % 2 = 0 /\ y % 2 = 0
          /\ Whole(f, y) /\ k \in 0..Len(Events(f, x, y))
      BY <3>1, <1>1, <1>3
    <3>3. Pend = p /\ Pend' = q
      BY <2>2, <2>6, <1>1
    <3>. HIDE DEF f, x, y
    <3>4. /\ Len(p) = (y - x) \div 2 /\ x + 2 * k <= y
          /\ Len(q) = Len(p) - k
          /\ \A i \in 1..(Len(p) - k) : q[i] = p[i + k]
      BY <3>2, EventsDrop
    <3>. HIDE DEF p, q
    <3>. QED  BY <3>3, <3>4
  <2>8. Pend' \in Seq(Ev)
    BY <2>2, <1>1, EventsSlots
  <2>9. Dropped(Pend, Pend', k)
    BY <2>7 DEF Dropped
  <2>. QED  BY <2>1, <2>5, <2>6, <2>8, <2>9
<1>. QED  BY <1>4, <1>5

LEMMA UploadJournalBasics ==
    ASSUME Core, NEW ack \in -1..MaxBottles, UploadJournal(ack)
    PROVE  /\ Range(Batch) \in SUBSET Ev /\ Range(Batch) \subseteq Range(Pend)
           /\ Queued' = Queued
           /\ received' = received \cup Bottles(Range(Batch))
           /\ stored' = Inserted(stored, Range(Batch))
           /\ stored \in SUBSET Ev /\ stored' \in SUBSET Ev /\ stored \subseteq stored'
           /\ Bottles(stored) \subseteq received
           /\ Ids(stored) \subseteq Ids(stored') /\ Ids(Range(Batch)) \subseteq Ids(stored')
           /\ BottleType' /\ Agree' /\ Shape' /\ (Sound => Sound')
<1>. DEFINE evs == Range(Batch)
            w == Range(Pend) \cup Queued
            st2 == Inserted(stored, evs)
            rc2 == received \cup Bottles(evs)
<1>1. /\ Settled = disk /\ disk \in Disks /\ ram \in Rams
      /\ IsWrites(todo') /\ UNCHANGED <<disk, seen, faults>>
      /\ received' = rc2 /\ stored' = st2
  BY UploadJournalEffect
<1>2. BottleType /\ Agree /\ Shape
  BY DEF Core
<1>3. /\ Range(Pend) \in SUBSET Ev /\ Queued \in SUBSET Ev /\ Bottles(w) \subseteq 0..seen
      /\ Sound => \A x \in w : x.id = x.bottle
  BY <1>2, WaitingType
<1>4. evs \subseteq Range(Pend)
  BY BatchPend
<1>5. evs \in SUBSET Ev
  BY <1>3, <1>4
<1>6. stored \in SUBSET Ev /\ Bottles(stored) \subseteq received /\ received \subseteq 0..seen
      /\ seen \in Nat
  BY <1>2 DEF BottleType
<1>7. /\ st2 \in SUBSET Ev /\ stored \subseteq st2 /\ Bottles(st2) \subseteq rc2
      /\ Ids(stored) \subseteq Ids(st2) /\ Ids(evs) \subseteq Ids(st2)
  BY <1>5, <1>6, InsertType
<1>8. rc2 \subseteq 0..seen
  <2>1. Bottles(evs) \subseteq Bottles(w)
    BY <1>4 DEF Bottles
  <2>. QED  BY <2>1, <1>3, <1>6
<1>9. Sound => (\A x \in st2 : x.id = x.bottle) /\ rc2 = Bottles(st2)
  <2>1. SUFFICES ASSUME Sound PROVE (\A x \in st2 : x.id = x.bottle) /\ rc2 = Bottles(st2)
    OBVIOUS
  <2>2. \A x \in stored \cup evs : x.id = x.bottle
    BY <2>1, <1>3, <1>4 DEF Sound
  <2>3. received = Bottles(stored)
    BY <2>1 DEF Sound
  <2>. HIDE DEF w, evs
  <2>. QED  BY <2>2, <2>3, <1>5, <1>6, InsertSound
<1>10. disk.file \in Files /\ ram.synced \in Nat /\ OrderedUpTo(disk.file, seen)
       /\ ram.nextId \in Nat
  BY <1>1, <1>2 DEF Disks, Rams, Shape
<1>. HIDE DEF w, evs, st2, rc2
<1>11. CASE Settled' = disk /\ ram' = ram
  <2>1. Queued' = Queued
    BY <1>11 DEF Queued
  <2>2. BottleType'
    BY <1>1, <1>2, <1>7, <1>8, <1>11 DEF BottleType
  <2>3. Agree' /\ Shape'
    BY <1>1, <1>2, <1>11 DEF Agree, Shape
  <2>4. Sound => Sound'
    BY <1>1, <1>9, <1>11 DEF Sound
  <2>. QED  BY <2>1, <2>2, <2>3, <2>4, <1>1, <1>4, <1>5, <1>6, <1>7 DEF evs, st2, rc2
<1>12. CASE ~(Settled' = disk /\ ram' = ram)
  <2>1. PICK n \in 1..Len(Batch), k \in 1..Len(Batch), off \in Nat : Moved(n, k, off)
    BY <1>12, UploadJournalMoved
  <2>2. /\ ram' \in Rams /\ Settled' \in Disks
        /\ Settled'.woff = ram'.woff /\ Settled'.aoff = ram'.aoff /\ Settled'.synced = ram'.synced
        /\ Settled'.nextId = ram'.nextId
        /\ Settled'.head = ram'.head /\ Settled'.size = ram'.size /\ Settled'.ring = ram'.ring
        /\ ram'.synced = ram.synced + n /\ ram'.nextId = ram.nextId
        /\ ram'.head = ram.head /\ ram'.size = ram.size /\ ram'.ring = ram.ring
        /\ ram'.aoff % 2 = 0 /\ ram'.woff % 2 = 0 /\ ram'.aoff <= ram'.woff
        /\ ram'.woff <= Len(Settled'.file) /\ OrderedUpTo(Settled'.file, seen)
        /\ Whole(disk.file, ram.woff) => Whole(Settled'.file, ram'.woff)
        /\ DrawnFrom(Settled'.file, disk.file)
    BY <2>1 DEF Moved
  <2>3. n \in Nat /\ n > 0
    <3>1. Len(Batch) \in Nat
      BY BatchPend
    <3>. QED  BY <3>1
  <2>4. Queued' = Queued
    BY <2>2 DEF Queued, Ring
  <2>5. BottleType'
    BY <2>2, <1>1, <1>2, <1>7, <1>8 DEF BottleType
  <2>6. Agree'
    BY <2>2, <1>10 DEF Agree
  <2>7. Shape'
    <3>1. ram'.synced > 0
      BY <2>2, <2>3, <1>10
    <3>2. "short" \notin faults => Whole(disk.file, ram.woff)
      BY <1>1, <1>2 DEF Shape
    <3>. QED  BY <2>2, <3>1, <3>2, <1>1 DEF Shape
  <2>8. Sound => Sound'
    <3>1. SUFFICES ASSUME Sound PROVE Sound'
      OBVIOUS
    <3>2. \A i \in 1..Len(disk.file) : disk.file[i].e.id = disk.file[i].e.bottle
      BY <3>1, <1>1 DEF Sound
    <3>3. \A i \in 1..Len(Settled'.file) : Settled'.file[i].e.id = Settled'.file[i].e.bottle
      BY <2>2, <3>2 DEF DrawnFrom
    <3>. QED  BY <3>1, <3>3, <2>2, <1>1, <1>9 DEF Sound
  <2>. QED  BY <2>4, <2>5, <2>6, <2>7, <2>8, <1>1, <1>4, <1>5, <1>6, <1>7 DEF evs, st2, rc2
<1>. QED  BY <1>11, <1>12

LEMMA DroppedRange ==
    ASSUME NEW p \in Seq(Ev), NEW q \in Seq(Ev), NEW b \in 0..Len(p), NEW k \in 0..b, Dropped(p, q, k)
    PROVE  /\ Range(q) \subseteq Range(p)
           /\ Range(p) \subseteq {p[i] : i \in 1..b} \cup Range(q)
<1>1. /\ Len(p) \in Nat /\ DOMAIN p = 1..Len(p) /\ Len(q) = Len(p) - k /\ DOMAIN q = 1..Len(q)
      /\ \A i \in 1..(Len(p) - k) : q[i] = p[i + k]
  BY DEF Dropped
<1>2. ASSUME NEW i \in DOMAIN q PROVE q[i] \in Range(p)
  <2>1. i + k \in DOMAIN p /\ q[i] = p[i + k]
    BY <1>1
  <2>. QED  BY <2>1 DEF Range
<1>3. ASSUME NEW i \in DOMAIN p PROVE p[i] \in {p[h] : h \in 1..b} \cup Range(q)
  <2>1. CASE i \in 1..b
    BY <2>1
  <2>2. CASE i \notin 1..b
    <3>1. i - k \in 1..(Len(p) - k) /\ i - k \in DOMAIN q /\ (i - k) + k = i
      BY <2>2, <1>1
    <3>2. q[i - k] = p[i]
      BY <3>1, <1>1
    <3>. QED  BY <3>1, <3>2 DEF Range
  <2>. QED  BY <2>1, <2>2
<1>4. Range(q) \subseteq Range(p)
  BY <1>2 DEF Range
<1>5. Range(p) \subseteq {p[i] : i \in 1..b} \cup Range(q)
  BY <1>3 DEF Range
<1>. QED  BY <1>4, <1>5

LEMMA CountMoved ==
    ASSUME NEW s \in Nat, NEW z \in Nat, NEW a \in Nat, NEW w \in Nat, NEW off \in Nat,
           NEW k \in Nat, NEW h \in Int, a + 2 * k <= off, off <= w, h <= (w - off) \div 2
    PROVE  ((s + k) + h) + z <= (s + ((w - a) \div 2)) + z
<1>1. (w - off) \div 2 <= ((w - a) \div 2) - k
  OBVIOUS
<1>2. (w - a) \div 2 \in Int /\ (w - off) \div 2 \in Int
  OBVIOUS
<1>. DEFINE x == (w - a) \div 2
            y == (w - off) \div 2
<1>. HIDE DEF x, y
<1>3. x \in Int /\ y \in Int /\ y <= x - k /\ h <= y
  BY <1>1, <1>2 DEF x, y
<1>4. ((s + k) + h) + z <= (s + x) + z
  BY <1>3
<1>. QED  BY <1>4 DEF x

LEMMA CountAligned ==
    ASSUME NEW s \in Nat, NEW z \in Nat, NEW a \in Nat, NEW w \in Nat,
           NEW k \in Nat, a + 2 * k <= w
    PROVE  ((s + k) + ((w - (a + 2 * k)) \div 2)) + z = (s + ((w - a) \div 2)) + z
<1>1. (w - (a + 2 * k)) \div 2 = ((w - a) \div 2) - k
  OBVIOUS
<1>2. (w - a) \div 2 \in Int
  OBVIOUS
<1>. DEFINE x == (w - a) \div 2
<1>. HIDE DEF x
<1>3. x \in Int /\ (w - (a + 2 * k)) \div 2 = x - k
  BY <1>1, <1>2 DEF x
<1>4. ((s + k) + (x - k)) + z = (s + x) + z
  BY <1>3
<1>. QED  BY <1>3, <1>4 DEF x

(* The events dropped from the journal have been posted.                    *)
LEMMA UploadJournalKept ==
    ASSUME Core, NEW ack \in -1..MaxBottles, UploadJournal(ack), "short" \notin faults, Kept
    PROVE  Kept'
<1>. DEFINE evs == Range(Batch)
            b == Len(Batch)
<1>1. /\ Pend \in Seq(Ev) /\ Len(Pend) \in Nat /\ b \in 1..Len(Pend)
      /\ evs = {Pend[i] : i \in 1..b}
  BY BatchPend
<1>2. Queued' = Queued /\ received' = received \cup Bottles(evs)
  BY UploadJournalBasics
<1>3. seen' = seen
  BY UploadJournalEffect
<1>4. Pend' \in Seq(Ev) /\ \E k \in 0..b : Dropped(Pend, Pend', k)
  BY UploadJournalDrop
<1>5. PICK k \in 0..b : Dropped(Pend, Pend', k)
  BY <1>4
<1>. HIDE DEF b
<1>6. Range(Pend) \subseteq evs \cup Range(Pend')
  <2>1. b \in 0..Len(Pend)
    BY <1>1
  <2>. QED  BY <2>1, <1>1, <1>4, <1>5, DroppedRange
<1>. HIDE DEF evs
<1>7. Bottles(Range(Pend) \cup Queued) \subseteq Bottles(evs) \cup Bottles(Range(Pend') \cup Queued)
  BY <1>6 DEF Bottles
<1>8. Kept' <=> 1..seen \subseteq received' \cup Bottles(Range(Pend') \cup Queued)
  BY <1>2, <1>3 DEF Kept
<1>. QED  BY <1>2, <1>7, <1>8 DEF Kept

(* No id was given twice: the ids of a batch rise, and what is counted is   *)
(* what is dropped.                                                         *)
LEMMA UploadJournalBounded ==
    ASSUME Core, NEW ack \in -1..MaxBottles, UploadJournal(ack), Sound, CountBounded
    PROVE  CountBounded'
<1>1. /\ Settled = disk /\ disk \in Disks /\ ram \in Rams /\ seen' = seen
  BY UploadJournalEffect
<1>2. /\ ram.total = seen /\ ram.nextId = seen + 1 /\ Count <= seen /\ disk.total + 1 = disk.nextId
  BY <1>1 DEF CountBounded, Sound
<1>3. CASE Settled' = disk /\ ram' = ram
  BY <1>1, <1>2, <1>3 DEF CountBounded, Count
<1>4. CASE ~(Settled' = disk /\ ram' = ram)
  <2>1. PICK n \in 1..Len(Batch), k \in 1..Len(Batch), off \in Nat : Moved(n, k, off)
    BY <1>4, UploadJournalMoved
  <2>2. /\ n = countAckedInBatch(BatchIds[k], BatchIds)
        /\ ram.aoff + 2 * k <= off /\ off <= ram.woff
        /\ Settled'.nextId = ram'.nextId /\ Settled'.total = ram'.total
        /\ ram'.synced = ram.synced + n /\ ram'.nextId = ram.nextId /\ ram'.size = ram.size
        /\ (ram'.woff - ram'.aoff) \div 2 <= (ram.woff - off) \div 2
        /\ ram'.total >= ram.total
        /\ ram'.total = ram.total \/ ram'.total <= Count'
        /\ ram' \in Rams
    BY <2>1 DEF Moved
  <2>3. /\ Pend \in Seq(Ev) /\ Len(Pend) \in Nat /\ Len(Batch) \in 1..Len(Pend)
        /\ BatchIds \in Seq(Nat) /\ Len(BatchIds) = Len(Batch)
        /\ \A i \in 1..Len(Batch) : BatchIds[i] = Pend[i].id
    BY BatchPend
  <2>4. /\ \A i, j \in 1..Len(Pend) : i < j => Pend[i].bottle < Pend[j].bottle
        /\ \A x \in Range(Pend) \cup Queued : x.id = x.bottle
    BY WaitingType DEF Core
  <2>. DEFINE b == Len(Batch)
  <2>5. \A i, j \in 1..b : i < j => BatchIds[i] < BatchIds[j]
    <3>1. b \in 1..Len(Pend)
      BY <2>3
    <3>2. \A i \in 1..b : BatchIds[i] = Pend[i].id
      BY <2>3
    <3>. HIDE DEF b
    <3>3. \A i \in 1..b : i \in 1..Len(Pend) /\ i \in DOMAIN Pend
      BY <3>1, <2>3
    <3>4. \A i \in 1..b : Pend[i].id = Pend[i].bottle
      BY <3>3, <2>4 DEF Range
    <3>. QED  BY <3>2, <3>3, <3>4, <2>4
  <2>6. n = k
    BY <2>2, <2>3, <2>5, AckedRising
  <2>7. k \in Nat
    BY <2>3
  <2>8. Count' <= Count
    <3>. DEFINE h == (ram'.woff - ram'.aoff) \div 2
    <3>1. /\ ram.synced \in Nat /\ ram.size \in Nat /\ ram.aoff \in Nat /\ ram.woff \in Nat
      BY <1>1, CountType
    <3>2. h \in Int
      <4>1. ram'.woff \in Nat /\ ram'.aoff \in Nat
        BY <2>2 DEF Rams
      <4>. QED  BY <4>1
    <3>3. h <= (ram.woff - off) \div 2
      BY <2>2
    <3>4. /\ Count = (ram.synced + ((ram.woff - ram.aoff) \div 2)) + ram.size
          /\ Count' = ((ram.synced + k) + h) + ram.size
      BY <2>2, <2>6 DEF Count
    <3>. HIDE DEF h
    <3>. QED  BY <2>2, <2>7, <3>1, <3>2, <3>3, <3>4, CountMoved
  <2>9. Count' \in Int /\ Count \in Int /\ ram.total \in Nat /\ seen \in Nat /\ ram'.total \in Nat
    <3>1. Count \in Int
      BY <1>1, CountType
    <3>2. Count' \in Int
      <4>1. ram' \in Rams
        BY <2>2
      <4>2. ram'.woff \in Nat /\ ram'.aoff \in Nat /\ ram'.synced \in Nat
        BY <4>1 DEF Rams
      <4>3. ram'.size \in Nat
        BY <4>1, RingFacts
      <4>4. (ram'.woff - ram'.aoff) \div 2 \in Int
        BY <4>2
      <4>. QED  BY <4>2, <4>3, <4>4 DEF Count
    <3>3. ram.total \in Nat /\ seen \in Nat /\ ram'.total \in Nat
      BY <1>1, <2>2 DEF Core, BottleType, Rams
    <3>. QED  BY <3>1, <3>2, <3>3
  <2>10. Count' <= seen
    BY <1>2, <2>8, <2>9
  <2>11. ram'.total = seen
    BY <1>2, <2>2, <2>9, <2>10
  <2>. QED  BY <1>1, <1>2, <2>2, <2>10, <2>11 DEF CountBounded
<1>. QED  BY <1>3, <1>4

(* An id may have been given twice.  If every bottle posted is stored after *)
(* the upload, it was before, and the batch holds no double id: its ids     *)
(* rise and as many events are counted as are dropped.                      *)
LEMMA UploadJournalExact ==
    ASSUME Core, NEW ack \in -1..MaxBottles, UploadJournal(ack), faults \subseteq {"refused", "id"}
    PROVE  /\ Linked(Range(Pend) \cup Queued, stored, received)'
           /\ Filled(Pend, stored, ram.nextId, Settled.nextId)'
           /\ Stored' => Rising(Pend, stored)' /\ CountExact'
<1>. DEFINE evs == Range(Batch)
            b == Len(Batch)
            w == Range(Pend) \cup Queued
            w2 == Range(Pend') \cup Queued
            st2 == Inserted(stored, evs)
            rc2 == received \cup Bottles(evs)
<1>1. /\ Pend \in Seq(Ev) /\ Len(Pend) \in Nat /\ DOMAIN Pend = 1..Len(Pend) /\ b \in 1..Len(Pend)
      /\ evs = {Pend[i] : i \in 1..b} /\ evs \subseteq Range(Pend)
      /\ BatchIds \in Seq(Nat) /\ Len(BatchIds) = b
      /\ \A i \in 1..b : BatchIds[i] = Pend[i].id
  BY BatchPend
<1>2. /\ evs \in SUBSET Ev /\ Queued' = Queued /\ received' = rc2 /\ stored' = st2
      /\ stored \in SUBSET Ev /\ st2 \in SUBSET Ev /\ stored \subseteq st2
      /\ Bottles(stored) \subseteq received
      /\ Ids(stored) \subseteq Ids(st2) /\ Ids(evs) \subseteq Ids(st2)
  BY UploadJournalBasics
<1>3. /\ Settled = disk /\ disk \in Disks /\ ram \in Rams /\ seen' = seen /\ canRead(ram)
  BY UploadJournalEffect
<1>4. /\ Range(Pend) \in SUBSET Ev /\ Queued \in SUBSET Ev
      /\ \A i, j \in 1..Len(Pend) : i < j => Pend[i].bottle < Pend[j].bottle
  BY WaitingType DEF Core
<1>5. "short" \notin faults
  OBVIOUS
<1>6. /\ Pend' \in Seq(Ev)
      /\ \E k \in 0..b :
            /\ Dropped(Pend, Pend', k)
            /\ \/ k = 0 /\ ram' = ram /\ Settled' = disk
               \/ /\ k \in 1..b
                  /\ \E n \in 1..b, off \in Nat : Moved(n, k, off) /\ off = ram.aoff + 2 * k
  BY <1>5, UploadJournalDrop
<1>7. PICK k \in 0..b :
            /\ Dropped(Pend, Pend', k)
            /\ \/ k = 0 /\ ram' = ram /\ Settled' = disk
               \/ /\ k \in 1..b
                  /\ \E n \in 1..b, off \in Nat : Moved(n, k, off) /\ off = ram.aoff + 2 * k
  BY <1>6
<1>8. /\ Linked(w, stored, received)
      /\ Filled(Pend, stored, ram.nextId, Settled.nextId)
      /\ Stored => Rising(Pend, stored) /\ CountExact
  BY DEF Core
<1>. HIDE DEF b
<1>9. b \in 0..Len(Pend) /\ k \in 0..Len(Pend)
  BY <1>1, <1>7
<1>10. Range(Pend') \subseteq Range(Pend)
  BY <1>1, <1>6, <1>7, <1>9, DroppedRange
<1>11. w \in SUBSET Ev /\ evs \in SUBSET w /\ w2 \in SUBSET w
  BY <1>1, <1>4, <1>10
<1>12. Linked(w2, st2, rc2)
  <2>. HIDE DEF w, w2, evs
  <2>. QED  BY <1>2, <1>8, <1>11, LinkedUpload
<1>13. rc2 = Bottles(st2) =>
          /\ received = Bottles(stored)
          /\ Faithful(evs, st2)
  <2>1. SUFFICES ASSUME rc2 = Bottles(st2)
                 PROVE  /\ received = Bottles(stored)
                        /\ Faithful(evs, st2)
    OBVIOUS
  <2>. HIDE DEF w, w2, evs
  <2>. QED  BY <2>1, <1>2, <1>8, <1>11, LinkedStored
<1>. HIDE DEF st2, rc2, w, w2
<1>15. ram.nextId \in Nat /\ Settled.nextId \in Nat /\ disk.nextId \in Nat
  BY <1>3 DEF Rams, Disks
<1>16. ram'.nextId = ram.nextId /\ Settled'.nextId \in {Settled.nextId, ram.nextId}
  BY <1>3, <1>7 DEF Moved
<1>17. Filled(Pend', st2, ram.nextId, Settled'.nextId)
  <2>1. Filled(Pend, stored, ram.nextId, Settled'.nextId)
    BY <1>1, <1>8, <1>15, <1>16, FilledLater
  <2>2. \A i \in 1..k : Pend[i].id \in Ids(st2)
    <3>1. \A i \in 1..k : i \in 1..b
      BY <1>1, <1>7
    <3>2. \A i \in 1..k : Pend[i].id \in Ids(evs)
      BY <3>1, <1>1 DEF Ids
    <3>. QED  BY <3>2, <1>2
  <2>3. Settled'.nextId \in Nat
    BY <1>15, <1>16
  <2>. QED  BY <2>1, <2>2, <2>3, <1>1, <1>2, <1>6, <1>7, <1>9, <1>15, FilledDrop
<1>18. ASSUME rc2 = Bottles(st2)
       PROVE  /\ Rising(Pend', st2)
              /\ CountExact
              /\ \A i, j \in 1..b : i < j => Pend[i].id < Pend[j].id
  <2>1. Stored
    BY <1>13, <1>18 DEF Stored
  <2>2. Rising(Pend, stored) /\ CountExact
    BY <2>1, <1>8
  <2>3. Faithful(evs, st2)
    BY <1>13, <1>18
  <2>. HIDE DEF evs
  <2>4. Rising(Pend', st2) /\ Ascending(Pend, b)
    <3>1. Climbing(Pend)
      BY <1>4 DEF Climbing
    <3>2. evs = Foremost(Pend, b)
      BY <1>1 DEF Foremost
    <3>3. /\ Pend \in Seq(Ev) /\ Pend' \in Seq(Ev) /\ b \in 0..Len(Pend) /\ k \in 0..b
          /\ Dropped(Pend, Pend', k) /\ Climbing(Pend) /\ stored \subseteq st2
          /\ evs = Foremost(Pend, b) /\ Faithful(evs, st2) /\ Rising(Pend, stored)
      BY <2>2, <2>3, <3>1, <3>2, <1>1, <1>2, <1>6, <1>7, <1>9
    <3>. QED  BY <3>3, RisingDrop
  <2>. QED  BY <2>2, <2>4 DEF Ascending
<1>19. ASSUME rc2 = Bottles(st2) PROVE CountExact'
  <2>1. /\ Count = seen /\ ram.total <= seen /\ Settled.total <= seen
        /\ (ram.mounted => ram.total = seen)
    BY <1>18, <1>19 DEF CountExact
  <2>2. CASE ram' = ram /\ Settled' = disk
    BY <2>1, <2>2, <1>3 DEF CountExact, Count
  <2>3. CASE /\ k \in 1..b
             /\ \E n \in 1..b, off \in Nat : Moved(n, k, off) /\ off = ram.aoff + 2 * k
    <3>1. PICK n \in 1..b, off \in Nat : Moved(n, k, off) /\ off = ram.aoff + 2 * k
      BY <2>3
    <3>2. /\ n = countAckedInBatch(BatchIds[k], BatchIds) /\ off <= ram.woff
          /\ Settled'.total = ram'.total /\ ram'.mounted = ram.mounted
          /\ ram'.synced = ram.synced + n /\ ram'.size = ram.size
          /\ Whole(disk.file, ram.woff) =>
                (ram'.woff - ram'.aoff) \div 2 = (ram.woff - off) \div 2
          /\ ram'.total >= ram.total
          /\ ram'.total = ram.total \/ ram'.total <= Count'
          /\ ram' \in Rams
      BY <3>1 DEF Moved
    <3>3. n = k
      <4>1. \A i, j \in 1..b : i < j => BatchIds[i] < BatchIds[j]
        BY <1>1, <1>18, <1>19
      <4>. QED  BY <4>1, <2>3, <3>2, <1>1, AckedRising
    <3>4. Whole(disk.file, ram.woff)
      BY <1>3, <1>5 DEF Core, Shape
    <3>5. /\ ram.synced \in Nat /\ ram.size \in Nat /\ ram.aoff \in Nat /\ ram.woff \in Nat
          /\ ram.total \in Nat
      BY <1>3, CountType
    <3>6. k \in Nat /\ ram.aoff + 2 * k <= ram.woff
      BY <1>1, <1>7, <3>1, <3>2
    <3>7. Count' = Count
      <4>1. Count' = ((ram.synced + k) + ((ram.woff - (ram.aoff + 2 * k)) \div 2)) + ram.size
        BY <3>1, <3>2, <3>3, <3>4 DEF Count
      <4>2. Count = (ram.synced + ((ram.woff - ram.aoff) \div 2)) + ram.size
        BY DEF Count
      <4>. QED  BY <4>1, <4>2, <3>5, <3>6, CountAligned
    <3>8. ram.total = seen
      BY <2>1, <1>3 DEF canRead
    <3>9. ram'.total \in Nat /\ seen \in Nat
      BY <3>2, <1>3 DEF Rams, Core, BottleType
    <3>10. ram'.total = seen
      BY <3>2, <3>7, <3>8, <3>9, <2>1
    <3>11. seen <= seen
      BY <3>9
    <3>. QED  BY <3>2, <3>7, <3>10, <3>11, <2>1, <1>3 DEF CountExact
  <2>. QED  BY <2>2, <2>3, <1>7
<1>20. Linked(Range(Pend) \cup Queued, stored, received)'
  BY <1>2, <1>12 DEF w2
<1>21. Filled(Pend, stored, ram.nextId, Settled.nextId)'
  BY <1>2, <1>16, <1>17
<1>22. Stored' <=> rc2 = Bottles(st2)
  BY <1>2 DEF Stored
<1>23. Rising(Pend, stored)' <=> Rising(Pend', st2)
  BY <1>2
<1>. QED  BY <1>18, <1>19, <1>20, <1>21, <1>22, <1>23

LEMMA UploadJournalCore ==
    ASSUME Core, NEW ack \in -1..MaxBottles, UploadJournal(ack)
    PROVE  Core'
<1>1. BottleType' /\ Agree' /\ Shape' /\ (Sound => Sound')
  BY UploadJournalBasics
<1>2. faults' = faults
  BY UploadJournalEffect
<1>3. "id" \notin faults => Sound
  BY DEF Core
<1>4. faults \cap {"ring", "short", "overwritten"} = {} => Kept'
  <2>1. SUFFICES ASSUME faults \cap {"ring", "short", "overwritten"} = {} PROVE Kept'
    OBVIOUS
  <2>2. "short" \notin faults /\ Kept
    BY <2>1 DEF Core
  <2>. QED  BY <2>2, UploadJournalKept
<1>5. faults \subseteq {"refused", "overwritten", "short"} => CountBounded'
  <2>1. SUFFICES ASSUME faults \subseteq {"refused", "overwritten", "short"} PROVE CountBounded'
    OBVIOUS
  <2>2. Sound /\ CountBounded
    BY <2>1, <1>3 DEF Core
  <2>. QED  BY <2>2, UploadJournalBounded
<1>6. ASSUME faults \subseteq {"refused", "id"}
      PROVE  /\ Linked(Range(Pend) \cup Queued, stored, received)'
             /\ Filled(Pend, stored, ram.nextId, Settled.nextId)'
             /\ Stored' => Rising(Pend, stored)' /\ CountExact'
  BY <1>6, UploadJournalExact
<1>. QED  BY <1>1, <1>2, <1>3, <1>4, <1>5, <1>6 DEF Core

-----------------------------------------------------------------------------
(* The invariant holds at the first boot and every step keeps it.           *)

LEMMA BottleInit == Init => Core
<1>. SUFFICES ASSUME Init PROVE Core
  OBVIOUS
<1>. USE BottleNat
<1>1. /\ disk = Disk0 /\ todo = <<>> /\ ram = Ram0 /\ seen = 0
      /\ received = {} /\ stored = {} /\ faults = {}
  BY DEF Init
<1>2. IsWrites(todo)
  BY <1>1 DEF IsWrites
<1>3. disk = [x \in DOMAIN disk |-> disk[x]]
  BY <1>1 DEF Disk0
<1>4. Settled = Disk0
  <2>1. WriteAll(disk, <<>>) = disk
    BY <1>3, WriteAllNone
  <2>. QED  BY <1>1, <2>1 DEF Settled
<1>5. /\ RingSize \in Nat \ {0} /\ Disk0.ring \in Rings
      /\ \A i \in 0..(RingSize - 1) : Disk0.ring[i] = NoEvent
  BY BottleAssumption DEF Disk0, Rings, Ev, NoEvent
<1>6. Disk0.file = <<>> /\ <<>> \in Files
  BY DEF Disk0, NoFile, Files
<1>7. Disk0 \in Disks
  <2>1. 0 \in 0..(RingSize - 1) /\ 0 \in 0..RingSize
    BY <1>5
  <2>. QED  BY <2>1, <1>5, <1>6 DEF Disk0, Disks, NoFile
<1>8. Ram0 \in Rams
  <2>1. 0 \in 0..(RingSize - 1) /\ 0 \in 0..RingSize
    BY <1>5
  <2>. QED  BY <2>1, <1>5 DEF Ram0, Rams
<1>9. BottleType
  BY <1>1, <1>2, <1>3, <1>4, <1>5, <1>7, <1>8 DEF BottleType, NoEvent, Disk0, Ram0, Bottles
<1>10. Agree
  BY <1>1, <1>4 DEF Agree, Disk0, Ram0
<1>11. Shape
  <2>1. OrderedUpTo(<<>>, 0)
    BY DEF OrderedUpTo
  <2>2. Whole(<<>>, 0)
    BY DEF Whole
  <2>3. ram.aoff = 0 /\ ram.woff = 0
    BY <1>1 DEF Ram0
  <2>. QED  BY <2>1, <2>2, <2>3, <1>1, <1>4, <1>6 DEF Shape
<1>12. Sound
  <2>1. ram.nextId = 1 /\ ram.ring = Disk0.ring
    BY <1>1 DEF Ram0
  <2>2. Bottles({}) = {}
    BY DEF Bottles
  <2>. QED  BY <2>1, <2>2, <1>1, <1>4, <1>5, <1>6 DEF Sound, NoEvent
<1>13. Kept
  BY <1>1 DEF Kept
<1>14. Count = 0
  <2>1. ram.synced = 0 /\ ram.woff = 0 /\ ram.aoff = 0 /\ ram.size = 0
    BY <1>1 DEF Ram0
  <2>. QED  BY <2>1 DEF Count
<1>15. ram.total = 0 /\ Settled.total = 0 /\ Settled.nextId = 1 /\ ram.nextId = 1
  BY <1>1, <1>4 DEF Ram0, Disk0
<1>16. CountBounded /\ CountExact
  BY <1>1, <1>14, <1>15 DEF CountBounded, CountExact
<1>17. Pend \in Seq(Ev) /\ DOMAIN Pend = {} /\ Range(Pend) = {} /\ Queued = {}
  <2>1. Pend = Events(<<>>, 0, 0)
    BY <1>1, <1>4, <1>6 DEF Pend, Ram0
  <2>2. Good(<<>>, 0, 0) = {}
    BY DEF Good, RECORD_SIZE
  <2>3. Slots(<<>>, 0, 0) = [i \in 1..0 |-> [e |-> (<<>>)[Nth({}, i) + 1].e, next |-> Nth({}, i) + RECORD_SIZE]]
    BY <2>2, FS_EmptySet DEF Slots
  <2>4. DOMAIN Slots(<<>>, 0, 0) = {}
    BY <2>3
  <2>5. DOMAIN Pend = {} /\ Pend = [i \in {} |-> 0]
    BY <2>1, <2>4 DEF Events
  <2>6. Range(Pend) = {}
    BY <2>5 DEF Range
  <2>7. ram.size = 0
    BY <1>1 DEF Ram0
  <2>8. DOMAIN Ring(ram) = {}
    BY <2>7 DEF Ring
  <2>9. Queued = {}
    BY <2>8 DEF Queued, Range
  <2>. QED  BY <2>5, <2>6, <2>9
<1>18. Linked(Range(Pend) \cup Queued, stored, received)
  BY <1>1, <1>17 DEF Linked
<1>19. Filled(Pend, stored, ram.nextId, Settled.nextId)
  BY <1>15, <1>17 DEF Filled
<1>20. Rising(Pend, stored)
  BY <1>17 DEF Rising
<1>. QED  BY <1>9, <1>10, <1>11, <1>12, <1>13, <1>16, <1>18, <1>19, <1>20 DEF Core

LEMMA BottleNext ==
    ASSUME BottleInv, [Next]_vars
    PROVE  BottleInv'
<1>1. CASE UNCHANGED vars
  <2>1. faults' = faults
    BY <1>1 DEF vars
  <2>2. Core' <=> Core
    <3>1. UNCHANGED <<disk, todo, ram, seen, received, stored, faults>>
      BY <1>1 DEF vars
    <3>2. Settled' = Settled
      BY <3>1 DEF Settled
    <3>3. Pend' = Pend /\ Queued' = Queued
      BY <3>1, <3>2 DEF Pend, Queued
    <3>4. /\ BottleType' <=> BottleType
          /\ Agree' <=> Agree
          /\ Shape' <=> Shape
          /\ Sound' <=> Sound
      BY <3>1, <3>2 DEF BottleType, Agree, Shape, Sound
    <3>5. /\ Kept' <=> Kept
          /\ CountBounded' <=> CountBounded
          /\ CountExact' <=> CountExact
          /\ Stored' <=> Stored
      BY <3>1, <3>2, <3>3 DEF Kept, CountBounded, CountExact, Stored, Count
    <3>. QED  BY <3>1, <3>2, <3>3, <3>4, <3>5 DEF Core
  <2>. QED  BY <2>1, <2>2 DEF BottleInv
<1>2. CASE Next
  <2>1. CASE "cut" \in faults
    <3>1. faults \subseteq faults'
      BY <1>2 DEF Next, WriteNext, AddToJournal, AddShort, AddQueued, AddToRing, Upload,
            UploadJournal, UploadQueue, UploadRing, Reconcile, Flush, Restart, Reset
    <3>. QED  BY <2>1, <3>1 DEF BottleInv
  <2>2. CASE Core
    <3>1. CASE WriteNext
      BY <2>2, <3>1, WriteNextCore DEF BottleInv
    <3>2. CASE AddToJournal
      BY <2>2, <3>2, AddToJournalCore DEF BottleInv
    <3>3. CASE AddShort
      <4>1. AddToRing(TRUE)
        BY <3>3 DEF AddShort
      <4>. QED  BY <2>2, <4>1, AddToRingCore DEF BottleInv
    <3>4. CASE AddQueued
      <4>1. AddToRing(FALSE)
        BY <3>4 DEF AddQueued
      <4>. QED  BY <2>2, <4>1, AddToRingCore DEF BottleInv
    <3>5. CASE Upload
      <4>1. PICK ack \in -1..MaxBottles : UploadJournal(ack)
        BY <3>5 DEF Upload
      <4>. QED  BY <2>2, <4>1, UploadJournalCore DEF BottleInv
    <3>6. CASE UploadQueue
      <4>1. PICK ack \in -1..MaxBottles : UploadRing(ack)
        BY <3>6 DEF UploadQueue
      <4>. QED  BY <2>2, <4>1, UploadRingCore DEF BottleInv
    <3>7. CASE Reconcile
      BY <2>2, <3>7, ReconcileCore DEF BottleInv
    <3>8. CASE Flush
      BY <2>2, <3>8, FlushCore DEF BottleInv
    <3>9. CASE Restart
      <4>1. PICK card \in BOOLEAN : Reset(card)
        BY <3>9 DEF Restart
      <4>2. CASE todo = <<>>
        BY <2>2, <4>1, <4>2, ResetCore DEF BottleInv
      <4>3. CASE todo # <<>>
        <5>1. "cut" \in Undone
          BY <4>3 DEF Undone
        <5>2. faults' = faults \cup Undone
          BY <4>1 DEF Reset
        <5>. QED  BY <5>1, <5>2 DEF BottleInv
      <4>. QED  BY <4>2, <4>3
    <3>. QED  BY <1>2, <3>1, <3>2, <3>3, <3>4, <3>5, <3>6, <3>7, <3>8, <3>9 DEF Next
  <2>. QED  BY <2>1, <2>2 DEF BottleInv
<1>. QED  BY <1>1, <1>2

(* What an upload can still reach is what waits in the journal and ring.    *)
LEMMA ReachablePending ==
    ASSUME Core
    PROVE  Reachable = Bottles(Range(Pend) \cup Queued)
<1>. DEFINE s == Slots(Settled.file, ram.aoff, ram.woff)
<1>1. DOMAIN Pend = DOMAIN s /\ \A i \in DOMAIN s : Pend[i] = s[i].e
  BY DEF Pend, Events
<1>2. {x.e.bottle : x \in Range(s)} = Bottles(Range(Pend))
  <2>. HIDE DEF s
  <2>. QED  BY <1>1 DEF Range, Bottles
<1>3. DOMAIN Ring(ram) = 1..ram.size
  BY DEF Ring
<1>4. {Ring(ram)[i].bottle : i \in 1..ram.size} = Bottles(Queued)
  BY <1>3 DEF Queued, Range, Bottles
<1>5. Bottles(Range(Pend) \cup Queued) = Bottles(Range(Pend)) \cup Bottles(Queued)
  BY DEF Bottles
<1>6. Reachable = {x.e.bottle : x \in Range(s)} \cup {Ring(ram)[i].bottle : i \in 1..ram.size}
  BY DEF Reachable
<1>. QED  BY <1>2, <1>4, <1>5, <1>6

LEMMA BottlesFollow == BottleInv => NoneLost /\ TotalExact /\ StoredOnce
<1>. SUFFICES ASSUME BottleInv PROVE NoneLost /\ TotalExact /\ StoredOnce
  OBVIOUS
<1>1. NoneLost
  <2>1. SUFFICES ASSUME faults \cap {"cut", "ring", "short", "overwritten"} = {} PROVE Lost = {}
    BY DEF NoneLost
  <2>2. Core /\ faults \cap {"ring", "short", "overwritten"} = {}
    BY <2>1 DEF BottleInv
  <2>3. Kept
    BY <2>2 DEF Core
  <2>. QED  BY <2>2, <2>3, ReachablePending DEF Kept, Lost
<1>2. TotalExact
  <2>1. ASSUME faults \subseteq {"refused", "overwritten", "short"} PROVE ram.total = seen
    BY <2>1 DEF BottleInv, Core, CountBounded
  <2>2. ASSUME faults \subseteq {"refused", "id"}, ram.mounted,
               received = {e.bottle : e \in stored}
        PROVE  ram.total = seen
    <3>1. Core /\ Stored
      BY <2>2 DEF BottleInv, Stored, Bottles
    <3>. QED  BY <2>2, <3>1 DEF Core, CountExact
  <2>. QED  BY <2>1, <2>2 DEF TotalExact
<1>3. StoredOnce
  <2>1. SUFFICES ASSUME faults \cap {"id", "cut"} = {} PROVE received = {e.bottle : e \in stored}
    BY DEF StoredOnce
  <2>2. Sound
    BY <2>1 DEF BottleInv, Core
  <2>. QED  BY <2>2 DEF Sound, Bottles
<1>. QED  BY <1>1, <1>2, <1>3

LEMMA KioskBottles ==
    ASSUME BottleInv, [KNext]_kvars
    PROVE  BottleInv'
<1>1. [Next]_vars
  BY DEF KNext, kvars
<1>. QED  BY <1>1, BottleNext

(* In every reachable state of the kiosk, unless a reset cut a handler:     *)
(* what a reset would read agrees with RAM, the journal is in order, what   *)
(* was counted is posted or waits, and the total is the count.              *)
THEOREM BottleInvariant == KSpec => []BottleInv
<1>1. KInit => BottleInv
  BY BottleInit DEF KInit, BottleInv
<1>2. BottleInv /\ [KNext]_kvars => BottleInv'
  BY KioskBottles
<1> QED BY <1>1, <1>2, PTL DEF KSpec

(* Whatever the sizes of the ring and of the batches, the threshold of the  *)
(* compaction and how often the totals are persisted: a reset between two   *)
(* handlers loses no bottle, the total shown is the number of bottles, and  *)
(* the server stores each bottle it receives as long as no id was given     *)
(* twice (PglCounter, PglEventJournal, tryUploadBatch).                     *)
THEOREM BottlesKept == KSpec => []BottlesExact
<1>1. BottleInv => BottlesExact
  BY BottlesFollow DEF BottlesExact
<1> QED BY <1>1, BottleInvariant, PTL
=============================================================================
