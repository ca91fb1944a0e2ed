--------------------------- MODULE FeedingProofs ---------------------------
(* Type correctness of Feeding; that no slot, day's dose or command is served *)
(* twice; that no slot is skipped and no command lost; and what an outage may *)
(* cost: for every schedule, cap and number of resets.                       *)
EXTENDS Feeding, TLAPS

FlagNames == {"morning", "noon", "evening", "day", "fed"}

----------------------------------------------------------------------------
(* The operators on the flags.                                               *)

LEMMA Increment ==
    ASSUME NEW S, NEW f \in [S -> Nat], NEW s \in S
    PROVE  /\ [f EXCEPT ![s] = @ + 1] \in [S -> Nat]
           /\ [f EXCEPT ![s] = @ + 1][s] = f[s] + 1
           /\ \A t \in S : t # s => [f EXCEPT ![s] = @ + 1][t] = f[t]
OBVIOUS

LEMMA SlotFacts == Slots = {"morning", "noon", "evening"}
BY DEF Slots, SlotHour

(* checkNewDay and markSlotsDone give flags of today.                        *)
LEMMA NewDayFacts ==
    ASSUME TypeOK
    PROVE  /\ CheckNewDay \in Flags(0..MaxDaily)
           /\ CheckNewDay.day = clock.day
           /\ ram.day = clock.day => CheckNewDay = ram
<1>. DEFINE F == Flags(0..MaxDaily)
<1>1. ram \in F /\ clock.day \in Day /\ clock.day # NoDay
  BY DEF TypeOK, Day, NoDay
<1>2. 0 \in 0..MaxDaily
  BY DoseAssumption
<1>3. ASSUME NEW r \in F  PROVE [r EXCEPT !.day = clock.day] \in F /\ [r EXCEPT !.day = clock.day].day = clock.day
  BY <1>1, <1>3 DEF Flags
<1>4. CASE ram.day = NoDay
  BY <1>1, <1>3, <1>4 DEF CheckNewDay
<1>5. CASE ram.day # NoDay /\ ram.day = clock.day
  BY <1>1, <1>5 DEF CheckNewDay
<1>6. CASE ram.day # NoDay /\ ram.day # clock.day
  <2>1. CheckNewDay = [NoSlotDone(ram) EXCEPT !.day = clock.day, !.fed = 0]
    BY <1>6 DEF CheckNewDay
  <2>2. NoSlotDone(ram) \in F
    BY <1>1 DEF NoSlotDone, Flags
  <2>. QED  BY <2>1, <2>2, <1>1, <1>2, <1>6 DEF Flags
<1>. QED  BY <1>4, <1>5, <1>6

LEMMA MarkFacts ==
    ASSUME NEW S, NEW r \in Flags(S), NEW hs
    PROVE  /\ MarkSlots(r, hs) \in Flags(S)
           /\ MarkSlots(r, hs).day = r.day /\ MarkSlots(r, hs).fed = r.fed
           /\ \A s \in Slots : r[s] => MarkSlots(r, hs)[s]
           /\ \A s \in Slots : SlotHour[s] \in hs => MarkSlots(r, hs)[s]
<1>1. r = [morning |-> r.morning, noon |-> r.noon, evening |-> r.evening, day |-> r.day,
           fed |-> r.fed]
  BY DEF Flags
<1>2. DOMAIN r = FlagNames
  BY <1>1 DEF FlagNames
<1>3. /\ r.morning \in BOOLEAN /\ r.noon \in BOOLEAN /\ r.evening \in BOOLEAN
      /\ r.day \in Day /\ r.fed \in S
  BY DEF Flags
<1>4. MarkSlots(r, hs) =
        [morning |-> r.morning \/ SlotHour["morning"] \in hs,
         noon |-> r.noon \/ SlotHour["noon"] \in hs,
         evening |-> r.evening \/ SlotHour["evening"] \in hs,
         day |-> r.day, fed |-> r.fed]
  BY <1>2, <1>3, SlotFacts DEF MarkSlots, FlagNames
<1>5. MarkSlots(r, hs) \in Flags(S)
  BY <1>3, <1>4 DEF Flags
<1>6. MarkSlots(r, hs).day = r.day /\ MarkSlots(r, hs).fed = r.fed
  BY <1>4
<1>7. \A s \in Slots : r[s] => MarkSlots(r, hs)[s]
  BY <1>1, <1>3, <1>4, SlotFacts
<1>8. ASSUME NEW s \in Slots, SlotHour[s] \in hs  PROVE MarkSlots(r, hs)[s]
  <2>1. s \in DOMAIN r
    BY <1>2, SlotFacts DEF FlagNames
  <2>2. MarkSlots(r, hs)[s] = (r[s] \/ SlotHour[s] \in hs)
    BY <2>1 DEF MarkSlots
  <2>3. r[s] \in BOOLEAN
    BY <1>1, <1>3, SlotFacts
  <2>4. (r[s] \/ SlotHour[s] \in hs) = TRUE
    BY <1>8, <2>3
  <2>. QED  BY <2>2, <2>4
<1>. QED  BY <1>5, <1>6, <1>7, <1>8

LEMMA MarkedFacts ==
    ASSUME NEW S, NEW r \in Flags(S), NEW hs, NEW s \in Slots, MarkSlots(r, hs)[s]
    PROVE  r[s] \/ SlotHour[s] \in hs
<1>1. s \in DOMAIN r
  BY SlotFacts DEF Flags
<1>. QED  BY <1>1 DEF MarkSlots

LEMMA DueFacts ==
    ASSUME Due # {}
    PROVE  DueSlot \in Slots /\ ~SlotDone(DueSlot)
<1>1. Due \subseteq {1, 2, 3}
  BY DEF Due, SlotOrder
<1>2. \E i \in Due : \A j \in Due : i <= j
  <2>1. CASE 1 \in Due
    BY <1>1, <2>1
  <2>2. CASE 1 \notin Due /\ 2 \in Due
    BY <1>1, <2>2
  <2>3. CASE 1 \notin Due /\ 2 \notin Due
    <3>1. 3 \in Due /\ Due \subseteq {3}
      BY <1>1, <2>3
    <3>. QED  BY <3>1
  <2>. QED  BY <2>1, <2>2, <2>3
<1>3. \E i \in Due : DueSlot = SlotOrder[i]
  BY <1>2 DEF DueSlot
<1>. QED  BY <1>1, <1>3, SlotFacts DEF Due, ShouldFeed, SlotOrder

LEMMA SameFlags ==
    ASSUME NEW S, NEW f \in Flags(S), NEW r \in Flags(S),
           \A i \in DOMAIN FlagKeys : f[FlagKeys[i]] = r[FlagKeys[i]]
    PROVE  f = r
<1>1. DOMAIN FlagKeys = 1..5
  BY DEF FlagKeys
<1>2. \A i \in 1..5 : f[FlagKeys[i]] = r[FlagKeys[i]]
  BY <1>1
<1>3. /\ f[FlagKeys[1]] = r[FlagKeys[1]] /\ f[FlagKeys[2]] = r[FlagKeys[2]]
      /\ f[FlagKeys[3]] = r[FlagKeys[3]] /\ f[FlagKeys[4]] = r[FlagKeys[4]]
      /\ f[FlagKeys[5]] = r[FlagKeys[5]]
  BY <1>2
<1>4. /\ f.morning = r.morning /\ f.noon = r.noon /\ f.evening = r.evening
      /\ f.day = r.day /\ f.fed = r.fed
  BY <1>3 DEF FlagKeys
<1>. QED  BY <1>4 DEF Flags

LEMMA SavedFacts ==
    ASSUME TypeOK, FlagsSaved
    PROVE  flash = ram
BY SameFlags DEF TypeOK, FlagsSaved, Unsaved

(* A write brings one flag up to date; the total is the last.                *)
LEMMA WriteFlagFacts ==
    ASSUME TypeOK, WriteFlag
    PROVE  \E k \in FlagNames :
              /\ Unsaved(k)
              /\ flash' = [flash EXCEPT ![k] = ram[k]]
              /\ flash' \in Flags(0..MaxDaily)
              /\ k = "fed" => flash' = ram
<1>1. PICK i \in DOMAIN FlagKeys :
        /\ Unsaved(FlagKeys[i]) /\ \A j \in 1..(i - 1) : ~Unsaved(FlagKeys[j])
        /\ flash' = [flash EXCEPT ![FlagKeys[i]] = ram[FlagKeys[i]]]
  BY DEF WriteFlag
<1>2. i \in 1..5
  BY DEF FlagKeys
<1>3. FlagKeys[i] \in FlagNames
  BY <1>2 DEF FlagKeys, FlagNames
<1>4. flash' \in Flags(0..MaxDaily)
  BY <1>1, <1>3 DEF TypeOK, Flags, FlagNames
<1>5. FlagKeys[i] = "fed" => flash' = ram
  <2>1. SUFFICES ASSUME FlagKeys[i] = "fed" PROVE flash' = ram
    OBVIOUS
  <2>2. i = 5
    BY <2>1, <1>2 DEF FlagKeys
  <2>3. /\ ~Unsaved(FlagKeys[1]) /\ ~Unsaved(FlagKeys[2]) /\ ~Unsaved(FlagKeys[3])
        /\ ~Unsaved(FlagKeys[4])
    BY <1>1, <2>2
  <2>4. \A k \in FlagNames : flash'[k] = ram[k]
    BY <1>1, <2>1, <2>3 DEF Unsaved, FlagKeys, FlagNames, TypeOK, Flags
  <2>. QED  BY <2>4, <1>4 DEF TypeOK, Flags, FlagNames
<1>. QED  BY <1>1, <1>3, <1>4, <1>5

LEMMA CountFacts ==
    ASSUME TypeOK
    PROVE  \A c \in Channels :
              /\ NewExecuted[c] \in Nat
              /\ c \in ToServe => exec[c] < NewExecuted[c] /\ NewExecuted[c] <= server[c]
              /\ c \notin ToServe => NewExecuted[c] >= exec[c] \/ NewExecuted[c] >= server[c]
<1>1. SUFFICES ASSUME NEW c \in Channels
               PROVE  /\ NewExecuted[c] \in Nat
                      /\ c \in ToServe => exec[c] < NewExecuted[c] /\ NewExecuted[c] <= server[c]
                      /\ c \notin ToServe => NewExecuted[c] >= exec[c] \/ NewExecuted[c] >= server[c]
  OBVIOUS
<1>2. exec[c] \in Nat /\ server[c] \in Nat /\ MaxCatchup \in Nat \ {0}
  BY DoseAssumption DEF TypeOK
<1>3. /\ Executed(c) \in Nat
      /\ Executed(c) <= server[c] \/ Executed(c) = exec[c]
      /\ Executed(c) >= exec[c] \/ Executed(c) >= server[c]
      /\ Executed(c) < server[c] => Executed(c) >= exec[c]
  <2>1. CASE server[c] < exec[c]
    BY <1>2, <2>1 DEF Executed
  <2>2. CASE ~(server[c] < exec[c]) /\ server[c] - exec[c] > MaxCatchup
    BY <1>2, <2>2 DEF Executed
  <2>3. CASE ~(server[c] < exec[c]) /\ ~(server[c] - exec[c] > MaxCatchup)
    BY <1>2, <2>3 DEF Executed
  <2>. QED  BY <2>1, <2>2, <2>3
<1>4. c \in ToServe => server[c] > Executed(c)
  BY DEF ToServe
<1>5. NewExecuted[c] = Executed(c) + (IF c \in ToServe THEN 1 ELSE 0)
  BY DEF NewExecuted
<1>. QED  BY <1>2, <1>3, <1>4, <1>5

LEMMA ServedFacts ==
    ASSUME NEW fed, ServeChannels(fed), fed \in SUBSET Channels
    PROVE  fed \subseteq ToServe
BY DEF ServeChannels

----------------------------------------------------------------------------
(* Types.                                                                    *)

LEMMA TypeStep == TypeOK /\ [Next]_vars => TypeOK'
<1>. SUFFICES ASSUME TypeOK, [Next]_vars  PROVE TypeOK'
  OBVIOUS
<1>. USE DoseAssumption, ScheduleAssumption, BoundAssumption
<1>1. CASE WriteFlag
  <2>1. flash' \in Flags(0..MaxDaily)
    BY <1>1, WriteFlagFacts
  <2>2. task' \in {"idle", "missed", "feed", "mark", "cancel", "seed", "poll"}
    BY <1>1 DEF WriteFlag, TypeOK
  <2>3. UNCHANGED <<clock, ram, counters, settled, cycle, web, server, meals, commands, resets>>
    BY <1>1 DEF WriteFlag
  <2>. QED  BY <2>1, <2>2, <2>3 DEF TypeOK, counters, cycle, meals, commands
<1>2. CASE SmallFishTimer
  BY <1>2 DEF SmallFishTimer, TypeOK, device, counters, meals, commands
<1>3. CASE FinalizeFeeding
  BY <1>3 DEF FinalizeFeeding, TypeOK, device, counters, meals, commands
<1>4. CASE WebTest
  BY <1>4 DEF WebTest, TypeOK, device, counters, cycle, meals, commands
<1>5. CASE WebFeed
  BY <1>5 DEF WebFeed, TypeOK, device, counters, meals, commands
<1>6. CASE PassStart
  BY <1>6, NewDayFacts DEF PassStart, TypeOK, counters, cycle, meals, commands
<1>7. CASE HandleMissedSlots
  <2>1. ram' \in Flags(0..MaxDaily)
    BY <1>7, MarkFacts DEF HandleMissedSlots, TypeOK
  <2>. QED  BY <1>7, <2>1 DEF HandleMissedSlots, TypeOK, counters, cycle, meals, commands
<1>8. CASE NothingDue
  BY <1>8 DEF NothingDue, TypeOK, counters, cycle, meals, commands
<1>9. ASSUME NEW m \in Meals, CancelMeal(m)  PROVE TypeOK'
  <2>1. ram' \in Flags(0..MaxDaily)
    BY <1>9, MarkFacts DEF CancelMeal, TypeOK
  <2>. QED  BY <1>9, <2>1, DueFacts DEF CancelMeal, TypeOK, counters, cycle, commands
<1>10. ASSUME NEW m \in Meals, Feed(m)  PROVE TypeOK'
  <2>1. Capped(m) \in Nat
    BY DEF Capped
  <2>2. ram.fed + Capped(m) \in 0..MaxDaily
    <3>1. ram.fed \in 0..MaxDaily
      BY DEF TypeOK, Flags
    <3>2. ~(ram.fed + Capped(m) > MaxDaily)
      BY <1>10 DEF Feed, OverDailyCap
    <3>. QED  BY <2>1, <3>1, <3>2
  <2>3. [ram EXCEPT !.fed = @ + Capped(m)] \in Flags(0..MaxDaily)
    BY <2>2 DEF TypeOK, Flags
  <2>4. ram' \in Flags(0..MaxDaily)
    BY <1>10, <2>3, MarkFacts DEF Feed
  <2>5. fedToday' \in [Slots -> Nat] /\ dose' \in Nat
    <3>1. fedToday' = [fedToday EXCEPT ![DueSlot] = @ + 1] /\ DueSlot \in Slots
      BY <1>10, DueFacts DEF Feed
    <3>2. fedToday' \in [Slots -> Nat]
      BY <3>1, Increment DEF TypeOK
    <3>3. dose' = dose + Capped(m) /\ dose \in Nat
      BY <1>10 DEF Feed, TypeOK
    <3>. QED  BY <2>1, <3>2, <3>3
  <2>6. phase' = "sequence" /\ seq' \in BOOLEAN
    BY <1>10 DEF Feed, FeedSequential
  <2>. QED  BY <1>10, <2>4, <2>5, <2>6 DEF Feed, TypeOK, counters, commands
<1>11. CASE SeedCounters
  <2>1. issued' \in [Channels -> Nat]
    BY <1>11 DEF SeedCounters, Zero
  <2>. QED  BY <1>11, <2>1 DEF SeedCounters, TypeOK, cycle, meals
<1>12. CASE WriteSeeded
  BY <1>12 DEF WriteSeeded, TypeOK, cycle, meals, commands
<1>13. CASE ResolveCommands
  <2>1. target' \in [Channels -> Nat]
    BY <1>13, CountFacts DEF ResolveCommands, NewExecuted
  <2>2. givenUp' \in [Channels -> Nat]
    <3>1. \A c \in Channels : exec[c] \in Nat /\ server[c] \in Nat /\ givenUp[c] \in Nat
      BY DEF TypeOK
    <3>. QED  BY <1>13, <3>1 DEF ResolveCommands
  <2>3. PICK fed \in SUBSET Channels :
          /\ ServeChannels(fed)
          /\ cmdFed' = [c \in Channels |-> cmdFed[c] + (IF c \in fed THEN 1 ELSE 0)]
          /\ sinceIssue' = [c \in Channels |-> sinceIssue[c] + (IF c \in fed THEN 1 ELSE 0)]
          /\ served' = fed
    BY <1>13 DEF ResolveCommands
  <2>4. cmdFed' \in [Channels -> Nat] /\ sinceIssue' \in [Channels -> Nat]
    <3>1. \A c \in Channels : cmdFed[c] \in Nat /\ sinceIssue[c] \in Nat
      BY DEF TypeOK
    <3>. QED  BY <2>3, <3>1
  <2>5. seq' \in BOOLEAN /\ phase' \in {"none", "single", "sequence"}
    BY <2>3 DEF ServeChannels, FeedSequential, TypeOK, cycle
  <2>6. task' \in {"idle", "poll"}
    BY <1>13 DEF ResolveCommands
  <2>7. served' \subseteq Channels
    BY <2>3
  <2>8. UNCHANGED <<clock, flash, ram, exec, seeded, settled, web, server, meals, issued, refed, resets>>
    BY <1>13 DEF ResolveCommands
  <2>. QED  BY <2>1, <2>2, <2>4, <2>5, <2>6, <2>7, <2>8 DEF TypeOK, meals
<1>14. CASE NextHour
  <2>1. clock' \in [day : 0..MaxDays, hour : 0..HoursPerDay - 1]
    <3>1. /\ clock = [day |-> clock.day, hour |-> clock.hour]
          /\ clock.day \in 0..MaxDays /\ clock.hour \in 0..HoursPerDay - 1
      BY DEF TypeOK
    <3>2. CASE clock.hour + 1 < HoursPerDay
      <4>1. clock' = [clock EXCEPT !.hour = @ + 1]
        BY <1>14, <3>2 DEF NextHour
      <4>. QED  BY <4>1, <3>1, <3>2
    <3>3. CASE ~(clock.hour + 1 < HoursPerDay)
      <4>1. clock' = [day |-> clock.day + 1, hour |-> 0] /\ clock.day < MaxDays
        BY <1>14, <3>3 DEF NextHour
      <4>. QED  BY <4>1, <3>1
    <3>. QED  BY <3>2, <3>3
  <2>2. /\ fedToday' \in [Slots -> Nat] /\ {dose', unsaved'} \subseteq Nat
        /\ cancelled' \subseteq Slots
    BY <1>14 DEF NextHour, TypeOK, meals
  <2>. QED  BY <1>14, <2>1, <2>2 DEF NextHour, TypeOK, device, counters, cycle, commands
<1>15. CASE GraceEnds
  BY <1>15 DEF GraceEnds, TypeOK, counters, cycle, meals, commands
<1>16. CASE Reset
  <2>1. unsaved' \in Nat /\ refed' \in [Channels -> Nat] /\ resets' \in Nat
    <3>1. /\ unsaved \in Nat /\ resets \in Nat
          /\ \A c \in Channels : refed[c] \in Nat
      BY DEF TypeOK
    <3>2. refed' \in [Channels -> Nat]
      BY <1>16, <3>1 DEF Reset
    <3>. QED  BY <1>16, <3>1, <3>2 DEF Reset
  <2>2. /\ ram' = flash /\ target' = exec /\ task' = "idle" /\ settled' = FALSE
        /\ phase' = "none" /\ seq' = FALSE /\ web' = "idle" /\ served' = {}
    BY <1>16 DEF Reset
  <2>3. UNCHANGED <<clock, flash, exec, seeded, server, fedToday, dose, cancelled, issued,
                    cmdFed, sinceIssue, givenUp>>
    BY <1>16 DEF Reset
  <2>. QED  BY <2>1, <2>2, <2>3 DEF TypeOK
<1>17. ASSUME NEW c \in Channels, WriteCounter(c)  PROVE TypeOK'
  <2>1. exec' \in [Channels -> Nat]
    BY <1>17 DEF WriteCounter, TypeOK
  <2>2. task' \in {"idle", task} /\ served' \in {{}, served}
    BY <1>17 DEF WriteCounter
  <2>. QED  BY <1>17, <2>1, <2>2 DEF WriteCounter, TypeOK, cycle, meals
<1>18. ASSUME NEW c \in Channels, Issue(c)  PROVE TypeOK'
  <2>1. server \in [Channels -> Nat] /\ issued \in [Channels -> Nat]
        /\ sinceIssue \in [Channels -> Nat]
    BY DEF TypeOK
  <2>2. server' \in [Channels -> Nat]
    BY <1>18, <2>1, Increment DEF Issue
  <2>3. issued' \in [Channels -> Nat]
    BY <1>18, <2>1, Increment DEF Issue
  <2>4. sinceIssue' \in [Channels -> Nat]
    BY <1>18, <2>1 DEF Issue
  <2>5. UNCHANGED <<clock, device, cycle, web, meals, cmdFed, served, refed, givenUp, resets>>
    BY <1>18 DEF Issue
  <2>. QED  BY <2>2, <2>3, <2>4, <2>5 DEF TypeOK, device, counters, cycle, meals
<1>19. CASE UNCHANGED vars
  BY <1>19 DEF vars, TypeOK, device, counters, cycle, meals, commands
<1>. QED
  BY <1>1, <1>2, <1>3, <1>4, <1>5, <1>6, <1>7, <1>8, <1>9, <1>10, <1>11, <1>12, <1>13, <1>14,
     <1>15, <1>16, <1>17, <1>18, <1>19 DEF Next

LEMMA TypeInit == Init => TypeOK
<1>. SUFFICES ASSUME Init  PROVE TypeOK
  OBVIOUS
<1>1. {Zero, issued, cmdFed, refed, sinceIssue, server} \subseteq [Channels -> Nat]
  BY DEF Init, Zero
<1>2. exec \in [Channels -> Nat]
  <2>1. [small |-> 1, big |-> 0] \in [Channels -> Nat]
    BY DEF Channels
  <2>. QED  BY <1>1, <2>1 DEF Init
<1>3. ram \in Flags(0..MaxDaily)
  BY DoseAssumption DEF Init, Flags, Day, NoDay
<1>4. clock \in [day : 0..MaxDays, hour : 0..HoursPerDay - 1]
  BY ScheduleAssumption, BoundAssumption DEF Init
<1>5. fedToday \in [Slots -> Nat]
  BY DEF Init
<1>6. {flash, ram} \subseteq Flags(0..MaxDaily) /\ {exec, target, server} \subseteq [Channels -> Nat]
  BY <1>1, <1>2, <1>3 DEF Init
<1>7. {issued, cmdFed, refed, sinceIssue, givenUp} \subseteq [Channels -> Nat]
  BY <1>1, <1>2 DEF Init
<1>8. /\ task = "idle" /\ {seeded, settled, seq} \subseteq BOOLEAN
      /\ phase = "none" /\ web = "idle"
  BY DEF Init
<1>9. dose = 0 /\ unsaved = 0 /\ resets = 0 /\ cancelled = {} /\ served = {}
  BY DEF Init
<1>. QED  BY <1>4, <1>5, <1>6, <1>7, <1>8, <1>9 DEF TypeOK

(* Every variable keeps its type; in particular the total fed in a day, in   *)
(* RAM and in flash, never exceeds MaxDaily.                                 *)
THEOREM TypeCorrect == Spec => []TypeOK
BY TypeInit, TypeStep, PTL DEF Spec

----------------------------------------------------------------------------
(* Where the automation task is: what is saved, and since which day.         *)

ControlInv ==
    /\ task \in {"missed", "feed", "mark", "cancel"} => ram.day = clock.day
    /\ task \in {"idle", "seed", "poll"} => flash = ram
    /\ task = "mark" => Unsaved("fed")
    /\ task \notin {"seed", "poll"} => CountersSaved
    /\ task # "poll" => served = {}

(* The steps that touch nothing the invariants are about.                    *)
Bystander ==
    SmallFishTimer \/ FinalizeFeeding \/ WebTest \/ WebFeed \/ GraceEnds \/ UNCHANGED vars

LEMMA BystanderFacts ==
    ASSUME Bystander
    PROVE  UNCHANGED <<clock, flash, ram, exec, seeded, target, task, server, meals, commands>>
BY DEF Bystander, SmallFishTimer, FinalizeFeeding, WebTest, WebFeed, GraceEnds, vars, device,
       counters

(* A write of a flag, with the task it leads to.                             *)
LEMMA WriteFlagTask ==
    ASSUME TypeOK, ControlInv, WriteFlag
    PROVE  /\ task \in {"missed", "feed", "mark", "cancel"}
           /\ task' \in {task, "idle"}
           /\ task' = "idle" => flash' = ram
           /\ task' = "mark" => task = "mark" /\ flash'.fed # ram.fed
           /\ flash'.fed = ram.fed /\ flash.fed # ram.fed => flash' = ram
<1>1. PICK k \in FlagNames :
        /\ Unsaved(k)
        /\ flash' = [flash EXCEPT ![k] = ram[k]]
        /\ flash' \in Flags(0..MaxDaily)
        /\ k = "fed" => flash' = ram
  BY WriteFlagFacts
<1>2. flash # ram
  BY <1>1 DEF Unsaved
<1>3. task \in {"missed", "feed", "mark", "cancel"}
  BY <1>2 DEF ControlInv, TypeOK
<1>4. task' = IF task \in {"mark", "cancel"} /\ FlagsSaved' THEN "idle" ELSE task
  BY DEF WriteFlag
<1>5. ram' = ram
  BY DEF WriteFlag
<1>6. FlagsSaved' => flash' = ram
  <2>. SUFFICES ASSUME FlagsSaved'  PROVE flash' = ram
    OBVIOUS
  <2>1. \A i \in DOMAIN FlagKeys : flash'[FlagKeys[i]] = ram[FlagKeys[i]]
    BY <1>5 DEF FlagsSaved, Unsaved
  <2>2. ram \in Flags(0..MaxDaily)
    BY DEF TypeOK
  <2>. QED  BY <1>1, <2>1, <2>2, SameFlags
<1>7. flash' = ram => FlagsSaved'
  BY <1>5 DEF FlagsSaved, Unsaved
<1>8. k # "fed" => flash'.fed = flash.fed
  BY <1>1 DEF TypeOK, Flags, FlagNames
<1>9. task' = "mark" => task = "mark" /\ flash'.fed # ram.fed
  <2>1. task' = "mark" => task = "mark" /\ ~FlagsSaved'
    BY <1>3, <1>4
  <2>2. task = "mark" => flash.fed # ram.fed
    BY DEF ControlInv, Unsaved
  <2>. QED  BY <2>1, <2>2, <1>1, <1>7, <1>8
<1>. QED  BY <1>1, <1>3, <1>4, <1>6, <1>8, <1>9

LEMMA ControlStep == TypeOK /\ ControlInv /\ [Next]_vars => ControlInv'
<1>. SUFFICES ASSUME TypeOK, ControlInv, [Next]_vars  PROVE ControlInv'
  OBVIOUS
<1>1. CASE WriteFlag
  <2>1. UNCHANGED <<clock, ram, exec, target, served>>
    BY <1>1 DEF WriteFlag, counters, commands
  <2>. QED  BY <1>1, <2>1, WriteFlagTask DEF ControlInv, Unsaved, CountersSaved
<1>2. CASE PassStart
  <2>1. CheckNewDay.day = clock.day
    BY NewDayFacts
  <2>. QED  BY <1>2, <2>1 DEF PassStart, Free, ControlInv, CountersSaved, counters, commands
<1>3. CASE HandleMissedSlots
  <2>1. ram'.day = ram.day
    BY <1>3, MarkFacts DEF HandleMissedSlots, TypeOK
  <2>. QED  BY <1>3, <2>1 DEF HandleMissedSlots, ControlInv, CountersSaved, counters, commands
<1>4. CASE NothingDue
  BY <1>4, SavedFacts DEF NothingDue, ControlInv, CountersSaved, counters, commands
<1>5. ASSUME NEW m \in Meals, CancelMeal(m)  PROVE ControlInv'
  <2>1. ram'.day = ram.day
    BY <1>5, MarkFacts DEF CancelMeal, TypeOK
  <2>. QED  BY <1>5, <2>1 DEF CancelMeal, ControlInv, CountersSaved, counters, commands
<1>6. ASSUME NEW m \in Meals, Feed(m)  PROVE ControlInv'
  <2>. DEFINE r == [ram EXCEPT !.fed = @ + Capped(m)]
  <2>1. Capped(m) \in Nat \ {0}
    BY DoseAssumption DEF Capped
  <2>2. ram.fed \in Nat /\ ram \in Flags(0..MaxDaily)
    BY DEF TypeOK, Flags
  <2>3. r \in Flags(Nat) /\ r.fed = ram.fed + Capped(m) /\ r.day = ram.day
    BY <2>1, <2>2, DoseAssumption DEF Flags
  <2>4. ram' = MarkSlots(r, {SlotHour[DueSlot]})
    BY <1>6 DEF Feed
  <2>. HIDE DEF r
  <2>5. ram'.fed = ram.fed + Capped(m) /\ ram'.day = ram.day
    BY <2>3, <2>4, MarkFacts
  <2>6. flash = ram /\ flash' = flash
    BY <1>6, SavedFacts DEF Feed
  <2>7. flash'.fed # ram'.fed
    BY <2>1, <2>2, <2>5, <2>6
  <2>. QED  BY <1>6, <2>5, <2>7 DEF Feed, ControlInv, Unsaved, CountersSaved, counters, commands
<1>7. CASE SeedCounters
  BY <1>7 DEF SeedCounters, Free, ControlInv
<1>8. CASE WriteSeeded
  BY <1>8 DEF WriteSeeded, ControlInv, CountersSaved, commands
<1>9. CASE ResolveCommands
  <2>1. PICK fed \in SUBSET Channels : ServeChannels(fed) /\ served' = fed
    BY <1>9 DEF ResolveCommands
  <2>2. target' = NewExecuted /\ exec' = exec
    BY <1>9 DEF ResolveCommands
  <2>3. target' = exec => served' = {}
    <3>1. SUFFICES ASSUME NEW c \in served', target' = exec  PROVE FALSE
      OBVIOUS
    <3>2. c \in Channels /\ c \in ToServe
      BY <2>1, <3>1, ServedFacts
    <3>3. exec[c] < NewExecuted[c] /\ exec[c] \in Nat /\ NewExecuted[c] \in Nat
      BY <3>2, CountFacts DEF TypeOK
    <3>. QED  BY <2>2, <3>1, <3>3
  <2>4. task' = IF target' = exec THEN "idle" ELSE "poll"
    BY <1>9 DEF ResolveCommands
  <2>5. flash' = flash /\ ram' = ram /\ flash = ram
    BY <1>9 DEF ResolveCommands, Free, ControlInv
  <2>. QED  BY <2>2, <2>3, <2>4, <2>5 DEF ControlInv, CountersSaved
<1>10. CASE NextHour
  BY <1>10 DEF NextHour, Free, ControlInv, CountersSaved, device, counters, commands
<1>11. CASE Reset
  BY <1>11 DEF Reset, ControlInv, CountersSaved
<1>12. ASSUME NEW c \in Channels, WriteCounter(c)  PROVE ControlInv'
  <2>1. target[c] # exec[c] /\ target' = target /\ flash' = flash /\ ram' = ram
    BY <1>12 DEF WriteCounter
  <2>2. task \in {"seed", "poll"}
    BY <2>1 DEF ControlInv, CountersSaved
  <2>3. \/ task = "poll" /\ target = exec' /\ task' = "idle" /\ served' = {}
        \/ ~(task = "poll" /\ target = exec') /\ task' = task /\ served' = served
    <3>1. CASE task = "poll" /\ target = exec'
      BY <1>12, <3>1 DEF WriteCounter
    <3>2. CASE ~(task = "poll" /\ target = exec')
      BY <1>12, <3>2 DEF WriteCounter
    <3>. QED  BY <3>1, <3>2
  <2>. QED  BY <2>1, <2>2, <2>3 DEF ControlInv, CountersSaved
<1>13. ASSUME NEW c \in Channels, Issue(c)  PROVE ControlInv'
  BY <1>13 DEF Issue, Free, ControlInv, Unsaved, CountersSaved, device, counters
<1>14. CASE Bystander
  BY <1>14, BystanderFacts DEF ControlInv, Unsaved, CountersSaved, commands
<1>. QED
  BY <1>1, <1>2, <1>3, <1>4, <1>5, <1>6, <1>7, <1>8, <1>9, <1>10, <1>11, <1>12, <1>13, <1>14
     DEF Next, Bystander

----------------------------------------------------------------------------
(* Every meal of a slot and every unit of a day's dose is on record, in RAM  *)
(* and, once its save is over, in flash: what a reset may lose is the meal   *)
(* being marked.                                                             *)

Counts(r, s) == IF r.day = clock.day /\ r[s] THEN 1 ELSE 0
Fed(r) == IF r.day = clock.day THEN r.fed ELSE 0
Marking == IF task = "mark" THEN 1 ELSE 0

MealInv ==
    \A s \in Slots :
        /\ fedToday[s] <= unsaved + Counts(ram, s)
        /\ fedToday[s] <= unsaved + Counts(flash, s) + Marking

DoseInv ==
    /\ dose <= MaxMeal * unsaved + Fed(ram)
    /\ dose <= MaxMeal * unsaved + Fed(flash) + MaxMeal * Marking

LEMMA RecordTypes ==
    ASSUME TypeOK
    PROVE  /\ \A s \in Slots : /\ fedToday[s] \in Nat
                              /\ Counts(ram, s) \in {0, 1} /\ Counts(flash, s) \in {0, 1}
           /\ Fed(ram) \in 0..MaxDaily /\ Fed(flash) \in 0..MaxDaily
           /\ unsaved \in Nat /\ dose \in Nat /\ Marking \in {0, 1}
           /\ MaxMeal \in Nat /\ MaxDaily \in Nat
           /\ MaxMeal * unsaved \in Nat
           /\ MaxMeal * (unsaved + 1) = MaxMeal * unsaved + MaxMeal
           /\ MaxMeal * Marking = IF task = "mark" THEN MaxMeal ELSE 0
<1>1. unsaved \in Nat /\ MaxMeal \in Nat /\ MaxDaily \in Nat
  BY DoseAssumption DEF TypeOK
<1>2. MaxMeal * unsaved \in Nat /\ MaxMeal * (unsaved + 1) = MaxMeal * unsaved + MaxMeal
  BY <1>1
<1>3. MaxMeal * Marking = IF task = "mark" THEN MaxMeal ELSE 0
  BY <1>1 DEF Marking
<1>4. Fed(ram) \in 0..MaxDaily /\ Fed(flash) \in 0..MaxDaily
  BY <1>1 DEF Fed, TypeOK, Flags
<1>. QED  BY <1>1, <1>2, <1>3, <1>4 DEF TypeOK, Counts, Marking

(* A write of a flag takes no meal of today off the record in flash.         *)
LEMMA WriteRecord ==
    ASSUME TypeOK, ControlInv, WriteFlag
    PROVE  /\ \A s \in Slots : \/ Counts(flash, s)' >= Counts(flash, s)
                              \/ Counts(flash, s)' = Counts(ram, s)
           /\ Fed(flash)' >= Fed(flash) \/ Fed(flash)' = Fed(ram)
<1>1. PICK k \in FlagNames :
        /\ Unsaved(k)
        /\ flash' = [flash EXCEPT ![k] = ram[k]]
        /\ flash' \in Flags(0..MaxDaily)
        /\ k = "fed" => flash' = ram
  BY WriteFlagFacts
<1>2. clock' = clock /\ ram.day = clock.day
  BY WriteFlagTask DEF WriteFlag, ControlInv
<1>3. flash[k] # ram[k]
  BY <1>1 DEF Unsaved
<1>4. flash = [morning |-> flash.morning, noon |-> flash.noon, evening |-> flash.evening,
               day |-> flash.day, fed |-> flash.fed]
  BY DEF TypeOK, Flags
<1>5. Fed(flash) \in Nat /\ Fed(ram) \in Nat
  BY RecordTypes
<1>6. CASE k = "fed"
  <2>1. Fed(flash)' = Fed(ram)
    BY <1>1, <1>2, <1>6 DEF Fed
  <2>2. \A s \in Slots : Counts(flash, s)' = Counts(ram, s)
    BY <1>1, <1>2, <1>6 DEF Counts
  <2>. QED  BY <2>1, <2>2
<1>7. CASE k = "day"
  <2>1. flash.day # clock.day
    BY <1>2, <1>3, <1>7
  <2>2. Fed(flash) = 0 /\ \A s \in Slots : Counts(flash, s) = 0
    BY <2>1 DEF Fed, Counts
  <2>3. Fed(flash)' \in Nat
    BY <1>1 DEF Fed, Flags
  <2>4. \A s \in Slots : Counts(flash, s)' >= 0
    BY DEF Counts
  <2>. QED  BY <2>2, <2>3, <2>4
<1>8. CASE k \in Slots
  <2>1. flash'.day = flash.day /\ flash'.fed = flash.fed
    BY <1>1, <1>4, <1>8, SlotFacts
  <2>2. Fed(flash)' = Fed(flash)
    BY <1>2, <2>1 DEF Fed
  <2>3. ASSUME NEW s \in Slots
        PROVE  \/ Counts(flash, s)' >= Counts(flash, s)
               \/ Counts(flash, s)' = Counts(ram, s)
    <3>1. CASE flash.day # clock.day
      BY <1>2, <2>1, <3>1 DEF Counts
    <3>2. CASE flash.day = clock.day /\ s = k
      <4>1. flash'[s] = ram[s]
        BY <1>1, <1>4, <1>8, <3>2, SlotFacts
      <4>. QED  BY <1>2, <2>1, <3>2, <4>1 DEF Counts
    <3>3. CASE flash.day = clock.day /\ s # k
      <4>1. flash'[s] = flash[s]
        BY <1>1, <1>4, <1>8, <3>3, SlotFacts
      <4>. QED  BY <1>2, <2>1, <3>3, <4>1 DEF Counts
    <3>. QED  BY <3>1, <3>2, <3>3
  <2>. QED  BY <1>5, <2>2, <2>3
<1>. QED  BY <1>6, <1>7, <1>8, SlotFacts DEF FlagNames

(* What a meal of the schedule leaves on record.                             *)
LEMMA FeedRecord ==
    ASSUME TypeOK, NEW m \in Meals, Feed(m)
    PROVE  /\ ram'.fed = ram.fed + Capped(m) /\ ram'.day = ram.day
           /\ \A s \in Slots : ram[s] => ram'[s]
           /\ \A s \in Slots : ram'[s] => ram[s] \/ SlotHour[s] = SlotHour[DueSlot]
           /\ DueSlot \in Slots /\ ~ram[DueSlot] /\ ram'[DueSlot]
           /\ Capped(m) \in Nat \ {0} /\ Capped(m) <= MaxMeal
<1>. DEFINE r == [ram EXCEPT !.fed = @ + Capped(m)]
<1>1. Capped(m) \in Nat \ {0} /\ Capped(m) <= MaxMeal
  BY DoseAssumption DEF Capped
<1>2. ram.fed \in Nat /\ ram \in Flags(0..MaxDaily)
  BY DEF TypeOK, Flags
<1>3. /\ r \in Flags(Nat) /\ r.fed = ram.fed + Capped(m) /\ r.day = ram.day
      /\ \A s \in Slots : r[s] = ram[s]
  BY <1>1, <1>2, SlotFacts, DoseAssumption DEF Flags
<1>4. ram' = MarkSlots(r, {SlotHour[DueSlot]})
  BY DEF Feed
<1>. HIDE DEF r
<1>5. DueSlot \in Slots /\ ~ram[DueSlot]
  BY DueFacts DEF Feed, SlotDone
<1>6. ram'.fed = r.fed /\ ram'.day = r.day
  BY <1>3, <1>4, MarkFacts
<1>7. \A s \in Slots : r[s] => ram'[s]
  BY <1>3, <1>4, MarkFacts
<1>8. ram'[DueSlot]
  BY <1>3, <1>4, <1>5, MarkFacts
<1>9. \A s \in Slots : ram'[s] => r[s] \/ SlotHour[s] = SlotHour[DueSlot]
  BY <1>3, <1>4, MarkedFacts
<1>. QED  BY <1>1, <1>3, <1>5, <1>6, <1>7, <1>8, <1>9

(* The steps that leave the meals, the clock and the flags alone.            *)
Quiet ==
    \/ NothingDue \/ SeedCounters \/ WriteSeeded \/ ResolveCommands \/ Bystander
    \/ \E c \in Channels : WriteCounter(c) \/ Issue(c)

LEMMA QuietFacts ==
    ASSUME ControlInv, Quiet
    PROVE  UNCHANGED <<clock, flash, ram, fedToday, dose, unsaved, cancelled, Marking>>
<1>1. ASSUME NothingDue \/ SeedCounters \/ WriteSeeded \/ ResolveCommands
      PROVE  UNCHANGED <<clock, flash, ram, fedToday, dose, unsaved, cancelled, Marking>>
  <2>1. UNCHANGED <<clock, flash, ram, fedToday, dose, unsaved, cancelled>>
    BY <1>1 DEF NothingDue, SeedCounters, WriteSeeded, ResolveCommands, meals
  <2>2. task # "mark" /\ task' # "mark"
    BY <1>1 DEF NothingDue, SeedCounters, WriteSeeded, ResolveCommands, Free
  <2>. QED  BY <2>1, <2>2 DEF Marking
<1>2. ASSUME NEW c \in Channels, WriteCounter(c)
      PROVE  UNCHANGED <<clock, flash, ram, fedToday, dose, unsaved, cancelled, Marking>>
  <2>1. UNCHANGED <<clock, flash, ram, fedToday, dose, unsaved, cancelled>>
    BY <1>2 DEF WriteCounter, meals
  <2>2. target # exec
    BY <1>2 DEF WriteCounter
  <2>3. task # "mark"
    BY <2>2 DEF ControlInv, CountersSaved
  <2>4. task' \in {task, "idle"}
    BY <1>2 DEF WriteCounter
  <2>. QED  BY <2>1, <2>3, <2>4 DEF Marking
<1>3. ASSUME NEW c \in Channels, Issue(c)
      PROVE  UNCHANGED <<clock, flash, ram, fedToday, dose, unsaved, cancelled, Marking>>
  BY <1>3 DEF Issue, device, meals, Marking
<1>4. CASE Bystander
  BY <1>4, BystanderFacts DEF meals, Marking
<1>. QED  BY <1>1, <1>2, <1>3, <1>4 DEF Quiet

LEMMA NextHourFacts ==
    ASSUME TypeOK, NextHour
    PROVE  \/ clock'.day = clock.day /\ UNCHANGED meals
           \/ fedToday' = [s \in Slots |-> 0] /\ dose' = 0 /\ unsaved' = 0
<1>1. CASE clock.hour + 1 < HoursPerDay
  <2>1. clock' = [clock EXCEPT !.hour = @ + 1]
    BY <1>1 DEF NextHour
  <2>2. clock'.day = clock.day
    BY <2>1 DEF TypeOK
  <2>3. UNCHANGED meals
    BY <1>1 DEF NextHour
  <2>. QED  BY <2>2, <2>3
<1>2. CASE ~(clock.hour + 1 < HoursPerDay)
  BY <1>2 DEF NextHour
<1>. QED  BY <1>1, <1>2

LEMMA MealStep == TypeOK /\ ControlInv /\ MealInv /\ [Next]_vars => MealInv'
<1>. SUFFICES ASSUME TypeOK, ControlInv, MealInv, [Next]_vars, NEW s \in Slots
              PROVE  (/\ fedToday[s] <= unsaved + Counts(ram, s)
                      /\ fedToday[s] <= unsaved + Counts(flash, s) + Marking)'
  BY DEF MealInv
<1>0. /\ fedToday[s] <= unsaved + Counts(ram, s)
      /\ fedToday[s] <= unsaved + Counts(flash, s) + Marking
  BY DEF MealInv
<1>a. /\ fedToday[s] \in Nat /\ unsaved \in Nat /\ Marking \in {0, 1}
      /\ Counts(ram, s) \in {0, 1} /\ Counts(flash, s) \in {0, 1}
  BY RecordTypes
<1>b. Counts(ram, s)' \in {0, 1} /\ Counts(flash, s)' \in {0, 1}
  BY DEF Counts
<1>1. CASE WriteFlag
  <2>1. UNCHANGED <<clock, ram, fedToday, unsaved>>
    BY <1>1 DEF WriteFlag, meals
  <2>2. Counts(ram, s)' = Counts(ram, s)
    BY <2>1 DEF Counts
  <2>3. Counts(flash, s)' >= Counts(flash, s) \/ Counts(flash, s)' = Counts(ram, s)
    BY <1>1, WriteRecord
  <2>4. Marking' = Marking \/ Counts(flash, s)' = Counts(ram, s)
    BY <1>1, <2>1, WriteFlagTask DEF Marking, Counts
  <2>5. Marking' \in {0, 1}
    BY DEF Marking
  <2>. QED  BY <1>0, <1>a, <1>b, <2>1, <2>2, <2>3, <2>4, <2>5
<1>2. CASE PassStart
  <2>1. UNCHANGED <<clock, flash, fedToday, unsaved>> /\ ram' = CheckNewDay
    BY <1>2 DEF PassStart, meals
  <2>2. Counts(flash, s)' = Counts(flash, s)
    BY <2>1 DEF Counts
  <2>3. Marking = 0 /\ Marking' = 0
    BY <1>2 DEF PassStart, Free, Marking
  <2>4. Counts(ram, s)' >= Counts(ram, s)
    <3>1. CASE ram.day = clock.day
      BY <2>1, <3>1, <1>a, NewDayFacts DEF Counts
    <3>2. CASE ram.day # clock.day
      <4>1. Counts(ram, s) = 0
        BY <3>2 DEF Counts
      <4>. QED  BY <4>1, <1>b
    <3>. QED  BY <3>1, <3>2
  <2>. QED  BY <1>0, <1>a, <1>b, <2>1, <2>2, <2>3, <2>4
<1>3. ASSUME HandleMissedSlots \/ \E m \in Meals : CancelMeal(m)
      PROVE  (/\ fedToday[s] <= unsaved + Counts(ram, s)
              /\ fedToday[s] <= unsaved + Counts(flash, s) + Marking)'
  <2>1. UNCHANGED <<clock, flash, fedToday, unsaved>>
    BY <1>3 DEF HandleMissedSlots, CancelMeal, meals
  <2>2. Marking = 0 /\ Marking' = 0
    BY <1>3 DEF HandleMissedSlots, CancelMeal, Marking
  <2>3. ram'.day = ram.day /\ (ram[s] => ram'[s])
    BY <1>3, MarkFacts DEF HandleMissedSlots, CancelMeal, TypeOK
  <2>4. Counts(ram, s)' >= Counts(ram, s) /\ Counts(flash, s)' = Counts(flash, s)
    BY <2>1, <2>3 DEF Counts
  <2>. QED  BY <1>0, <1>a, <1>b, <2>1, <2>2, <2>4
<1>4. ASSUME NEW m \in Meals, Feed(m)
      PROVE  (/\ fedToday[s] <= unsaved + Counts(ram, s)
              /\ fedToday[s] <= unsaved + Counts(flash, s) + Marking)'
  <2>1. UNCHANGED <<clock, flash, unsaved>> /\ fedToday' = [fedToday EXCEPT ![DueSlot] = @ + 1]
    BY <1>4 DEF Feed
  <2>2. ram.day = clock.day
    BY <1>4 DEF Feed, ControlInv
  <2>3. Marking = 0 /\ Marking' = 1
    BY <1>4 DEF Feed, Marking
  <2>4. Counts(flash, s)' = Counts(flash, s)
    BY <2>1 DEF Counts
  <2>5. CASE s = DueSlot
    <3>1. fedToday'[s] = fedToday[s] + 1
      BY <2>1, <2>5, Increment DEF TypeOK
    <3>2. ~ram[s] /\ ram'[s] /\ ram'.day = ram.day
      BY <1>4, <2>5, FeedRecord
    <3>3. Counts(ram, s) = 0 /\ Counts(ram, s)' = 1
      BY <2>1, <2>2, <3>2 DEF Counts
    <3>. QED  BY <1>0, <1>a, <1>b, <2>1, <2>3, <2>4, <3>1, <3>3
  <2>6. CASE s # DueSlot
    <3>1. fedToday'[s] = fedToday[s]
      BY <1>4, <2>1, <2>6, Increment, FeedRecord DEF TypeOK
    <3>2. Counts(ram, s)' >= Counts(ram, s)
      BY <1>4, <2>1, FeedRecord DEF Counts
    <3>. QED  BY <1>0, <1>a, <1>b, <2>1, <2>3, <2>4, <3>1, <3>2
  <2>. QED  BY <2>5, <2>6
<1>5. CASE NextHour
  <2>1. flash' = flash /\ ram' = ram /\ flash = ram /\ task' = task /\ task = "idle"
    BY <1>5 DEF NextHour, Free, ControlInv, device
  <2>2. CASE clock'.day = clock.day /\ UNCHANGED meals
    <3>1. Counts(ram, s)' = Counts(ram, s) /\ Counts(flash, s)' = Counts(flash, s)
      BY <2>1, <2>2 DEF Counts
    <3>. QED  BY <1>0, <1>a, <2>1, <2>2, <3>1 DEF Marking, meals
  <2>3. CASE fedToday'[s] = 0 /\ unsaved' = 0
    BY <1>b, <2>1, <2>3 DEF Marking
  <2>4. \/ clock'.day = clock.day /\ UNCHANGED meals
        \/ fedToday'[s] = 0 /\ unsaved' = 0
    BY <1>5, NextHourFacts
  <2>. QED  BY <2>2, <2>3, <2>4
<1>6. CASE Reset
  <2>1. UNCHANGED <<clock, flash, fedToday>> /\ ram' = flash /\ task' = "idle"
    BY <1>6 DEF Reset
  <2>2. unsaved' = unsaved + Marking
    BY <1>6 DEF Reset, Marking, ControlInv
  <2>3. Counts(ram, s)' = Counts(flash, s) /\ Counts(flash, s)' = Counts(flash, s)
    BY <2>1 DEF Counts
  <2>. QED  BY <1>0, <1>a, <2>1, <2>2, <2>3 DEF Marking
<1>7. CASE Quiet
  <2>1. UNCHANGED <<clock, flash, ram, fedToday, dose, unsaved, cancelled, Marking>>
    BY <1>7, QuietFacts
  <2>. QED  BY <1>0, <2>1 DEF Counts
<1>. QED
  BY <1>1, <1>2, <1>3, <1>4, <1>5, <1>6, <1>7 DEF Next, Quiet, Bystander

LEMMA DoseStep == TypeOK /\ ControlInv /\ DoseInv /\ [Next]_vars => DoseInv'
<1>. SUFFICES ASSUME TypeOK, ControlInv, DoseInv, [Next]_vars  PROVE DoseInv'
  OBVIOUS
<1>. DEFINE lost == MaxMeal * unsaved
            marked == IF task = "mark" THEN MaxMeal ELSE 0
<1>a. /\ dose \in Nat /\ MaxMeal \in Nat /\ lost \in Nat /\ marked \in {0, MaxMeal}
      /\ Fed(ram) \in Nat /\ Fed(flash) \in Nat /\ unsaved \in Nat
  BY RecordTypes
<1>b. dose <= lost + Fed(ram) /\ dose <= lost + Fed(flash) + marked
  BY RecordTypes DEF DoseInv
<1>c. ASSUME dose' <= lost' + Fed(ram)', dose' <= lost' + Fed(flash)' + marked'
      PROVE  DoseInv'
  <2>1. (MaxMeal * Marking)' = marked'
    BY <1>a DEF Marking
  <2>. QED  BY <1>c, <2>1 DEF DoseInv
<1>d. ASSUME UNCHANGED unsaved  PROVE lost' = lost
  BY <1>d
<1>e. ASSUME UNCHANGED task  PROVE marked' = marked
  BY <1>e
<1>f. (task # "mark" => marked = 0) /\ (task' # "mark" => marked' = 0)
  OBVIOUS
<1>g. task' = "mark" => marked' = MaxMeal
  OBVIOUS
<1>h. Reset => lost' = lost + marked
  <2>1. Reset => unsaved' = unsaved + Marking
    BY DEF Reset, Marking, ControlInv
  <2>. QED  BY <1>a, <2>1, RecordTypes DEF Marking
<1>i. unsaved' = 0 => lost' = 0
  BY <1>a
<1>j. marked' \in {0, MaxMeal}
  OBVIOUS
<1>. HIDE DEF lost, marked
<1>1. CASE WriteFlag
  <2>1. UNCHANGED <<clock, ram, dose, unsaved>>
    BY <1>1 DEF WriteFlag, meals
  <2>2. Fed(ram)' = Fed(ram)
    BY <2>1 DEF Fed
  <2>3. Fed(flash)' >= Fed(flash) \/ Fed(flash)' = Fed(ram)
    BY <1>1, WriteRecord
  <2>4. marked' = marked \/ Fed(flash)' = Fed(ram)
    BY <1>1, <1>e, <2>1, WriteFlagTask DEF Fed
  <2>5. Fed(flash)' \in Nat
    <3>1. flash' \in Flags(0..MaxDaily)
      BY <1>1, WriteFlagFacts
    <3>. QED  BY <3>1 DEF Fed, Flags
  <2>. QED  BY <1>a, <1>b, <1>c, <1>d, <1>j, <2>1, <2>2, <2>3, <2>4, <2>5
<1>2. CASE PassStart
  <2>1. UNCHANGED <<clock, flash, dose, unsaved>> /\ ram' = CheckNewDay
    BY <1>2 DEF PassStart, meals
  <2>2. marked = 0 /\ marked' = 0
    BY <1>2, <1>f DEF PassStart, Free
  <2>3. Fed(flash)' = Fed(flash)
    BY <2>1 DEF Fed
  <2>4. Fed(ram)' \in Nat /\ Fed(ram)' >= Fed(ram)
    <3>1. CASE ram.day = clock.day
      BY <1>a, <2>1, <3>1, NewDayFacts DEF Fed
    <3>2. CASE ram.day # clock.day
      <4>1. Fed(ram) = 0
        BY <3>2 DEF Fed
      <4>2. ram' \in Flags(0..MaxDaily)
        BY <2>1, NewDayFacts
      <4>. QED  BY <4>1, <4>2 DEF Fed, Flags
    <3>. QED  BY <3>1, <3>2
  <2>. QED  BY <1>a, <1>b, <1>c, <1>d, <2>1, <2>2, <2>3, <2>4
<1>3. ASSUME HandleMissedSlots \/ \E m \in Meals : CancelMeal(m)  PROVE DoseInv'
  <2>1. UNCHANGED <<clock, flash, dose, unsaved>>
    BY <1>3 DEF HandleMissedSlots, CancelMeal, meals
  <2>2. marked = 0 /\ marked' = 0
    BY <1>3, <1>f DEF HandleMissedSlots, CancelMeal
  <2>3. ram'.day = ram.day /\ ram'.fed = ram.fed
    BY <1>3, MarkFacts DEF HandleMissedSlots, CancelMeal, TypeOK
  <2>4. Fed(ram)' = Fed(ram) /\ Fed(flash)' = Fed(flash)
    BY <2>1, <2>3 DEF Fed
  <2>. QED  BY <1>b, <1>c, <1>d, <2>1, <2>2, <2>4
<1>4. ASSUME NEW m \in Meals, Feed(m)  PROVE DoseInv'
  <2>1. UNCHANGED <<clock, flash, unsaved>> /\ dose' = dose + Capped(m)
    BY <1>4 DEF Feed
  <2>2. ram.day = clock.day
    BY <1>4 DEF Feed, ControlInv
  <2>3. marked = 0 /\ marked' = MaxMeal
    BY <1>4, <1>f, <1>g DEF Feed
  <2>4. /\ ram'.fed = ram.fed + Capped(m) /\ ram'.day = ram.day
        /\ Capped(m) \in Nat /\ Capped(m) <= MaxMeal
    BY <1>4, FeedRecord
  <2>5. Fed(ram)' = Fed(ram) + Capped(m) /\ Fed(flash)' = Fed(flash)
    BY <2>1, <2>2, <2>4 DEF Fed
  <2>. QED  BY <1>a, <1>b, <1>c, <1>d, <2>1, <2>3, <2>4, <2>5
<1>5. CASE NextHour
  <2>1. flash' = flash /\ ram' = ram /\ task' = task
    BY <1>5 DEF NextHour, device
  <2>2. CASE clock'.day = clock.day /\ UNCHANGED meals
    <3>1. Fed(ram)' = Fed(ram) /\ Fed(flash)' = Fed(flash) /\ dose' = dose /\ unsaved' = unsaved
      BY <2>1, <2>2 DEF Fed, meals
    <3>. QED  BY <1>b, <1>c, <1>d, <1>e, <2>1, <3>1
  <2>3. CASE dose' = 0 /\ unsaved' = 0
    <3>1. Fed(ram)' \in Nat /\ Fed(flash)' \in Nat
      BY <2>1 DEF Fed, TypeOK, Flags
    <3>. QED  BY <1>a, <1>c, <1>i, <1>j, <2>3, <3>1
  <2>. QED  BY <1>5, <2>2, <2>3, NextHourFacts
<1>6. CASE Reset
  <2>1. UNCHANGED <<clock, flash, dose>> /\ ram' = flash /\ task' = "idle"
    BY <1>6 DEF Reset
  <2>2. Fed(ram)' = Fed(flash) /\ Fed(flash)' = Fed(flash)
    BY <2>1 DEF Fed
  <2>3. lost' = lost + marked /\ marked' = 0
    BY <1>6, <1>f, <1>h, <2>1
  <2>. QED  BY <1>a, <1>b, <1>c, <2>1, <2>2, <2>3
<1>7. CASE Quiet
  <2>1. UNCHANGED <<clock, flash, ram, fedToday, dose, unsaved, cancelled, Marking>>
    BY <1>7, QuietFacts
  <2>2. Fed(ram)' = Fed(ram) /\ Fed(flash)' = Fed(flash)
    BY <2>1 DEF Fed
  <2>. QED  BY <2>1, <2>2 DEF DoseInv
<1>. QED
  BY <1>1, <1>2, <1>3, <1>4, <1>5, <1>6, <1>7 DEF Next, Quiet, Bystander

LEMMA RecordInit == Init => ControlInv /\ MealInv /\ DoseInv
<1>. SUFFICES ASSUME Init  PROVE ControlInv /\ MealInv /\ DoseInv
  OBVIOUS
<1>1. ControlInv
  BY DEF Init, ControlInv, CountersSaved
<1>2. clock.day = 0 /\ ram.day = -1 /\ flash = ram /\ task = "idle" /\ dose = 0 /\ unsaved = 0
  BY DEF Init, NoDay
<1>3. Fed(ram) = 0 /\ Fed(flash) = 0 /\ Marking = 0 /\ \A s \in Slots : Counts(ram, s) = 0 /\ Counts(flash, s) = 0
  BY <1>2 DEF Fed, Marking, Counts
<1>4. DoseInv
  BY <1>2, <1>3, DoseAssumption DEF DoseInv
<1>5. \A s \in Slots : fedToday[s] = 0
  BY DEF Init
<1>6. MealInv
  BY <1>2, <1>3, <1>5 DEF MealInv
<1>. QED  BY <1>1, <1>4, <1>6

LEMMA RecordCorrect == Spec => [](TypeOK /\ ControlInv /\ MealInv /\ DoseInv)
<1>1. TypeOK /\ ControlInv /\ MealInv /\ DoseInv /\ [Next]_vars
        => TypeOK' /\ ControlInv' /\ MealInv' /\ DoseInv'
  BY TypeStep, ControlStep, MealStep, DoseStep
<1>2. Init => TypeOK
  BY TypeInit
<1>. QED  BY <1>1, <1>2, RecordInit, PTL DEF Spec

(* Whatever the schedule, and at whatever key of a save the board resets, a  *)
(* slot is fed once a day, but once more for each meal whose record was lost. *)
THEOREM SlotFedOnce == Spec => []MealOncePerSlot
<1>1. TypeOK /\ MealInv => MealOncePerSlot
  <2>. SUFFICES ASSUME TypeOK, MealInv, NEW s \in Slots  PROVE fedToday[s] <= 1 + unsaved
    BY DEF MealOncePerSlot
  <2>. QED  BY RecordTypes DEF MealInv
<1>. QED  BY <1>1, RecordCorrect, PTL

(* Whatever the durations the configuration asks for, the automatic meals of *)
(* a day never exceed the daily cap, but for the meals whose record was lost. *)
THEOREM DoseBounded == Spec => []DailyDose
<1>1. TypeOK /\ DoseInv => DailyDose
  <2>. SUFFICES ASSUME TypeOK, DoseInv  PROVE dose <= MaxDaily + MaxMeal * unsaved
    BY DEF DailyDose
  <2>. QED  BY RecordTypes DEF DoseInv
<1>. QED  BY <1>1, RecordCorrect, PTL

----------------------------------------------------------------------------
(* A slot on record as done today, in RAM or in flash, was fed or cancelled  *)
(* today, or its hours have passed.  The day is written after the slots it   *)
(* belongs to: a save cut short leaves slots of a day that is not today.     *)

Justified(s) == fedToday[s] > 0 \/ s \in cancelled \/ clock.hour > SlotHour[s] + 1

DoneInv ==
    /\ \A s \in Slots : /\ ram.day = clock.day /\ ram[s] => Justified(s)
                        /\ flash.day = clock.day /\ flash[s] => Justified(s)
                        /\ flash.day = NoDay => ~flash[s] /\ ~ram[s]
    /\ ram.day <= clock.day /\ flash.day <= clock.day

LEMMA ClockFacts ==
    ASSUME TypeOK
    PROVE  /\ clock.day \in Nat /\ clock.hour \in Nat /\ clock.day # NoDay
           /\ ram.day \in Int /\ flash.day \in Int
           /\ \A s \in Slots : /\ ram[s] \in BOOLEAN /\ flash[s] \in BOOLEAN
                              /\ SlotHour[s] \in Nat /\ fedToday[s] \in Nat
<1>1. /\ SlotHour["morning"] \in Nat /\ SlotHour["noon"] \in Nat /\ SlotHour["evening"] \in Nat
  BY ScheduleAssumption DEF SlotHour
<1>. QED  BY <1>1, SlotFacts, BoundAssumption DEF TypeOK, Flags, Day, NoDay

(* A slot of its own hour: the hours of the schedule are distinct.           *)
LEMMA HourFacts ==
    ASSUME NEW s \in Slots, NEW t \in Slots, SlotHour[s] = SlotHour[t]
    PROVE  s = t
BY SlotFacts, ScheduleAssumption DEF SlotHour

LEMMA DoneStep == TypeOK /\ ControlInv /\ DoneInv /\ [Next]_vars => DoneInv'
<1>. SUFFICES ASSUME TypeOK, ControlInv, DoneInv, [Next]_vars  PROVE DoneInv'
  OBVIOUS
<1>a. /\ clock.day \in Nat /\ clock.hour \in Nat /\ clock.day # NoDay
      /\ ram.day \in Int /\ flash.day \in Int /\ ram.day <= clock.day /\ flash.day <= clock.day
      /\ \A s \in Slots : /\ ram[s] \in BOOLEAN /\ flash[s] \in BOOLEAN
                          /\ SlotHour[s] \in Nat /\ fedToday[s] \in Nat
  BY ClockFacts DEF DoneInv
<1>b. \A s \in Slots : /\ ram.day = clock.day /\ ram[s] => Justified(s)
                       /\ flash.day = clock.day /\ flash[s] => Justified(s)
                       /\ flash.day = NoDay => ~flash[s] /\ ~ram[s]
  BY DEF DoneInv
<1>1. CASE WriteFlag
  <2>1. UNCHANGED <<clock, ram, fedToday, cancelled>>
    BY <1>1 DEF WriteFlag, meals
  <2>2. \A s \in Slots : Justified(s)' = Justified(s)
    BY <2>1 DEF Justified
  <2>3. ram.day = clock.day
    BY <1>1, WriteFlagTask DEF ControlInv
  <2>4. PICK i \in DOMAIN FlagKeys :
          /\ Unsaved(FlagKeys[i]) /\ \A j \in 1..(i - 1) : ~Unsaved(FlagKeys[j])
          /\ flash' = [flash EXCEPT ![FlagKeys[i]] = ram[FlagKeys[i]]]
    BY <1>1 DEF WriteFlag
  <2>5. i \in 1..5
    BY DEF FlagKeys
  <2>6. flash = [morning |-> flash.morning, noon |-> flash.noon, evening |-> flash.evening,
                 day |-> flash.day, fed |-> flash.fed]
    BY DEF TypeOK, Flags
  <2>7. CASE i \in 1..3
    <3>1. /\ flash'.day = flash.day
          /\ \A s \in Slots : flash'[s] = flash[s] \/ flash'[s] = ram[s]
      BY <2>4, <2>6, <2>7, SlotFacts DEF FlagKeys
    <3>. QED  BY <1>a, <1>b, <2>1, <2>2, <2>3, <3>1 DEF DoneInv
  <2>8. CASE i = 4
    <3>1. /\ ~Unsaved(FlagKeys[1]) /\ ~Unsaved(FlagKeys[2]) /\ ~Unsaved(FlagKeys[3])
      BY <2>4, <2>8
    <3>2. flash'.day = ram.day /\ \A s \in Slots : flash'[s] = ram[s]
      BY <2>4, <2>6, <2>8, <3>1, SlotFacts DEF FlagKeys, Unsaved
    <3>. QED  BY <1>a, <1>b, <2>1, <2>2, <2>3, <3>2 DEF DoneInv
  <2>9. CASE i = 5
    <3>1. flash'.day = flash.day /\ \A s \in Slots : flash'[s] = flash[s]
      BY <2>4, <2>6, <2>9, SlotFacts DEF FlagKeys
    <3>. QED  BY <1>a, <1>b, <2>1, <2>2, <3>1 DEF DoneInv
  <2>. QED  BY <2>5, <2>7, <2>8, <2>9
<1>2. CASE PassStart
  <2>1. UNCHANGED <<clock, flash, fedToday, cancelled>> /\ ram' = CheckNewDay /\ flash = ram
    BY <1>2 DEF PassStart, meals, Free, ControlInv
  <2>2. \A s \in Slots : Justified(s)' = Justified(s)
    BY <2>1 DEF Justified
  <2>3. ram'.day = clock.day
    BY <2>1, NewDayFacts
  <2>4. \A s \in Slots : ram'[s] => ram[s] /\ ram.day \in {NoDay, clock.day}
    <3>1. ram = [morning |-> ram.morning, noon |-> ram.noon, evening |-> ram.evening,
                 day |-> ram.day, fed |-> ram.fed]
      BY DEF TypeOK, Flags
    <3>. QED  BY <2>1, <3>1, SlotFacts DEF CheckNewDay, NoSlotDone
  <2>. QED  BY <1>a, <1>b, <2>1, <2>2, <2>3, <2>4 DEF DoneInv
<1>3. ASSUME UNCHANGED <<clock, flash>>, ram.day = clock.day, flash.day # NoDay,
             ram'.day = ram.day,
             \A s \in Slots : Justified(s) => Justified(s)',
             \A s \in Slots : ram'[s] => ram[s] \/ Justified(s)'
      PROVE  DoneInv'
  BY <1>3, <1>a, <1>b DEF DoneInv
<1>4. ASSUME FlagsSaved, task \in {"missed", "feed"}
      PROVE  ram.day = clock.day /\ flash.day # NoDay
  BY <1>4, <1>a, SavedFacts DEF ControlInv
<1>5. CASE HandleMissedSlots
  <2>1. UNCHANGED <<clock, flash, fedToday, cancelled>> /\ FlagsSaved /\ task = "missed"
    BY <1>5 DEF HandleMissedSlots, meals
  <2>2. \A s \in Slots : Justified(s)' = Justified(s)
    BY <2>1 DEF Justified
  <2>3. ram'.day = ram.day
    BY <1>5, MarkFacts DEF HandleMissedSlots, TypeOK
  <2>4. ASSUME NEW s \in Slots, ram'[s], ~ram[s]  PROVE Justified(s)
    <3>1. SlotHour[s] \in {SlotHour[t] : t \in {u \in Slots : IsSlotMissed(u)}}
      BY <1>5, <2>4, MarkedFacts DEF HandleMissedSlots, TypeOK
    <3>2. PICK t \in Slots : IsSlotMissed(t) /\ SlotHour[s] = SlotHour[t]
      BY <3>1
    <3>. QED  BY <3>2 DEF IsSlotMissed, Justified
  <2>. QED  BY <1>3, <1>4, <2>1, <2>2, <2>3, <2>4
<1>6. ASSUME NEW m \in Meals, CancelMeal(m)  PROVE DoneInv'
  <2>1. /\ UNCHANGED <<clock, flash, fedToday>> /\ FlagsSaved /\ task = "feed"
        /\ cancelled' = cancelled \cup {DueSlot}
    BY <1>6 DEF CancelMeal
  <2>2. \A s \in Slots : Justified(s) => Justified(s)'
    BY <2>1 DEF Justified
  <2>3. ram'.day = ram.day
    BY <1>6, MarkFacts DEF CancelMeal, TypeOK
  <2>4. ASSUME NEW s \in Slots, ram'[s], ~ram[s]  PROVE Justified(s)'
    <3>1. SlotHour[s] = SlotHour[DueSlot] /\ DueSlot \in Slots
      BY <1>6, <2>4, MarkedFacts, DueFacts DEF CancelMeal, TypeOK
    <3>2. s = DueSlot
      BY <3>1, HourFacts
    <3>. QED  BY <2>1, <3>2 DEF Justified
  <2>. QED  BY <1>3, <1>4, <2>1, <2>2, <2>3, <2>4
<1>7. ASSUME NEW m \in Meals, Feed(m)  PROVE DoneInv'
  <2>1. /\ UNCHANGED <<clock, flash, cancelled>> /\ FlagsSaved /\ task = "feed"
        /\ fedToday' = [fedToday EXCEPT ![DueSlot] = @ + 1]
    BY <1>7 DEF Feed
  <2>2. DueSlot \in Slots /\ ram'.day = ram.day
    BY <1>7, FeedRecord
  <2>3. /\ fedToday'[DueSlot] = fedToday[DueSlot] + 1
        /\ \A s \in Slots : s # DueSlot => fedToday'[s] = fedToday[s]
    BY <2>1, <2>2, Increment DEF TypeOK
  <2>4. \A s \in Slots : Justified(s) => Justified(s)'
    BY <1>a, <2>1, <2>2, <2>3 DEF Justified
  <2>5. ASSUME NEW s \in Slots, ram'[s], ~ram[s]  PROVE Justified(s)'
    <3>1. s = DueSlot
      BY <1>7, <2>2, <2>5, FeedRecord, HourFacts
    <3>. QED  BY <1>a, <2>3, <3>1 DEF Justified
  <2>. QED  BY <1>3, <1>4, <2>1, <2>2, <2>4, <2>5
<1>8. CASE NextHour
  <2>1. flash' = flash /\ ram' = ram
    BY <1>8 DEF NextHour, device
  <2>2. CASE clock.hour + 1 < HoursPerDay
    <3>1. clock'.day = clock.day /\ clock'.hour = clock.hour + 1 /\ UNCHANGED meals
      BY <1>8, <2>2 DEF NextHour, TypeOK
    <3>2. \A s \in Slots : Justified(s) => Justified(s)'
      BY <1>a, <3>1 DEF Justified, meals
    <3>. QED  BY <1>a, <1>b, <2>1, <3>1, <3>2 DEF DoneInv
  <2>3. CASE ~(clock.hour + 1 < HoursPerDay)
    <3>1. clock'.day = clock.day + 1
      BY <1>8, <2>3 DEF NextHour
    <3>. QED  BY <1>a, <1>b, <2>1, <3>1 DEF DoneInv
  <2>. QED  BY <2>2, <2>3
<1>9. CASE Reset
  <2>1. UNCHANGED <<clock, flash, fedToday, cancelled>> /\ ram' = flash
    BY <1>9 DEF Reset
  <2>2. \A s \in Slots : Justified(s)' = Justified(s)
    BY <2>1 DEF Justified
  <2>. QED  BY <1>a, <1>b, <2>1, <2>2 DEF DoneInv
<1>10. CASE Quiet
  <2>1. UNCHANGED <<clock, flash, ram, fedToday, cancelled>>
    BY <1>10, QuietFacts
  <2>. QED  BY <1>a, <1>b, <2>1 DEF DoneInv, Justified
<1>. QED
  BY <1>1, <1>2, <1>5, <1>6, <1>7, <1>8, <1>9, <1>10 DEF Next, Quiet, Bystander

(* At whatever key the board resets, and on whatever day it starts again, a  *)
(* slot taken for done was fed, cancelled or missed today.                   *)
THEOREM DoneCorrect == Spec => []DoneMeansFed
<1>1. Init => DoneInv
  <2>. SUFFICES ASSUME Init  PROVE DoneInv
    OBVIOUS
  <2>1. clock.day = 0 /\ ram.day = -1 /\ flash = ram /\ \A s \in Slots : ~ram[s]
    BY SlotFacts DEF Init, NoDay
  <2>. QED  BY <2>1 DEF DoneInv
<1>2. DoneInv => DoneMeansFed
  BY DEF DoneInv, DoneMeansFed, Justified, SlotDone
<1>3. TypeOK /\ ControlInv /\ DoneInv /\ [Next]_vars => TypeOK' /\ ControlInv' /\ DoneInv'
  BY TypeStep, ControlStep, DoneStep
<1>. QED  BY <1>1, <1>2, <1>3, TypeInit, RecordInit, PTL DEF Spec

----------------------------------------------------------------------------
(* A command moves a servo once: what has moved and is not counted in flash  *)
(* is either being written, or counted in refed by a reset.                  *)

Pending(c) == IF c \in served /\ target[c] # exec[c] THEN 1 ELSE 0
Behind(c) == IF server[c] > exec[c] THEN server[c] - exec[c] ELSE 0

Counted(c) ==
    /\ seeded => cmdFed[c] + Behind(c) <= issued[c] + refed[c] + Pending(c)
    /\ ~seeded => cmdFed[c] = 0 /\ refed[c] = 0
    /\ c \in served => seeded
    /\ c \in served /\ target[c] # exec[c] => exec[c] < target[c] /\ target[c] <= server[c]
    /\ target[c] >= exec[c] \/ target[c] >= server[c]
    /\ task = "seed" => ~seeded /\ issued[c] = 0 /\ target[c] = server[c]

CommandInv == \A c \in Channels : Counted(c)

LEMMA CounterTypes ==
    ASSUME TypeOK, NEW c \in Channels
    PROVE  /\ exec[c] \in Nat /\ target[c] \in Nat /\ server[c] \in Nat
           /\ issued[c] \in Nat /\ cmdFed[c] \in Nat /\ refed[c] \in Nat
           /\ Pending(c) \in {0, 1} /\ Behind(c) \in Nat
BY DEF TypeOK, Pending, Behind

(* The steps that leave the commands, their counters and the task alone, but *)
(* for a task that stays outside a poll and a seeding.                       *)
Apart ==
    \/ WriteFlag \/ PassStart \/ HandleMissedSlots \/ NothingDue \/ NextHour \/ Bystander
    \/ \E m \in Meals : CancelMeal(m) \/ Feed(m)

LEMMA ApartFacts ==
    ASSUME Apart
    PROVE  /\ UNCHANGED <<exec, target, seeded, server, commands>>
           /\ task' = "seed" => task = "seed"
<1>1. CASE WriteFlag
  BY <1>1 DEF WriteFlag, counters, commands
<1>2. CASE PassStart \/ HandleMissedSlots \/ NothingDue
  BY <1>2 DEF PassStart, HandleMissedSlots, NothingDue, counters, commands
<1>3. CASE NextHour
  BY <1>3 DEF NextHour, device, counters, commands
<1>4. ASSUME NEW m \in Meals, CancelMeal(m) \/ Feed(m)
      PROVE  /\ UNCHANGED <<exec, target, seeded, server, commands>>
             /\ task' = "seed" => task = "seed"
  BY <1>4 DEF CancelMeal, Feed, counters, commands
<1>5. CASE Bystander
  BY <1>5, BystanderFacts DEF commands
<1>. QED  BY <1>1, <1>2, <1>3, <1>4, <1>5 DEF Apart

LEMMA CommandStep ==
    TypeOK /\ ControlInv /\ CommandInv /\ [Next]_vars => CommandInv'
<1>. SUFFICES ASSUME TypeOK, ControlInv, CommandInv, [Next]_vars, NEW c \in Channels
              PROVE  Counted(c)'
  BY DEF CommandInv
<1>a. Counted(c)
  BY DEF CommandInv
<1>b. /\ exec[c] \in Nat /\ target[c] \in Nat /\ server[c] \in Nat
      /\ issued[c] \in Nat /\ cmdFed[c] \in Nat /\ refed[c] \in Nat
      /\ Pending(c) \in {0, 1} /\ Behind(c) \in Nat
  BY CounterTypes
<1>c. task \notin {"seed", "poll"} => target = exec /\ served = {}
  BY DEF ControlInv, CountersSaved
<1>1. CASE Apart
  <2>1. /\ UNCHANGED <<exec, target, seeded, server, issued, cmdFed, served, refed>>
        /\ task' = "seed" => task = "seed"
    BY <1>1, ApartFacts DEF commands
  <2>2. Pending(c)' = Pending(c) /\ Behind(c)' = Behind(c)
    BY <2>1 DEF Pending, Behind
  <2>. QED  BY <1>a, <2>1, <2>2 DEF Counted
<1>2. CASE SeedCounters
  <2>1. /\ UNCHANGED <<exec, seeded, server, cmdFed, served, refed>> /\ ~seeded
        /\ target' = server /\ issued' = Zero
    BY <1>2 DEF SeedCounters
  <2>2. served = {}
    BY <1>2, <1>c DEF SeedCounters, Free
  <2>3. issued'[c] = 0
    BY <2>1 DEF Zero
  <2>. QED  BY <1>a, <1>b, <2>1, <2>2, <2>3 DEF Counted
<1>3. CASE WriteSeeded
  <2>1. /\ UNCHANGED <<exec, target, server, issued, cmdFed, served, refed>>
        /\ task = "seed" /\ task' = "idle" /\ target = exec /\ seeded' = TRUE
    BY <1>3 DEF WriteSeeded, CountersSaved, commands
  <2>2. served = {} /\ ~seeded /\ cmdFed[c] = 0 /\ exec[c] = server[c]
    BY <1>a, <2>1 DEF Counted, ControlInv
  <2>3. Behind(c)' = 0 /\ Pending(c)' = 0
    BY <1>b, <2>1, <2>2 DEF Behind, Pending
  <2>. QED  BY <1>b, <2>1, <2>2, <2>3 DEF Counted
<1>4. CASE ResolveCommands
  <2>1. PICK fed \in SUBSET Channels :
          /\ ServeChannels(fed)
          /\ cmdFed' = [d \in Channels |-> cmdFed[d] + (IF d \in fed THEN 1 ELSE 0)]
          /\ served' = fed
    BY <1>4 DEF ResolveCommands
  <2>2. /\ UNCHANGED <<exec, seeded, server, issued, refed>> /\ seeded
        /\ target' = NewExecuted /\ task' # "seed"
    BY <1>4 DEF ResolveCommands
  <2>3. Pending(c) = 0
    BY <1>4, <1>c DEF ResolveCommands, Free, Pending
  <2>4. Behind(c)' = Behind(c)
    BY <2>2 DEF Behind
  <2>5. NewExecuted[c] \in Nat
    BY CountFacts
  <2>6. CASE c \in fed
    <3>1. exec[c] < target'[c] /\ target'[c] <= server[c]
      BY <2>1, <2>2, <2>6, CountFacts, ServedFacts
    <3>2. Pending(c)' = 1
      BY <1>b, <2>1, <2>2, <2>5, <2>6, <3>1 DEF Pending
    <3>3. cmdFed'[c] = cmdFed[c] + 1
      BY <2>1, <2>6
    <3>. QED  BY <1>a, <1>b, <2>1, <2>2, <2>3, <2>4, <2>5, <3>1, <3>2, <3>3 DEF Counted
  <2>7. CASE c \notin fed
    <3>1. target'[c] >= exec[c] \/ target'[c] >= server[c]
      BY <1>b, <2>2, <2>5, CountFacts
    <3>2. Pending(c)' = 0
      BY <2>1, <2>7 DEF Pending
    <3>3. cmdFed'[c] = cmdFed[c]
      BY <1>b, <2>1, <2>7
    <3>. QED  BY <1>a, <1>b, <2>1, <2>2, <2>3, <2>4, <2>7, <3>1, <3>2, <3>3 DEF Counted
  <2>. QED  BY <2>6, <2>7
<1>5. CASE Reset
  <2>1. /\ UNCHANGED <<exec, seeded, server, issued, cmdFed>>
        /\ target' = exec /\ served' = {} /\ task' = "idle"
    BY <1>5 DEF Reset
  <2>2. refed'[c] = refed[c] + Pending(c)
    BY <1>5 DEF Reset, Pending
  <2>3. Behind(c)' = Behind(c) /\ Pending(c)' = 0
    BY <2>1 DEF Behind, Pending
  <2>4. ~seeded => Pending(c) = 0
    BY <1>a DEF Counted, Pending
  <2>. QED  BY <1>a, <1>b, <2>1, <2>2, <2>3, <2>4 DEF Counted
<1>6. ASSUME NEW d \in Channels, WriteCounter(d)  PROVE Counted(c)'
  <2>1. /\ UNCHANGED <<target, seeded, server, issued, cmdFed, refed>>
        /\ exec' = [exec EXCEPT ![d] = target[d]] /\ target[d] # exec[d]
    BY <1>6 DEF WriteCounter
  <2>2. \/ served' = {} /\ target = exec' /\ task' = "idle"
        \/ served' = served /\ task' = task
    <3>1. CASE task = "poll" /\ target = exec'
      BY <1>6, <3>1 DEF WriteCounter
    <3>2. CASE ~(task = "poll" /\ target = exec')
      BY <1>6, <3>2 DEF WriteCounter
    <3>. QED  BY <3>1, <3>2
  <2>3. CASE c = d
    <3>1. exec'[c] = target[c] /\ target'[c] = exec'[c]
      BY <2>1, <2>3 DEF TypeOK
    <3>2. Pending(c)' = 0
      BY <3>1 DEF Pending
    <3>3. Behind(c)' = IF server[c] > target[c] THEN server[c] - target[c] ELSE 0
      BY <2>1, <3>1 DEF Behind
    <3>4. Behind(c)' + Pending(c) <= Behind(c)
      BY <1>a, <1>b, <2>1, <2>3, <3>3 DEF Counted, Pending, Behind
    <3>5. Behind(c)' \in Nat
      BY <1>b, <3>3
    <3>. QED  BY <1>a, <1>b, <2>1, <2>2, <3>1, <3>2, <3>4, <3>5 DEF Counted
  <2>4. CASE c # d
    <3>1. exec'[c] = exec[c] /\ target'[c] = target[c]
      BY <2>1, <2>4 DEF TypeOK
    <3>2. Behind(c)' = Behind(c)
      BY <2>1, <3>1 DEF Behind
    <3>3. Pending(c)' = Pending(c)
      BY <2>2, <3>1 DEF Pending
    <3>. QED  BY <1>a, <1>b, <2>1, <2>2, <3>1, <3>2, <3>3 DEF Counted
  <2>. QED  BY <2>3, <2>4
<1>7. ASSUME NEW d \in Channels, Issue(d)  PROVE Counted(c)'
  <2>1. /\ UNCHANGED <<exec, target, seeded, cmdFed, served, refed, task>>
        /\ server' = [server EXCEPT ![d] = @ + 1] /\ issued' = [issued EXCEPT ![d] = @ + 1]
    BY <1>7 DEF Issue, device, counters
  <2>2. task = "idle" /\ target = exec /\ served = {}
    BY <1>7, <1>c DEF Issue, Free
  <2>3. /\ server'[c] = server[c] + (IF c = d THEN 1 ELSE 0)
        /\ issued'[c] = issued[c] + (IF c = d THEN 1 ELSE 0)
    <3>1. CASE c = d
      BY <2>1, <3>1, Increment DEF TypeOK
    <3>2. CASE c # d
      <4>1. server \in [Channels -> Nat] /\ issued \in [Channels -> Nat]
        BY DEF TypeOK
      <4>2. server'[c] = server[c] /\ issued'[c] = issued[c]
        BY <2>1, <3>2, <4>1, Increment
      <4>. QED  BY <1>b, <3>2, <4>2
    <3>. QED  BY <3>1, <3>2
  <2>4. Behind(c)' <= Behind(c) + (IF c = d THEN 1 ELSE 0) /\ Behind(c)' \in Nat
    BY <1>b, <2>1, <2>3 DEF Behind
  <2>5. Pending(c) = 0 /\ Pending(c)' = 0
    BY <2>1, <2>2 DEF Pending
  <2>. QED  BY <1>a, <1>b, <2>1, <2>2, <2>3, <2>4, <2>5 DEF Counted
<1>. QED
  BY <1>1, <1>2, <1>3, <1>4, <1>5, <1>6, <1>7 DEF Next, Apart, Bystander

LEMMA CommandInit == Init => CommandInv
<1>. SUFFICES ASSUME Init, NEW c \in Channels  PROVE Counted(c)
  BY DEF CommandInv
<1>1. /\ target = exec /\ served = {} /\ task = "idle" /\ server[c] = 0 /\ issued[c] = 0
      /\ cmdFed[c] = 0 /\ refed[c] = 0
  BY DEF Init, Zero
<1>2. exec[c] \in Nat
  BY TypeInit, CounterTypes
<1>3. Pending(c) = 0 /\ Behind(c) = 0
  BY <1>1, <1>2 DEF Pending, Behind
<1>. QED  BY <1>1, <1>2, <1>3 DEF Counted

(* Whatever the server sends, the outages it has and the key at which the    *)
(* board resets, a command moves its servo once, but once more for each      *)
(* command whose count was lost.                                             *)
THEOREM CommandOnce == Spec => []CommandAtMostOnce
<1>1. Init => CommandInv
  BY CommandInit
<1>2. TypeOK /\ CommandInv => CommandAtMostOnce
  <2>. SUFFICES ASSUME TypeOK, CommandInv, NEW c \in Channels  PROVE cmdFed[c] <= issued[c] + refed[c]
    BY DEF CommandAtMostOnce
  <2>1. Counted(c)
    BY DEF CommandInv
  <2>2. Pending(c) <= Behind(c)
    BY <2>1, CounterTypes DEF Counted, Pending, Behind
  <2>. QED  BY <2>1, <2>2, CounterTypes DEF Counted
<1>3. TypeOK /\ ControlInv /\ CommandInv /\ [Next]_vars => TypeOK' /\ ControlInv' /\ CommandInv'
  BY TypeStep, ControlStep, CommandStep
<1>. QED  BY <1>1, <1>2, <1>3, TypeInit, RecordInit, PTL DEF Spec

----------------------------------------------------------------------------
(* The balance of the commands: those issued after an outage were served,    *)
(* given up by the cap, or are still owed, by the counter in flash and by    *)
(* the one being written.                                                    *)

Owed(c) == IF Behind(c) > MaxCatchup THEN MaxCatchup ELSE Behind(c)
Excess(c) == IF server[c] - exec[c] > MaxCatchup THEN server[c] - exec[c] - MaxCatchup ELSE 0

Capping(c) ==
    /\ sinceIssue[c] + Owed(c) <= MaxCatchup + refed[c] + Pending(c)
    /\ target[c] # exec[c] => server[c] - target[c] + Pending(c) <= Owed(c)

Balanced(c) ==
    seeded =>
        /\ issued[c] + refed[c] + target[c] <= cmdFed[c] + givenUp[c] + server[c]
        /\ issued[c] + refed[c] + Pending(c) + exec[c] <= cmdFed[c] + givenUp[c] + server[c]

BalanceInv == \A c \in Channels : Capping(c) /\ Balanced(c)

LEMMA BalanceTypes ==
    ASSUME TypeOK, NEW c \in Channels
    PROVE  /\ exec[c] \in Nat /\ target[c] \in Nat /\ server[c] \in Nat
           /\ issued[c] \in Nat /\ cmdFed[c] \in Nat /\ refed[c] \in Nat
           /\ sinceIssue[c] \in Nat /\ givenUp[c] \in Nat
           /\ MaxCatchup \in Nat \ {0} /\ Owed(c) \in 0..MaxCatchup /\ Owed(c) <= Behind(c)
           /\ Pending(c) \in {0, 1} /\ Behind(c) \in Nat
<1>1. MaxCatchup \in Nat \ {0}
  BY DoseAssumption
<1>2. Pending(c) \in {0, 1} /\ Behind(c) \in Nat
  BY CounterTypes
<1>3. Owed(c) \in 0..MaxCatchup /\ Owed(c) <= Behind(c)
  BY <1>1, <1>2 DEF Owed
<1>. QED  BY <1>1, <1>2, <1>3, CounterTypes DEF TypeOK

(* A poll serves what is to serve: no sequence is refused, for a timer still *)
(* armed is a cycle in progress.                                             *)
LEMMA AllServed ==
    ASSUME NEW fed, ServeChannels(fed)
    PROVE  fed = ToServe
<1>1. CASE ToServe = {}
  BY <1>1 DEF ServeChannels
<1>2. CASE ToServe = Channels
  <2>1. ToServe # {} /\ ~seq
    BY <1>2 DEF ToServe, FeedingInProgress, Channels
  <2>. QED  BY <1>2, <2>1 DEF ServeChannels
<1>3. CASE ToServe # {} /\ ToServe # Channels
  BY <1>3 DEF ServeChannels
<1>. QED  BY <1>1, <1>2, <1>3

(* The counter a poll writes, against the one it found: behind the server by *)
(* what was owed, less what it served.                                       *)
LEMMA PollFacts ==
    ASSUME TypeOK, NEW c \in Channels
    PROVE  LET paid == IF c \in ToServe THEN 1 ELSE 0
           IN  /\ NewExecuted[c] # exec[c] => server[c] - NewExecuted[c] + paid <= Owed(c)
               /\ exec[c] + Excess(c) + paid >= NewExecuted[c]
               /\ Excess(c) \in Nat
<1>. DEFINE paid == IF c \in ToServe THEN 1 ELSE 0
<1>1. exec[c] \in Nat /\ server[c] \in Nat /\ MaxCatchup \in Nat \ {0}
  BY BalanceTypes
<1>2. NewExecuted[c] = Executed(c) + paid /\ paid \in {0, 1}
  BY DEF NewExecuted
<1>3. c \in ToServe => server[c] > Executed(c)
  BY DEF ToServe
<1>. HIDE DEF paid
<1>4. CASE server[c] < exec[c]
  <2>1. Executed(c) = server[c] /\ Excess(c) = 0 /\ Owed(c) = 0
    BY <1>1, <1>4 DEF Executed, Excess, Owed, Behind
  <2>2. paid = 0
    BY <1>1, <1>3, <2>1 DEF paid
  <2>. QED  BY <1>1, <1>2, <1>4, <2>1, <2>2 DEF paid
<1>5. CASE ~(server[c] < exec[c]) /\ server[c] - exec[c] > MaxCatchup
  <2>1. /\ Executed(c) = server[c] - MaxCatchup /\ Owed(c) = MaxCatchup
        /\ Excess(c) = server[c] - exec[c] - MaxCatchup
    BY <1>1, <1>5 DEF Executed, Excess, Owed, Behind
  <2>. QED  BY <1>1, <1>2, <1>5, <2>1 DEF paid
<1>6. CASE ~(server[c] < exec[c]) /\ ~(server[c] - exec[c] > MaxCatchup)
  <2>1. Executed(c) = exec[c] /\ Owed(c) = server[c] - exec[c] /\ Excess(c) = 0
    BY <1>1, <1>6 DEF Executed, Excess, Owed, Behind
  <2>. QED  BY <1>1, <1>2, <1>6, <2>1 DEF paid
<1>. QED  BY <1>4, <1>5, <1>6

LEMMA BalanceStep ==
    TypeOK /\ ControlInv /\ CommandInv /\ BalanceInv /\ [Next]_vars => BalanceInv'
<1>. SUFFICES ASSUME TypeOK, ControlInv, CommandInv, BalanceInv, [Next]_vars, NEW c \in Channels
              PROVE  Capping(c)' /\ Balanced(c)'
  BY DEF BalanceInv
<1>a. Capping(c) /\ Balanced(c) /\ Counted(c)
  BY DEF BalanceInv, CommandInv
<1>b. /\ exec[c] \in Nat /\ target[c] \in Nat /\ server[c] \in Nat
      /\ issued[c] \in Nat /\ cmdFed[c] \in Nat /\ refed[c] \in Nat
      /\ sinceIssue[c] \in Nat /\ givenUp[c] \in Nat
      /\ MaxCatchup \in Nat \ {0} /\ Owed(c) \in 0..MaxCatchup /\ Owed(c) <= Behind(c)
      /\ Pending(c) \in {0, 1} /\ Behind(c) \in Nat
  BY BalanceTypes
<1>c. task \notin {"seed", "poll"} => target = exec /\ served = {}
  BY DEF ControlInv, CountersSaved
<1>d. ASSUME UNCHANGED <<exec, server>>
      PROVE  Behind(c)' = Behind(c) /\ Owed(c)' = Owed(c)
  <2>1. Behind(c)' = Behind(c)
    BY <1>d DEF Behind
  <2>. QED  BY <2>1 DEF Owed
<1>1. CASE Apart
  <2>1. UNCHANGED <<exec, target, seeded, server, issued, cmdFed, served, refed, sinceIssue, givenUp>>
    BY <1>1, ApartFacts DEF commands
  <2>2. Pending(c)' = Pending(c) /\ Owed(c)' = Owed(c)
    BY <1>d, <2>1 DEF Pending
  <2>. QED  BY <1>a, <2>1, <2>2 DEF Capping, Balanced
<1>2. CASE SeedCounters
  <2>1. /\ UNCHANGED <<exec, seeded, server, served, refed, sinceIssue>> /\ ~seeded
        /\ target' = server /\ task = "idle"
    BY <1>2 DEF SeedCounters, Free
  <2>2. Pending(c) = 0 /\ Pending(c)' = 0 /\ Owed(c)' = Owed(c)
    BY <1>c, <1>d, <2>1 DEF Pending
  <2>. QED  BY <1>a, <1>b, <2>1, <2>2 DEF Capping, Balanced
<1>3. CASE WriteSeeded
  <2>1. /\ UNCHANGED <<exec, target, server, issued, cmdFed, served, refed, sinceIssue, givenUp>>
        /\ task = "seed" /\ target = exec
    BY <1>3 DEF WriteSeeded, CountersSaved, commands
  <2>2. cmdFed[c] = 0 /\ refed[c] = 0 /\ issued[c] = 0 /\ exec[c] = server[c]
    BY <1>a, <2>1 DEF Counted
  <2>3. Pending(c)' = Pending(c) /\ Owed(c)' = Owed(c) /\ Pending(c) = 0
    BY <1>d, <2>1 DEF Pending
  <2>. QED  BY <1>a, <1>b, <2>1, <2>2, <2>3 DEF Capping, Balanced
<1>4. CASE ResolveCommands
  <2>1. PICK fed \in SUBSET Channels :
          /\ ServeChannels(fed)
          /\ cmdFed' = [d \in Channels |-> cmdFed[d] + (IF d \in fed THEN 1 ELSE 0)]
          /\ sinceIssue' = [d \in Channels |-> sinceIssue[d] + (IF d \in fed THEN 1 ELSE 0)]
          /\ served' = fed
    BY <1>4 DEF ResolveCommands
  <2>. DEFINE paid == IF c \in ToServe THEN 1 ELSE 0
  <2>2. fed = ToServe
    BY <2>1, AllServed
  <2>3. /\ UNCHANGED <<exec, seeded, server, issued, refed>> /\ seeded /\ task = "idle"
        /\ target' = NewExecuted /\ givenUp'[c] = givenUp[c] + Excess(c)
    BY <1>4 DEF ResolveCommands, Free, Excess
  <2>4. cmdFed'[c] = cmdFed[c] + paid /\ sinceIssue'[c] = sinceIssue[c] + paid
    BY <2>1, <2>2
  <2>5. target = exec /\ Pending(c) = 0
    BY <1>c, <2>3 DEF Pending
  <2>6. c \in ToServe => NewExecuted[c] # exec[c]
    BY <1>b, CountFacts
  <2>7. Pending(c)' = paid /\ paid \in {0, 1}
    BY <2>1, <2>2, <2>3, <2>6 DEF Pending
  <2>8. Owed(c)' = Owed(c)
    BY <1>d, <2>3
  <2>9. /\ NewExecuted[c] # exec[c] => server[c] - NewExecuted[c] + paid <= Owed(c)
        /\ exec[c] + Excess(c) + paid >= NewExecuted[c]
        /\ Excess(c) \in Nat /\ NewExecuted[c] \in Nat
    BY PollFacts, CountFacts
  <2>. HIDE DEF paid
  <2>10. Capping(c)'
    BY <1>a, <1>b, <2>3, <2>4, <2>5, <2>7, <2>8, <2>9 DEF Capping
  <2>11. Balanced(c)'
    BY <1>a, <1>b, <2>3, <2>4, <2>5, <2>7, <2>9 DEF Balanced
  <2>. QED  BY <2>10, <2>11
<1>5. CASE Reset
  <2>1. /\ UNCHANGED <<exec, seeded, server, issued, cmdFed, sinceIssue, givenUp>>
        /\ target' = exec /\ served' = {}
    BY <1>5 DEF Reset
  <2>2. refed'[c] = refed[c] + Pending(c)
    BY <1>5 DEF Reset, Pending
  <2>3. Owed(c)' = Owed(c) /\ Pending(c)' = 0
    BY <1>d, <2>1 DEF Pending
  <2>. QED  BY <1>a, <1>b, <2>1, <2>2, <2>3 DEF Capping, Balanced
<1>6. ASSUME NEW d \in Channels, WriteCounter(d)  PROVE Capping(c)' /\ Balanced(c)'
  <2>1. /\ UNCHANGED <<target, seeded, server, issued, cmdFed, refed, sinceIssue, givenUp>>
        /\ exec' = [exec EXCEPT ![d] = target[d]] /\ target[d] # exec[d]
    BY <1>6 DEF WriteCounter
  <2>2. (served' = {} /\ target = exec') \/ served' = served
    <3>1. CASE task = "poll" /\ target = exec'
      BY <1>6, <3>1 DEF WriteCounter
    <3>2. CASE ~(task = "poll" /\ target = exec')
      BY <1>6, <3>2 DEF WriteCounter
    <3>. QED  BY <3>1, <3>2
  <2>3. CASE c = d
    <3>1. exec'[c] = target[c] /\ target'[c] = exec'[c]
      BY <2>1, <2>3 DEF TypeOK
    <3>2. Pending(c)' = 0
      BY <3>1 DEF Pending
    <3>3. Behind(c)' = IF server[c] > target[c] THEN server[c] - target[c] ELSE 0
      BY <2>1, <3>1 DEF Behind
    <3>4. server[c] - target[c] + Pending(c) <= Owed(c)
      BY <1>a, <2>1, <2>3 DEF Capping
    <3>5. Pending(c) = 1 => target[c] <= server[c]
      BY <1>a DEF Counted, Pending
    <3>6. Behind(c)' + Pending(c) <= Owed(c) /\ Behind(c)' \in Nat
      BY <1>b, <3>3, <3>4, <3>5
    <3>7. Owed(c)' <= Behind(c)' /\ Owed(c)' \in Nat
      BY <1>b, <3>6 DEF Owed
    <3>. QED  BY <1>a, <1>b, <2>1, <3>1, <3>2, <3>6, <3>7 DEF Capping, Balanced
  <2>4. CASE c # d
    <3>1. exec'[c] = exec[c] /\ target'[c] = target[c] /\ server'[c] = server[c]
      BY <2>1, <2>4 DEF TypeOK
    <3>2. Behind(c)' = Behind(c)
      BY <3>1 DEF Behind
    <3>3. Owed(c)' = Owed(c)
      BY <3>2 DEF Owed
    <3>4. Pending(c)' = Pending(c)
      BY <2>2, <3>1 DEF Pending
    <3>. QED  BY <1>a, <2>1, <3>1, <3>3, <3>4 DEF Capping, Balanced
  <2>. QED  BY <2>3, <2>4
<1>7. ASSUME NEW d \in Channels, Issue(d)  PROVE Capping(c)' /\ Balanced(c)'
  <2>1. /\ UNCHANGED <<exec, target, seeded, cmdFed, served, refed, givenUp>> /\ task = "idle"
        /\ server' = [server EXCEPT ![d] = @ + 1] /\ issued' = [issued EXCEPT ![d] = @ + 1]
        /\ sinceIssue' = [sinceIssue EXCEPT ![d] = 0]
    BY <1>7 DEF Issue, Free, device, counters
  <2>2. target = exec /\ Pending(c) = 0 /\ Pending(c)' = 0
    BY <1>c, <2>1 DEF Pending
  <2>3. CASE c = d
    <3>1. /\ server'[c] = server[c] + 1 /\ issued'[c] = issued[c] + 1 /\ sinceIssue'[c] = 0
      BY <2>1, <2>3, Increment DEF TypeOK
    <3>2. Owed(c)' \in 0..MaxCatchup
      BY <1>b, <2>1, <3>1 DEF Owed, Behind
    <3>. QED  BY <1>a, <1>b, <2>1, <2>2, <3>1, <3>2 DEF Capping, Balanced
  <2>4. CASE c # d
    <3>1. server \in [Channels -> Nat] /\ issued \in [Channels -> Nat]
      BY DEF TypeOK
    <3>2. server'[c] = server[c] /\ issued'[c] = issued[c]
      BY <2>1, <2>4, <3>1, Increment
    <3>3. sinceIssue'[c] = sinceIssue[c]
      BY <2>1, <2>4 DEF TypeOK
    <3>4. Behind(c)' = Behind(c)
      BY <2>1, <3>2 DEF Behind
    <3>5. Owed(c)' = Owed(c)
      BY <3>4 DEF Owed
    <3>. QED  BY <1>a, <2>1, <2>2, <3>2, <3>3, <3>5 DEF Capping, Balanced
  <2>. QED  BY <2>3, <2>4
<1>. QED
  BY <1>1, <1>2, <1>3, <1>4, <1>5, <1>6, <1>7 DEF Next, Apart, Bystander

LEMMA BalanceInit == Init => BalanceInv
<1>. SUFFICES ASSUME Init, NEW c \in Channels  PROVE Capping(c) /\ Balanced(c)
  BY DEF BalanceInv
<1>1. TypeOK
  BY TypeInit
<1>2. /\ exec[c] \in Nat /\ MaxCatchup \in Nat
  BY <1>1, BalanceTypes
<1>3. /\ target = exec /\ givenUp = exec /\ served = {} /\ server[c] = 0 /\ issued[c] = 0
      /\ cmdFed[c] = 0 /\ refed[c] = 0 /\ sinceIssue[c] = 0
  BY DEF Init, Zero
<1>4. Pending(c) = 0 /\ Behind(c) = 0
  BY <1>2, <1>3 DEF Pending, Behind
<1>5. Owed(c) = 0
  BY <1>2, <1>4 DEF Owed
<1>. QED  BY <1>2, <1>3, <1>4, <1>5 DEF Capping, Balanced

LEMMA BalanceCorrect == Spec => [](TypeOK /\ ControlInv /\ CommandInv /\ BalanceInv)
<1>1. /\ TypeOK /\ ControlInv /\ CommandInv /\ BalanceInv /\ [Next]_vars
           => TypeOK' /\ ControlInv' /\ CommandInv' /\ BalanceInv'
  BY TypeStep, ControlStep, CommandStep, BalanceStep
<1>. QED  BY <1>1, TypeInit, RecordInit, CommandInit, BalanceInit, PTL DEF Spec

(* However many commands pile up in an outage, at most MaxCatchup meals      *)
(* follow the last of them, but once more for each count a reset lost.       *)
THEOREM OutageCorrect == Spec => []OutageBounded
<1>1. TypeOK /\ CommandInv /\ BalanceInv => OutageBounded
  <2>. SUFFICES ASSUME TypeOK, CommandInv, BalanceInv, NEW c \in Channels
                PROVE  sinceIssue[c] <= MaxCatchup + refed[c]
    BY DEF OutageBounded
  <2>1. Capping(c) /\ Counted(c)
    BY DEF BalanceInv, CommandInv
  <2>2. Pending(c) <= Owed(c)
    BY <2>1, BalanceTypes DEF Capping, Counted, Pending
  <2>. QED  BY <2>1, <2>2, BalanceTypes DEF Capping
<1>. QED  BY <1>1, BalanceCorrect, PTL

(* Every command issued since the seeding was served, is pending or was      *)
(* given up by the cap: a reset, a cycle in progress or a poll cut short     *)
(* loses none.                                                               *)
THEOREM CommandsKept == Spec => []CommandNotLost
<1>1. TypeOK /\ BalanceInv => CommandNotLost
  <2>. SUFFICES ASSUME TypeOK, BalanceInv, Free, seeded, NEW c \in Channels
                PROVE  issued[c] <= cmdFed[c] - refed[c] + givenUp[c] + (server[c] - exec[c])
    BY DEF CommandNotLost
  <2>1. Balanced(c)
    BY DEF BalanceInv
  <2>. QED  BY <2>1, BalanceTypes DEF Balanced
<1>. QED  BY <1>1, BalanceCorrect, PTL

============================================================================
