------------------------------ MODULE Feeding ------------------------------
(* The feeding of the fish: the daily schedule (AutomatismFeedingSchedule),  *)
(* the feed commands of the remote server (FeedingCommandResolver, called by *)
(* GPIOParser), the manual meals of the web page, the servo cycle they share *)
(* and the flags and counters kept in flash, written one key at a time.      *)
(*                                                                           *)
(* The automation task runs a pass of the schedule or a poll at a time; the  *)
(* web task, the timer of the small fish and a reset of the board interleave *)
(* with the steps of both.  A meal's duration is a number of units; the hour *)
(* is read once at the start of a pass, so the clock stands still in one.    *)
EXTENDS Integers, Sequences, FiniteSets

CONSTANTS
    HoursPerDay, Morning, Noon, Evening,   \* the clock and the three slots
    Meals,            \* durations of a meal, big and small fish together
    MaxMeal,          \* FEEDING_MAX_DURATION_SEC, for both servos
    MaxDaily,         \* FEEDING_MAX_DAILY_SEC
    MaxCatchup,       \* MAX_FEED_CATCHUP
    MaxDays, MaxIssued, MaxResets   \* bounds of the exploration

ASSUME ScheduleAssumption ==
    /\ {HoursPerDay, Morning, Noon, Evening} \subseteq Nat
    /\ Morning < Noon /\ Noon < Evening /\ Evening < HoursPerDay
ASSUME DoseAssumption ==
    {MaxMeal, MaxDaily, MaxCatchup} \cup Meals \subseteq Nat \ {0}
ASSUME BoundAssumption ==
    {MaxDays, MaxIssued, MaxResets} \subseteq Nat

SlotHour == [morning |-> Morning, noon |-> Noon, evening |-> Evening]
SlotOrder == <<"morning", "noon", "evening">>
Slots == DOMAIN SlotHour
Channels == {"small", "big"}
NoDay == -1

VARIABLES
    clock,      \* day and hour of the real-time clock
    flash,      \* the schedule's flags in flash
    exec,       \* the executed counters in flash, per channel
    seeded,     \* the feedSeed key in flash
    ram,        \* ConfigManager's flags: the slots done, the day, the seconds fed
    target,     \* the counters a poll is writing to flash
    task,       \* where the automation task is in a pass or a poll
    settled,    \* uptime >= FEEDING_BOOT_GRACE_MS
    phase,      \* _currentFeedingPhase, and what the end of the phase was set for
    seq,        \* g_smallFeedInstance: the small fish's timer is armed
    web,        \* the web task in triggerLocalManualFeed
    server,     \* the server's command counters
    \* What has happened, for the properties.
    fedToday, dose, unsaved, cancelled,
    issued, cmdFed, served, refed, sinceIssue, givenUp, resets

counters == <<exec, seeded, target>>
device == <<flash, ram, counters, task, settled>>
cycle == <<phase, seq>>
meals == <<fedToday, dose, unsaved, cancelled>>
commands == <<issued, cmdFed, served, refed, sinceIssue, givenUp>>
vars == <<clock, device, cycle, web, server, meals, commands, resets>>

Zero == [c \in Channels |-> 0]

(* A new board, or a seeded one whose server has lost its counters: as many  *)
(* commands to come then go unnoticed.                                       *)
Init ==
    /\ clock = [day |-> 0, hour |-> 0]
    /\ ram = [morning |-> FALSE, noon |-> FALSE, evening |-> FALSE, day |-> NoDay, fed |-> 0]
    /\ flash = ram
    /\ seeded \in BOOLEAN
    /\ exec \in IF seeded THEN {Zero, [small |-> 1, big |-> 0]} ELSE {Zero}
    /\ target = exec /\ givenUp = exec
    /\ task = "idle" /\ settled = FALSE
    /\ phase = "none" /\ seq = FALSE /\ web = "idle"
    /\ server = Zero
    /\ fedToday = [s \in Slots |-> 0] /\ dose = 0 /\ unsaved = 0 /\ cancelled = {}
    /\ issued = Zero /\ cmdFed = Zero /\ served = {} /\ refed = Zero
    /\ sinceIssue = Zero /\ resets = 0

----------------------------------------------------------------------------
(* Saving.                                                                   *)

(* Mutants: the day before the flags it belongs to; the total not saved.    *)
FlagKeysDayFirst == <<"day", "morning", "noon", "evening", "fed">>
FlagKeysWithoutFed == <<"morning", "noon", "evening", "day">>
FlagKeys == <<"morning", "noon", "evening", "day", "fed">>

Unsaved(k) == flash[k] # ram[k]
FlagsSaved == \A i \in DOMAIN FlagKeys : ~Unsaved(FlagKeys[i])

(* saveBouffeFlags writes the next flag that differs from the one in flash;  *)
(* the last one ends the handling of a meal.                                 *)
WriteFlag ==
    /\ \E i \in DOMAIN FlagKeys :
        /\ Unsaved(FlagKeys[i]) /\ \A j \in 1..(i - 1) : ~Unsaved(FlagKeys[j])
        /\ flash' = [flash EXCEPT ![FlagKeys[i]] = ram[FlagKeys[i]]]
    /\ UNCHANGED <<clock, ram, counters, settled, cycle, web, server, meals, commands, resets>>
    /\ task' = IF task \in {"mark", "cancel"} /\ FlagsSaved' THEN "idle" ELSE task

(* The counters are written one after the other, small fish first.           *)
CountersSaved == target = exec

WriteCounter(c) ==
    /\ target[c] # exec[c]
    /\ c = "big" => target["small"] = exec["small"]
    /\ exec' = [exec EXCEPT ![c] = target[c]]
    /\ IF task = "poll" /\ target = exec'
       THEN task' = "idle" /\ served' = {}
       ELSE UNCHANGED <<task, served>>
    /\ UNCHANGED <<clock, flash, ram, seeded, target, settled, cycle, web, server, meals, issued,
                   cmdFed, refed, sinceIssue, givenUp, resets>>

----------------------------------------------------------------------------
(* The servo cycle.                                                          *)

FeedingInProgress == phase # "none" \/ seq

Free == task = "idle"

(* feedSequential: the big fish at once, the small fish by a timer, which    *)
(* may fail to start; refused while the timer is armed.  Only the automation *)
(* task arms it, and not while a cycle is in progress: a meal of the schedule *)
(* is never refused.                                                         *)
FeedSequential == ~seq /\ seq' \in BOOLEAN /\ phase' = "sequence"

SmallFishTimer ==
    /\ seq
    /\ seq' = FALSE
    /\ UNCHANGED <<clock, device, phase, web, server, meals, commands, resets>>

(* finalizeFeedingIfNeeded: the end set for a sequence comes after its timer; *)
(* a manual meal of the web page may have replaced it.                       *)
FinalizeFeeding ==
    /\ Free
    /\ phase # "none"
    /\ phase = "sequence" => ~seq
    /\ phase' = "none"
    /\ UNCHANGED <<clock, device, seq, web, server, meals, commands, resets>>

(* triggerLocalManualFeed, in the web task: the test, then the meal.         *)
WebTest ==
    /\ web = "idle"
    /\ ~FeedingInProgress
    /\ web' = "allowed"
    /\ UNCHANGED <<clock, device, cycle, server, meals, commands, resets>>

WebFeed ==
    /\ web = "allowed"
    /\ web' = "idle" /\ phase' = "single"
    /\ UNCHANGED <<clock, device, seq, server, meals, commands, resets>>

----------------------------------------------------------------------------
(* The schedule.                                                             *)

NoSlotDone(r) == [r EXCEPT !.morning = FALSE, !.noon = FALSE, !.evening = FALSE]

(* Mutant: setLastJourBouf is forgotten.                                     *)
CheckNewDayForgotten ==
    IF ram.day = NoDay THEN [ram EXCEPT !.day = clock.day]
    ELSE IF ram.day = clock.day THEN ram
    ELSE [NoSlotDone(ram) EXCEPT !.fed = 0]

CheckNewDay ==
    IF ram.day = NoDay THEN [ram EXCEPT !.day = clock.day]
    ELSE IF ram.day = clock.day THEN ram
    ELSE [NoSlotDone(ram) EXCEPT !.day = clock.day, !.fed = 0]

PassStart ==
    /\ Free /\ ~FeedingInProgress
    /\ ram' = CheckNewDay
    /\ task' = "missed"
    /\ UNCHANGED <<clock, flash, counters, settled, cycle, web, server, meals, commands, resets>>

SlotDone(s) == ram[s]

MarkSlots(r, hs) ==
    [k \in DOMAIN r |-> IF k \in Slots THEN r[k] \/ SlotHour[k] \in hs ELSE r[k]]

IsSlotMissed(s) == clock.hour > SlotHour[s] + 1

HandleMissedSlots ==
    /\ task = "missed" /\ FlagsSaved
    /\ ram' = IF settled THEN MarkSlots(ram, {SlotHour[s] : s \in {t \in Slots : IsSlotMissed(t)}})
                         ELSE ram
    /\ task' = "feed"
    /\ UNCHANGED <<clock, flash, counters, settled, cycle, web, server, meals, commands, resets>>

ShouldFeed(s) ==
    /\ ~SlotDone(s)
    /\ \/ clock.hour = SlotHour[s]
       \/ settled /\ clock.hour = (SlotHour[s] + 1) % HoursPerDay

Due == {i \in DOMAIN SlotOrder : ShouldFeed(SlotOrder[i])}
DueSlot == SlotOrder[CHOOSE i \in Due : \A j \in Due : i <= j]

Capped(m) == IF m > MaxMeal THEN MaxMeal ELSE m

OverDailyCap(m) == ram.fed + m > MaxDaily

NothingDue ==
    /\ task = "feed" /\ FlagsSaved /\ Due = {}
    /\ task' = "idle"
    /\ UNCHANGED <<clock, flash, ram, counters, settled, cycle, web, server, meals, commands,
                   resets>>

CancelMeal(m) ==
    /\ task = "feed" /\ FlagsSaved /\ Due # {}
    /\ OverDailyCap(Capped(m))
    /\ ram' = MarkSlots(ram, {SlotHour[DueSlot]})
    /\ cancelled' = cancelled \cup {DueSlot}
    /\ task' = "cancel"
    /\ UNCHANGED <<clock, flash, counters, settled, cycle, web, server, fedToday, dose, unsaved,
                   commands, resets>>

Feed(m) ==
    /\ task = "feed" /\ FlagsSaved /\ Due # {}
    /\ ~OverDailyCap(Capped(m))
    /\ FeedSequential
    /\ ram' = MarkSlots([ram EXCEPT !.fed = @ + Capped(m)], {SlotHour[DueSlot]})
    /\ fedToday' = [fedToday EXCEPT ![DueSlot] = @ + 1]
    /\ dose' = dose + Capped(m)
    /\ task' = "mark"
    /\ UNCHANGED <<clock, flash, counters, settled, web, server, unsaved, cancelled, commands, resets>>

----------------------------------------------------------------------------
(* The server's commands.                                                    *)

(* Mutant: no cap on the meals to catch up.                                  *)
ExecutedUncapped(c) == IF server[c] < exec[c] THEN server[c] ELSE exec[c]

(* The counter a poll starts from: the server's if it went back, and never   *)
(* further behind than MaxCatchup.                                           *)
Executed(c) ==
    CASE server[c] < exec[c] -> server[c]
      [] server[c] - exec[c] > MaxCatchup -> server[c] - MaxCatchup
      [] OTHER -> exec[c]

(* Mutant: a cycle in progress does not delay a command.                     *)
ToServeAlways == {c \in Channels : server[c] > Executed(c)}
ToServe == IF FeedingInProgress THEN {} ELSE {c \in Channels : server[c] > Executed(c)}

(* Mutant: of two channels served only one is counted.                       *)
NewExecutedBigFirst ==
    [c \in Channels |-> Executed(c) + (IF c \in ToServe /\ (c = "big" \/ "big" \notin ToServe)
                                       THEN 1 ELSE 0)]
NewExecuted == [c \in Channels |-> Executed(c) + (IF c \in ToServe THEN 1 ELSE 0)]

(* The first poll after a flash adopts the server's counters; the seeded     *)
(* flag is written last.                                                     *)
SeedCounters ==
    /\ Free /\ ~seeded
    /\ target' = server
    /\ task' = "seed"
    /\ issued' = Zero
    /\ UNCHANGED <<clock, flash, ram, exec, seeded, settled, cycle, web, server, meals, cmdFed,
                   served, refed, sinceIssue, givenUp, resets>>

WriteSeeded ==
    /\ task = "seed" /\ CountersSaved
    /\ seeded' = TRUE /\ task' = "idle"
    /\ UNCHANGED <<clock, flash, ram, exec, target, settled, cycle, web, server, meals, commands,
                   resets>>

(* The servos move for the channels served: both in sequence, or one; a      *)
(* sequence may be refused.                                                  *)
ServeChannels(fed) ==
    CASE ToServe = {} -> fed = {} /\ UNCHANGED cycle
      [] ToServe = Channels -> \/ FeedSequential /\ fed = Channels
                               \/ seq /\ fed = {} /\ UNCHANGED cycle
      [] OTHER -> fed = ToServe /\ phase' = "single" /\ UNCHANGED seq

ResolveCommands ==
    /\ Free /\ seeded
    /\ \E fed \in SUBSET Channels :
        /\ ServeChannels(fed)
        /\ cmdFed' = [c \in Channels |-> cmdFed[c] + (IF c \in fed THEN 1 ELSE 0)]
        /\ sinceIssue' = [c \in Channels |-> sinceIssue[c] + (IF c \in fed THEN 1 ELSE 0)]
        /\ served' = fed
    /\ target' = NewExecuted
    /\ givenUp' = [c \in Channels |->
                     givenUp[c] + (IF server[c] - exec[c] > MaxCatchup
                                   THEN server[c] - exec[c] - MaxCatchup ELSE 0)]
    /\ task' = IF target' = exec THEN "idle" ELSE "poll"
    /\ UNCHANGED <<clock, flash, ram, exec, seeded, settled, web, server, meals, issued, refed, resets>>

----------------------------------------------------------------------------
(* The environment.                                                          *)

NextHour ==
    /\ Free
    /\ IF clock.hour + 1 < HoursPerDay
       THEN /\ clock' = [clock EXCEPT !.hour = @ + 1]
            /\ UNCHANGED meals
       ELSE /\ clock.day < MaxDays
            /\ clock' = [day |-> clock.day + 1, hour |-> 0]
            /\ fedToday' = [s \in Slots |-> 0] /\ dose' = 0 /\ unsaved' = 0 /\ cancelled' = {}
    /\ UNCHANGED <<device, cycle, web, server, commands, resets>>

GraceEnds ==
    /\ ~settled /\ settled' = TRUE
    /\ UNCHANGED <<clock, flash, ram, counters, task, cycle, web, server, meals, commands,
                   resets>>

(* The automation task reads the counters at a poll only: an issue within a  *)
(* pass or a save is the same as one after it.                               *)
Issue(c) ==
    /\ Free
    /\ server.small + server.big < MaxIssued
    /\ server' = [server EXCEPT ![c] = @ + 1]
    /\ issued' = [issued EXCEPT ![c] = @ + 1]
    /\ sinceIssue' = [sinceIssue EXCEPT ![c] = 0]
    /\ UNCHANGED <<clock, device, cycle, web, meals, cmdFed, served, refed, givenUp, resets>>

(* A reset of the board: what was not yet in flash is lost.                  *)
Reset ==
    /\ resets < MaxResets
    /\ resets' = resets + 1
    /\ ram' = flash /\ target' = exec
    /\ task' = "idle" /\ settled' = FALSE
    /\ phase' = "none" /\ seq' = FALSE /\ web' = "idle"
    /\ served' = {}
    /\ unsaved' = unsaved + (IF task = "mark" /\ Unsaved("fed") THEN 1 ELSE 0)
    /\ refed' = [c \in Channels |->
                   refed[c] + (IF c \in served /\ target[c] # exec[c] THEN 1 ELSE 0)]
    /\ UNCHANGED <<clock, flash, exec, seeded, server, fedToday, dose, cancelled, issued, cmdFed, sinceIssue, givenUp>>

Next ==
    \/ WriteFlag \/ SmallFishTimer \/ FinalizeFeeding \/ WebTest \/ WebFeed
    \/ PassStart \/ HandleMissedSlots \/ NothingDue
    \/ \E m \in Meals : CancelMeal(m) \/ Feed(m)
    \/ SeedCounters \/ WriteSeeded \/ ResolveCommands
    \/ NextHour \/ GraceEnds \/ Reset
    \/ \E c \in Channels : WriteCounter(c) \/ Issue(c)

Spec == Init /\ [][Next]_vars

----------------------------------------------------------------------------
(* Properties.                                                               *)

Day == {NoDay} \cup 0..MaxDays

Flags(feds) == [morning : BOOLEAN, noon : BOOLEAN, evening : BOOLEAN, day : Day, fed : feds]

(* Type of the state; the total in RAM, and so in flash, keeps to the cap.   *)
TypeOK ==
    /\ clock \in [day : 0..MaxDays, hour : 0..HoursPerDay - 1]
    /\ {flash, ram} \subseteq Flags(0..MaxDaily)
    /\ {exec, target, server} \subseteq [Channels -> Nat]
    /\ task \in {"idle", "missed", "feed", "mark", "cancel", "seed", "poll"}
    /\ seeded \in BOOLEAN
    /\ settled \in BOOLEAN /\ seq \in BOOLEAN
    /\ phase \in {"none", "single", "sequence"} /\ web \in {"idle", "allowed"}
    /\ fedToday \in [Slots -> Nat] /\ {dose, unsaved, resets} \subseteq Nat
    /\ {issued, cmdFed, refed, sinceIssue, givenUp} \subseteq [Channels -> Nat]
    /\ cancelled \subseteq Slots /\ served \subseteq Channels

(* No slot is fed twice in a day, but once more for each reset that hits     *)
(* between the servo's start and the last write of markSlotsDone's save.     *)
MealOncePerSlot == \A s \in Slots : fedToday[s] <= 1 + unsaved

(* The automatic meals of a day stay within FEEDING_MAX_DAILY_SEC, whatever  *)
(* durations the configuration asks for, but for the meals of which a reset  *)
(* lost the record.                                                          *)
DailyDose == dose <= MaxDaily + MaxMeal * unsaved

(* A slot is taken for done only if it was fed this day, cancelled for the   *)
(* daily cap, or its hour and its catch-up hour have passed: the flags of    *)
(* yesterday never count for today, though the save of a new day may be cut  *)
(* short by a reset at any key.                                              *)
DoneMeansFed ==
    Free /\ ram.day = clock.day =>
        \A s \in Slots :
            SlotDone(s) => \/ fedToday[s] > 0
                          \/ s \in cancelled
                          \/ clock.hour > SlotHour[s] + 1

(* A command of the server moves its servo at most once, but once more for   *)
(* each reset that hits between the servo and the write of its counter.      *)
CommandAtMostOnce == \A c \in Channels : cmdFed[c] <= issued[c] + refed[c]

(* However many commands an outage has let pile up, no more than MaxCatchup  *)
(* meals follow the last of them.                                            *)
OutageBounded == \A c \in Channels : sinceIssue[c] <= MaxCatchup + refed[c]

(* No command is lost: each one issued since the seeding has been served, is *)
(* pending, or was given up by the cap (or hidden by a counter the server     *)
(* took back before the start); a cycle in progress only delays it.          *)
CommandNotLost ==
    Free /\ seeded =>
        \A c \in Channels :
            issued[c] <= cmdFed[c] - refed[c] + givenUp[c] + (server[c] - exec[c])

============================================================================
