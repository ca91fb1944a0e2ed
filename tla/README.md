# Verification of the n3 firmwares

The repository holds the firmware of a family of ESP32 boards. The largest,
`ffp5cs`, drives an aquaponics tank: it refills the aquarium from a reserve,
feeds the fish, reports to a server and obeys its commands, on half a dozen
FreeRTOS tasks that share queues, a request pool and the flash store. The
others wake from deep sleep, measure or take a photo, tell the server and
sleep again, or count bottles on a kiosk, over the libraries in `src/shared`.
This directory models them in TLA+, checks them with TLC and proves the main
invariants with TLAPS.

Run everything from this directory:

    tlc -workers 2 -config NetRpc.cfg NetRpc     # and so for every .cfg below
    tlapm NetRpcProofs.tla                       # and the other *Proofs.tla

## Inventory

| Part | State | Operations and hard behaviour | What makes it correct |
|---|---|---|---|
| Network RPC (`net_request_pool`, `app_tasks_net`) | slot pool with reserved slots, `g_netQueue`, notifications | allocate, submit, wait with timeout, cancel, late answer, OTA drain | no slot leaks or has two owners, an answer is for the question asked |
| POST pipeline (`app_tasks_post`, `web_client_queue`, `sd_logger`, `automatism_sync`) | sender queue, NVS queue, SD files, RAM queue | offer, relay, defer, retry, replay; WiFi loss, OTA, reset between two writes | a measurement is delivered or dropped by design only |
| RAM queue (`data_queue`) | ring of 1-5 entries | push, peek, pop; two tasks | drop-oldest FIFO; what is popped was accepted |
| Refill (`automatism_refill`, `system_actuators`) | relay, lock and reason, retries, time stamps | six checks a cycle, manual start and stop from web or server, clock wrap, light sleep | every refill ends, a locked pump is off, it does not run dry, locks are released |
| Feeding (`automatism_feeding_schedule`, `gpio_parser`, `config`) | slots done, day, seconds fed, command counters in flash | daily pass, catch-up, remote counters, web meal, timer, saves one key at a time | no meal twice, no overdose, no lost command |
| Settings (`nvs_manager*`, `config`, `web_routes_nvs`) | flash keys, RAM cache, the controller's copy | migration, saves by two tasks, the inspector's edits, failed writes | the old values arrive once; the controller ends with the server's values |
| Sleep (`automatism_sleep`, `power`, `app_tasks`) | wake reasons, snapshot of the actuators, transport | stop, sleep, restore, reconnect, post | sleeps again and again, wakes as it was |
| Clock (`power`, `n3_clock_decision`, `n3_sleep_clock`) | difference with true time, two sources of trust | synchronise, correct after sleep, reset | a trusted clock signs well; trust returns |
| OTA (`app_tasks_ota`, `ota_manager*`) | two partitions, probation, exclusivity, failed boots | check, download, validate, reboot, roll back | the selected image is whole, a confirmed one is good |
| Wi-Fi (`wifi_manager`, `web_routes_wifi`) | link, attempt flags, saved networks | loop, wake and web page each connect | joins again; the list loses nothing |
| Alerts and mailer (`automatism_display`, `mailer*`, `task_mail`) | latches, mail queue, retries, budget | rise, fall, cover by the server, give up | a latch stands for a mail; a low level is told |
| Heater (`heater_orchestrator`, `gpio_parser`, `web_server`) | relay, `heaterPrevState`, the server's document and its copy in flash | regulate, poll, boot fetch, page, report | the water decides, whatever was commanded before |
| Sensors (`sensor*`, `system_sensors`) | failure counts, history | fail, disable, test, refuse a jump | what is shown follows the level |
| Web page and sockets (`websocket.js`, `realtime_websocket.h`) | sockets, tokens, timers | connect, fall back, poll, sleep | the page is refreshed again |
| Contact diagnostics (`contact_diag`, `n3_event_ring`, `n3_boot_diag`) | event ring, boot count | record, save, report, acknowledge | numbers are unique, nothing pending is lost |
| Greenhouse `n3pp` | RTC memory, commands | wake, water, alert, post, sleep | doses and mails as meant |
| Weather and tracker `msp` | RTC memory, angles | calibrate, track, sleep | stops at the sun, calibrates once |
| Camera `uploadphotosserver`, `n3_store_forward` | card, count and cursor in flash | take, queue, drain, update | a photo stays queued until sent; the queue empties |
| Bottle counter `poissonglouton`, `n3_wifi*` | journal, ring, totals, session | detect, store, upload, acknowledge, connect | each bottle counts once and arrives |
| OTA library (`n3_ota*`) | slots, accumulated sleep, safe mode | check, stream, verify | always a whole image, the published one in the end |
| `energie`, `hardware`, `tools`, `scripts` | - | bench, board generators, build | not part of a running system |

Tasks of `ffp5cs` and how they meet: autoTask runs `Automatism::update`, cycle
after cycle; netTask owns HTTP and serves `g_netQueue`; postSenderTask serves
the sender queue; the web task calls `sendFullUpdate`, `startTankPumpManual`,
`triggerLocalManualFeed` and the settings' saves directly on the automation's
state; the OTA task sets the exclusivity that the others poll; the Arduino loop
drives the Wi-Fi manager and the clock; a mail task empties the mail queue;
FreeRTOS timers end servo movements. The deep-sleep boards run one task; what
crosses there is the board with its resets, wakes, server and user.

## Modules

| Module | Models | State and actions |
|---|---|---|
| `NetRpc` | request pool, `g_netQueue`, netTask, callers | `used`, `req` are the pool, `netQueue` the queue of slot numbers; `AllocFetch`, `AllocPost`, `AllocOta`, then the caller's steps (`SubmitRpc`, `RpcDone`, `RpcTimeout`, `RpcLateNotified`, `RpcGiveUp`) interleave with netTask's (`NetStart`.. `NetFree`, `NetDrain`) |
| `PostPipeline` | the way of a measurement to the server | one action per stage; NVS and SD operations take as many steps as the code takes locks or writes |
| `DropFifo` | the abstract drop-oldest queue | `contents` |
| `DataQueue` | the ring, which implements `DropFifo` | a method per action; `hand` is what a replay has peeked at |
| `Refill` | `handleRefill` and all that starts or stops the tank pump | `stage` is the sub-function reached in the cycle; the web task's command is three steps (`WebSwitch`, `WebStamp`, `WebClear`) since its stores are not atomic |
| `Feeding` | schedule, command counters, servo cycle, saves | `task` says where the automation task is; `WriteFlag`, `WriteCounter` and `WriteSeeded` write one key of flash each; `Reset` may fall between any two |
| `Settings` | migration, cache and saves | `flash`, `cache` and `ram` are the three copies; each task's save goes through them in steps |
| `Sensors` | a sensor's failures and tests | one `Pass` of the sensor task; `world` is the true level and the state of the sensor |
| `Alerts` | level and flood alerts, the mail queue | `Update` is a pass of `handleAlerts`, `Mail` one of the mail task |
| `Heater` | the heater's relay | `relay` and the regulation's record `prev`; a poll, the boot fetch, the regulation and the page's request each switch it in their own steps |
| `SleepCycle`, `Clock`, `WebPage` | a light sleep, the clock, the browser's page | `pc` in `handleAutoSleep`; differences with true time; chains of attempts and sockets |
| `Ota`, `Manifest` | updates of `ffp5cs`, the choice of an image | checkers, the update task, `bootp`/`img` for the boot loader; the cascade as a function of the document |
| `StaLink`, `SavedNets` | the station's link, the saved list | three tasks' attempts; one key of flash per step |
| `Node`, `NodeAlerts` | a wake of the greenhouse, its alerts | a callback of `n3AppRun` per action |
| `Tracker` | a wake of the solar tracker | a step of the tracking per action |
| `CameraQueue`, `CameraWake` | the camera's photos and the rest of its wake | writes of card and flash one by one |
| `EventLog`, `LibOta` | event ring and boot count, OTA library | one slot saved, one chunk streamed per action |
| `BottleStore`, `WifiLink`, `BottleSense` | memory, connection and sensors of the kiosk | `todo` holds the durable writes a handler has queued; a poll of the session; a turn of the loop |
| `Kiosk`, `Boards`, `Aquarium`, `AquaSleep`, `AquaNet` | the parts above, checked together | `part` (in `AquaSleep`, `aspect`) says which one moves |
| `NetRpcProofs`, `PostPipelineProofs`, `RefillProofs`, `FeedingProofs` | theorems about the module of that name | |
| `AquaNetProofs`, `AquariumProofs`, `BoardsProofs`, `KioskProofs` | theorems about the parts of `AquaNet`; of `Aquarium` and `AquaSleep`; of `Boards`; of `Kiosk` | |

`Kiosk` to `AquaNet` put modules side by side. Their parts are on different
boards or share no variable: what one takes from another (a level, the
network, the length of a sleep) is a free choice in its module, which allows
more than the other part does. Interleaving such parts would only multiply
states, so a behaviour follows one part and leaves the others as they start,
and one run answers for all. Where parts do meet, they are in one module:
netTask with its callers, the pipeline's five stages, the web task with the
refill, the feeding or the settings, sleep with commands and POSTs, the
three tasks that connect, the alerts with the mailer.

A mutant operator, commented `Mutant:` or named for the bug, stands before the
definition it is a wrong version of; no specification uses it.

### What is abstracted

* Texts, pages, logs, drawing and the content of messages; a payload, photo or
  bottle is a number, an image its version, a network or key a name.
* Time is a choice or a small counter: a poll is told whether its deadline has
  passed, ages stop at their limit.
* `NetRpc`: heartbeats, which share the sender queue (their drop when it is
  full is visible to nobody); a request names itself by a number so that
  answers can be told apart.
* `PostPipeline`: `queueFailedPost`'s shift of a full queue is one step; log
  rotation is left out. Two overlapping operations on the NVS queue set
  `raced`, a reset inside `saveMeta` sets `torn`: properties that do not hold
  then say so.
* `Refill`: a tick of the clock is one automation cycle, levels are a few
  numbers around the thresholds, 0 is an unknown reading. Pump statistics and
  safe mode are left out. A web command may fall anywhere in one cycle and the
  sleep after it, not span two cycles; where the controller acts in the middle
  of it `raced` is set. The flood alert may be raised late or not at all, which
  allows more behaviours than the code.
* `Feeding`: an hour is a step of the clock, the end of a feeding phase a step
  of the scheduler (after the small fish's timer for a sequence, as the two
  durations are ordered in the code). Equal values are not written to flash,
  as in `NVSManager::saveBool`. The server issues commands between two polls:
  as polls alone read its counters, this leaves nothing out.
* `SleepCycle`: the rules on tides that choose a sleep's length are a choice.
* `Heater`: the water is below the threshold, above the hysteresis or between;
  the server takes a report over or keeps its own state. Light sleep, which
  restores the relay, is in `SleepCycle`.
* `Sensors`: filters but for the refusal of jumps.
* `Tracker`: one axis of two, with the sun on one side or the other.
* `BottleStore`: a record is two halves, so that a short write leaves half of it.

Ghost variables (`seen`, `told`, `faults`, `raced`, `torn`, `kept`, `newer`,
`failed`...) remember what a property needs of the past and no guard reads them.

## Runs

| Run | Question | Bounds |
|---|---|---|
| `NetRpc` | no leak, one owner, fresh answers, POSTs taken once and in the end | pool of 6 (the smallest: 1 shared slot and 5 reserved), 2 tasks, 3 requests: a slot is reused while a late answer is in flight |
| `NetRpcDoubleFree` (violation) | is the double free harmless, as `app_tasks.cpp:370` says | 5 requests |
| `PostPipeline` | WROOM board: nothing vanishes but by design | 3 measurements, queues of 1, NVS of 2, 1 reset: every store overflows |
| `PostPipelineSd` | S3 board: the card keeps what is undelivered and delivers it | 2 measurements, 1 reset |
| `Refill` | refills end, locks hold, no dry run | 4 aquarium levels, 3 tank levels, clock modulo 6 and maximum 3, one manual command, 2 retries: the clock wraps inside a refill |
| `RefillLocks` | locks are released in the end | no manual command, a dead zone between the tank's thresholds |
| `Feeding` | no meal or command twice but for a lost record, no stale flag, no lost command | 2 days of 4 hours, 3 slots, meals longer than the cap, a daily cap that the third meal meets, 2 commands, catch-up of 1, 1 reset |
| `Kiosk` | bottles exact through resets, an object counted once, the kiosk reconnects | 3 bottles, ring and batch of 2, compaction at 2, 1 reset and 1 short write: the ring overflows and the journal is compacted; 2 networks, 2 moves, 1 sound; every set of sensors |
| `Boards` | doses, mails, log, photos, updates, panel and image as meant | budgets, cooldowns and intervals of 2, 1 reset each, a ring of 3 with 6 events, 2 photos with 2 refusals, a panel of 9 angles whose step divides its range, 3 versions of which one cannot connect, 2 lost links, safe mode after 3 failed wakes |
| `Aquarium` | old settings moved, settings settle, sensors followed, alerts told | 1 edit, 1 reset, 1 failed write, the inspector; 3 levels more than a jump apart, 2 moves; mail queue of 2, budget of 3 |
| `AquaSleep` | sleeps and restores, the clock's trust, the page fresh | 1 actuator, 2 visits, 1 reset; differences up to 6 with a window of 5; 2 sessions, 2 outages, 3 chains of attempts |
| `AquaNet` | FIFO, image proven, link and list kept, the heater regulated | 2 payloads, argument 7 (clamped to 5), one task; 3 versions, 1 reset; 2 attempts, 1 move, 1 sleep, 1 visit; 4 names, a list of 2 (and one past it), 5 calls, 2 resets; 1 switch or reset after what an earlier life left on server and flash |

The "violation" run checks one sentence of the repository's comments and
fails; `PROJECT.json` quotes the sentence under "findings".

Why these bounds: each hazard needs a fixed small number of actors. A stale
answer needs one slot, two requests and one timeout; a torn save needs one reset;
a wrap needs a clock shorter than two refills; the cap needs one meal more than
it allows; a counter at its limit needs a limit of 2. The constants are the
smallest for which the mutants listed in `PROJECT.json`, one for each property,
are all caught.

Deadlock is not checked where a bounded number of requests, resets, moves or
payloads lets the model stop.

### Fairness

Every task and loop of the firmware runs for ever under FreeRTOS, HTTP and
Wi-Fi calls have timeouts, and timers fire: the steps of a task are weakly
fair. What users, servers, networks, resets and faults do is never fair.
Strong fairness stands only for "tried again and again, it succeeds in the end":

* `NetRpc`: netTask and each caller are weakly fair.
* `PostPipeline` (`SdDelivers`): the tasks are weakly fair; a request tried
  again and again succeeds, and `replayPending` reaches every file (strong),
  both under the property's own condition that network and OTA leave the
  device alone.
* `Refill` (`LocksAreReleased`): autoTask runs its cycle for ever and a web
  command finishes. Readings are free; the property starts from levels that
  stay good.
* `WifiLink`: polls whose deadline has passed (strong: a poll may find it not
  passed yet any number of times), the end of a sound, an attempt without a
  pinned access point among attempts with one.
* `Settings`: a poll answered among those that fail (strong). `LibOta`: a
  contact that is possible again and again (strong).
* `CameraQueue`, `CameraWake`, `Tracker`: the steps of a wake and the sleep's
  end. `Sensors`, `Alerts`, `Heater`, `SleepCycle`, `Clock`, `StaLink`, `Ota`:
  the tasks and the clock's tick. `WebPage`: the browser's timers and socket events, and
  the board's answers.

## Proofs

`NetRpcProofs`, for every pool of at least 6 slots, any set of tasks and number of
requests:

* `TypeCorrect`: `Spec => []TypeOK`.
* `NoLeakCorrect`: `Spec => []NoSlotLeak`. Not inductive by itself: the
  invariant `LeakInv` adds `ControlInv` (what each control point implies for
  the slot in hand) and `HolderInv` (each used slot is held by a caller, by
  the queue or by netTask). A late answer leaves the queue and the caller's
  hand at different steps, which is why the holders must be a disjunction.
* `FreshCorrect`: `Spec => []FreshSuccess`. `FreshInv` ties the success flag of
  a slot to the request netTask read from it.

and for the time before a caller gives up on a fetch or an OTA drains one:

* `SingleOwnerCorrect`: `Spec => []SingleOwner`. `OwnerInv` adds to the property
  that the caller's flag `cancelled` is down, that netTask replies only to a
  fetch, and that a caller that was notified is the last to hold its slot; the
  step from netTask's hand to the caller's is the notification, and only
  `HolderInv` says who that caller is.
* `PostsHandedOnceCorrect`: `Spec => []PostsHandedOnce`. `PostInv` follows the
  name of each request: none yet given has been anywhere (`Unsent`), the one a
  task fills in is in no slot of the queue, and those in the queue are of
  different requests.

`PostPipelineProofs`, for queues of any length, any number of keys, measurements
and resets:

* `SdKeepsUndeliveredCorrect` (`SdKeepsUndelivered`). The invariant `CardInv`
  says that no file has a number still to be given, that a POST on its way under
  a number finds under it its own file or none, and that `markSent` follows a
  success of that POST. It does not hold once a reset has fallen into
  `saveMeta`: the numbers then start again below the files.
* `NothingVanishesCorrect` (`NothingVanishes`). The place of an entry depends on
  how far an operation on NVS has come: `WriterInv` says that a written entry is
  under the key below the count its writer will save, `Reading` that the replay
  has removed only what the server took, and `Stored` counts, once the replay
  has compacted, with the count still to be saved. `Ranks` shows that
  compaction gives each remaining entry a key of its own below that count, by
  the cardinalities of the sets of entries before it.

`FeedingProofs`, for every schedule, set of durations, caps and number of resets:

* `TypeCorrect`; in particular the recorded total of a day never exceeds the cap.
* `SlotFedOnce` (`MealOncePerSlot`) and `DoseBounded` (`DailyDose`). Both hold
  because a meal of today is always on record somewhere: in RAM at once, and in
  flash but for the one being marked. `MealInv` and `DoseInv` say so of both
  records, and `ControlInv` says when flash is up to date. The delicate step is
  the write of one flag while the day in flash is still another's: `WriteRecord`
  shows that no write takes a meal of today off the record. Of the order of the
  keys it uses only that the total comes last in `saveBouffeFlags`.
* `DoneCorrect` (`DoneMeansFed`) is the converse: what is on record happened.
  `DoneInv` says so of RAM and of flash; it rests on the flags being written
  before the day, so that a save cut short leaves flags of a day that is over.
* `CommandOnce` (`CommandAtMostOnce`). `CommandInv` relates, per channel, the
  servo's moves to the server's counter, the one in flash and the one being
  written.
* `OutageCorrect` (`OutageBounded`) and `CommandsKept` (`CommandNotLost`), from
  one balance per channel: what was issued was served, given up by the cap or is
  still owed (`Balanced`), and the meals since the last command plus those still
  owed stay within the catch-up (`Capping`). Both need a term for the command
  that has moved its servo and whose counter is not yet in flash.

`RefillProofs`, for every reading, threshold, clock and number of commands:

* `LockStopsPumpCorrect` (`LockStopsPump`). `LockInv` adds that a web command
  about to switch the relay has seen the pump unlocked.
* `RefillEndsCorrect` (`RefillEnds`). `TimeInv` ties the true age of a run to its
  stamp: equal outside a web command, and less than the duration once
  `handleRefillMaxDurationStop` has passed. `Wrap` is the arithmetic of a clock
  that wraps around; `WebInv` says where the stores of a web command stand.
* `EndsAnywayCorrect` (`EndsAnyway`), for runs that a command cut into. `AgeInv`
  has one case for a stamp that was lost, whose place the age of the clock takes
  (`LostInv`: a wrap sets it back once), and one for a stamp newer than the run
  (`StampedInv`). It needs that a refill and a light sleep together are shorter
  than a lap of the clock, which `millis()` and the limits of both ensure.
* `NeverTwiceDryCorrect` (`NeverTwiceDry`). `DryInv` follows the count of low
  readings through the cycle; it uses `LockInv` and `WebInv`, and that a manual
  refill whose flag the web task has not stored yet is none of the controller's.

`AquaNetProofs`, for every capacity of the queue, number of versions, list of
names and number of calls, events and resets:

* `RingCorrect`: head, tail, count and the cleared entries agree, for any set
  of tasks. Modulo arithmetic is reduced to five cases by `EntriesRange`.
* `RingRefinesFifo`: every behaviour is one of `DropFifo`; pushes and pops map
  to the abstract ones, peeks to stutters. `RunHasQueue` carries both to the run.
* `PoppedWasPostedCorrect`: with one task, `pop` removes the accepted entry.
* `ImagesProven`, the safety part of `ImageProven` about `Ota`. The invariant
  says that the selected partition is the one that runs until the update task
  has selected the other (`Whole`), so that `Update.begin` never empties it
  whichever checker started the task, and that the contact of a boot is one of
  the version that runs (`Proven`).
* `DigestFits`, its part about `Manifest`. Address and digest are found by two
  cascades over the document, one of which passes over nodes that the other
  stops at; `SameNode` is the step where they agree: a node whose own address is
  taken is the one whose digest is read.
* `ListKeepsNets`, the safety part of `LinkServes`. A removal copies entries
  downwards, one write at a time, so that a name is on the list twice or not
  within the count while it runs: `ListJob` says which entry is free or doubled
  before each write, and that a save's entry lies just beyond the count.
* `HeaterRegulates` (`Regulates` of `Heater`), an action property: the relay and
  the regulation's record of it agree unless a command came since (`HeatInv`),
  whatever poll, boot fetch or save of the document is under way
  (`HeatCommands`).

`AquariumProofs`, for every size, threshold and number of edits, moves and resets:

* `OldIsMovedCorrect` (`OldIsMoved`) about `Settings`, for any set of old entries
  whose new name is too long. `SInv` says which entries the running migration
  has passed, that they are in place or failed, and that a value written by this
  firmware is never the older document again.
* `LatchesTold` (`LatchIsTold`) and `FloodMailsSpaced` (`FloodSpaced`) about
  `Alerts`. A cycle of `handleAlerts` is a record that its parts pass on; each
  part keeps `CycleOK`, in which a mail that puts its latch up again when it is
  given up is one about the tank (`TakesDown`): without it, a mail given up
  could raise a latch that stands for nothing. `Spaced` follows the time of the
  last mail through the cycle, the clock's tick and a reset.
* `WakeRestores` (`RestoredOwn`) about `SleepCycle`. From the save to the
  restoration `RestInv` says that the pending snapshot is the one saved and that
  only actuators commanded since run.
* `TrustIsClose` (`NtpTrustClose`) about `Clock`. `TimeInv` is stronger than the
  property: a clock that SNTP set and NTP's trust covers is right, since a sleep
  gives back all it takes and a refused time takes the trust with it.

`KioskProofs`, for every set of sensors, debounce and window, sizes of the ring
and the batches, threshold of the compaction and number of bottles, failed
writes, lost answers and resets:

* `ObjectCounted` (`ObjectCountsOnce`) about `BottleSense`. The hard case is the
  second sensor that sees an object: `Answered` says that the range has seen it
  already, cannot before its next measure, or will before the debounce has
  passed, counting the measures an undiscovered range still needs (`Pending`).
* `BottlesKept` (`BottlesExact`) about `BottleStore`. `Settled` is the disk once
  the queued writes are done: writing the next one leaves it as it is, so that
  `BottleInv` speaks of the handlers alone. `Agree` says what of it RAM holds
  already and `Shape` that the journal is in the order of the bottles, of full
  records unless one was written short. As long as no id was given twice, an
  event's id is its bottle (`Sound`) and what `reconcileTotals` can find never
  exceeds the bottles (`CountBounded`). When a reset has given an id again, the
  total stays exact until the double is acknowledged, and the difficulty is to
  say so before it is: `Filled` says that an id is given again only when an
  event known to the server or still waiting has it, hence wherever the pending
  ids do not rise, a bottle is going to be posted without being stored
  (`Rising`). So a batch all of which is stored has rising ids, and the
  acknowledgement counts as many events as it drops (`AckedRising`).
  `SlotsAligned` and `RewrittenEvents` say that the slots of the journal keep
  their order and number under appends, drops and the compaction.

`BoardsProofs`, for every cooldown, budget, interval, threshold, size of the ring,
range and step of the panel, and number of events, photos, versions, faults and
resets. A behaviour of `Boards` follows one part; each
part has an invariant of its own, which the steps of the others leave alone.

* `DosesCorrect` (`DosesAsMeant`), about `Node`. Each of the four promises has
  its part in the invariant: the cooldown in RTC memory counts no more than the
  time that passed, but for the sleep that is added before it is slept
  (`Spaced`); a command that board or server knows of is still to serve
  (`Served`); the dose of the hour is on record from the end of its watering
  (`Dosed`); a reset flag not yet seen up has not restarted the board (`Edged`).
  The steps of a wake differ in the control point at which each may fail.
* `MailsCorrect` (`MailsAsMeant`), about `NodeAlerts` and `CameraWake`: a mail is
  counted before it leaves (`Budgeted`), each session of the camera's mail is one
  of its tries, and one still due was not accepted (`Accounted`).
* `LogCorrect` (`LogExact`), about `EventLog`. `FlashInv` says that the numbers in
  flash are distinct and were given, `RamInv` that the ring in RAM is a part of
  the one in flash and the next number is new; the delicate step is the start,
  where the next number is one more than the highest decoded (`BeginSound`, with
  `Highest`, that a bounded set of numbers has one).
* `PhotosCorrect`, the safety part of `PhotosServed`, about `CameraQueue`. What
  the properties say of one state is not inductive: `Numbered` adds that while
  the card is mounted each file has a number of its own and none is beyond the
  counters, but for one a reset or the last write left, and `Waits` that the
  drain has every unsent photo on its list and acknowledges it in the order of
  the numbers. The delicate step is the mount after a reset, which may move the
  cursor over the files of a former life but over no photo of this one
  (`MountKept`).
* `PanelCorrect`, the safety part of `PanelServes`, about `Tracker`. `Needed`
  counts the calibrations under way and coming, which the commands must have
  paid for (`CreditInv`). `Nears` and `Flees` are what holds between two turns of
  the differential tracking: mounted well, the panel nears the sun by a step
  each time until it has passed it, and its bound of steps is enough for the
  range; mounted the wrong way round each step widens the gap and is counted.
* `ImageCorrect`, the safety part of `ImageServes`, about `LibOta`, and
  `NeverOlder`: no step makes a board run an older version.

Each theorem follows the same line: the invariant holds initially, one step per
action preserves it, and PTL combines them.

The proofs assume the named ASSUMEs of the modules and, where the theorem says
so, that one task uses the RAM queue. Two are about more than types:
`TrackerAssumption`, that `DIFF_MAX_STEPS` steps cross the range of the panel, as
the 120 steps of 2 degrees of `msp_sensors.cpp:37` do, and `SenseAssumption`, that
the polls which find an unknown ultrasonic sensor and then an object pass before
the debounce does.

Model-checked only: all liveness, which is out of the prover's reach:
`PostsLeaveQueue`, `SdDelivers`, `LocksAreReleased`, and the `~>` and `<>[]` parts
of the properties of the composed runs, whose safety parts are proved above.

## Known limits of the properties

Some behaviours of the code break what one might expect. Where a property
excepts one of them, it says so; the others have no property:

* The controller in safe mode (`automatism.cpp:102`) does not call
  `handleRefill`, which alone stops the tank pump, while a command of the
  server still starts it.
* The heater's relay follows the server's document at every poll
  (`gpio_parser.cpp:385`), and the regulation compares the water with its own
  record, not with the relay: after the regulation switched on in cold water,
  a document that still says "off" switches off for as long as the water stays
  cold; switched on from page or panel in hot water, it stays on. The comment
  of `automatism_display.cpp:64` says that the server does not switch the relay
  and that the regulation is always local. `Regulates` and `Regains` speak of
  a relay set last by the regulation and of the time after the last command.
* A slot at 23 h is caught up at 0 h, after the flags of the day were reset
  (`automatism_feeding_schedule.cpp:201`): it is fed twice in an hour.
* `BOUFFE_DAILY` is saved after `BOUFFE_JOUR`; a reset between the two keeps
  yesterday's total, and the cap may cancel meals of the new day.
* One seeded flag serves both feed channels (`gpio_parser.cpp:224`): a first
  document with one of them leaves the other at 0.
* The end of a feeding phase is compared by order (`automatism.cpp:518`), not
  by difference, across the wrap of `millis()`.
* The recovery after an inefficient refill (`refill_recovery.h:5`) needs a lock
  that the reservoir security has taken off a cycle before: the retries stay
  used up until a reboot. The security also takes off a lock set for an
  overfull aquarium (`automatism_refill.cpp:287`).
* The lock of an overfull aquarium waits for the end of the flood alert, which
  freezes in the dead zone between the thresholds (`automatism_display.cpp:72`).
* A failed full update is longer than the NVS queue takes
  (`web_client_queue.cpp:30`) and is lost on a board without a card.
* A reset inside the rewrite of `/meta.txt` (`sd_logger.cpp:65`) makes the next
  measurement overwrite a pending file.
* A network saved while the list is past its maximum of 10 replaces its last
  entry (`web_routes_wifi.cpp:278`): `kept` leaves out the name it goes over.
* The web task uses the RAM queue too (`web_server.cpp:848`), although it has
  no lock; `PoppedWasPosted` is checked for the one task of its comment.
* The page's "sync pending (will retry)" (`web_server.cpp:856`) is never tried
  again but by the next full update.
* A feed command from the web page and a meal of the schedule may start
  together.

## Not modelled

`energie` (a measuring loop without interaction), the scripts and board
generators, drawings, web pages but for the sockets, the provisioning portal,
the median filters and electrical protocols, the parsing of responses, and
the two libraries that average a voltage or keep one clock value: formulas
and input/output, whose correctness is arithmetic or wording. What safe mode
suspends in `ffp5cs`, task creation, flash statistics and cleaning, the
file-system image of an update, and changes of the meals' hours while the
board runs are left for later.

## Plan

1. Safe mode with the refill: which loop still stops the pump.
2. The other outputs of `gpio_parser` and their deferred saves, with the web page's.
3. Feeding with real durations and a slot at the last hour of the day.
