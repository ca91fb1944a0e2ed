-------------------------------- MODULE Ota --------------------------------
(***************************************************************************)
(* Firmware updates of ffp5cs: the two checkers (the OTA task, and the     *)
(* automation task which tries an update before a reset the server asks    *)
(* for), the OTA_Update task they start, the exclusive lock they share,    *)
(* the two application partitions and the probation of a new image.        *)
(*                                                                         *)
(* Sources: ota_manager.cpp, ota_manager_download.cpp,                     *)
(* ota_manager_download_alt.cpp, app_tasks_ota.cpp, app_tasks.cpp          *)
(* (netRequestOtaCheck), gpio_parser.cpp (reset command), system_boot.cpp  *)
(* (probation), contact_diag.cpp (failed boots, safe mode).                *)
(*                                                                         *)
(* An image is its version; 0 is a partition being rewritten.  The bytes,  *)
(* the heap gates' sizes and the clock are choices.  The bootloader, the   *)
(* partition table and the server are external.                            *)
(***************************************************************************)
EXTENDS Naturals

CONSTANTS MaxVer,       \* the highest version the server offers
          SafeAfter,    \* boots without contact before the safe mode
          MaxResets     \* bound: crashes, power losses and reset commands

Part == {"ota_0", "ota_1"}
Checkers == {"ota", "gpio"}
Other(p) == CHOOSE q \in Part : q # p

VARIABLES img,      \* partition -> version and state of its image
          bootp,    \* the partition otadata selects
          run,      \* the partition that runs
          fails,    \* NVS: boots without a healthy contact
          fsWhole,  \* the file system partition holds a complete image
          good,     \* the versions that can reach the server
          offered,  \* the version the server publishes
          net,      \* the server is reachable
          ram,      \* what a reset clears
          resets    \* bound
vars == <<img, bootp, run, fails, fsWhole, good, offered, net, ram, resets>>
flash == <<img, bootp, run, fails, fsWhole>>
world == <<good, offered, net, resets>>

Ver(p) == img[p].ver

\* m_otaLock, the OTA_Update task, each checker's place, the trigger queue, the probation flag, the healthy contact.
Ram(pending, failed) ==
    [lock |-> FALSE, upd |-> "none", pc |-> [c \in Checkers |-> "idle"], trig |-> 0, found |-> 0,
     pend |-> pending, healthy |-> FALSE, safe |-> failed >= SafeAfter]

Init ==
    /\ img = [p \in Part |-> IF p = "ota_0" THEN [ver |-> 1, st |-> "valid"] ELSE [ver |-> 0, st |-> "invalid"]]
    /\ bootp = "ota_0" /\ run = "ota_0" /\ fails = 1 /\ fsWhole = TRUE
    /\ good \in {{1} \cup g : g \in SUBSET (2..MaxVer)}
    /\ offered \in 1..MaxVer /\ net \in BOOLEAN
    /\ ram = Ram(FALSE, 1) /\ resets = 0

----------------------------------------------------------------------------
(* The bootloader and the boot path                                        *)

\* A reset aborts a pending image and puts a new one on probation.
Seen(s) == CASE s = "pending" -> "aborted" [] s = "new" -> "pending" [] OTHER -> s

\* The partition a reset starts: the selected one, unless it is not whole or was on probation.
Started(i) == LET old == Other(bootp)
                  keep == i[bootp].ver # 0 /\ (i[bootp].st # "pending" \/ i[old].ver = 0)
              IN IF keep THEN bootp ELSE old

\* validatePendingOta, ContactDiag::begin: the probation and the count of failed boots start with the boot.
Boot(i) ==
    LET p == Started(i)
        seen == [q \in Part |-> IF q \in {p, bootp} THEN [i[q] EXCEPT !.st = Seen(@)] ELSE i[q]]
        failed == IF fails < SafeAfter THEN fails + 1 ELSE fails
    IN /\ run' = p /\ bootp' = p /\ img' = seen
       /\ fails' = failed
       /\ ram' = Ram(seen[p].st = "pending", failed)
       /\ UNCHANGED fsWhole

Crash ==
    /\ resets < MaxResets /\ resets' = resets + 1
    /\ Boot(img)
    /\ UNCHANGED <<good, offered, net>>

----------------------------------------------------------------------------
(* Probation                                                               *)

\* Mutant: a deliberate reset confirms the image whatever its contact.
ConfirmedUnseen == ram.pend

\* confirmOtaValidationIfHealthy, tickOtaValidation: only a contact of this boot confirms.
Confirmed == ram.pend /\ ram.healthy

Validated == [img EXCEPT ![run].st = IF Confirmed /\ @ = "pending" THEN "valid" ELSE @]

\* A signed POST the server accepts: postSender waits while the lock is held, OTA_Update flushes its own.
Contact ==
    /\ net /\ ~ram.healthy /\ Ver(run) \in good
    /\ ~ram.lock \/ ram.upd # "none"
    /\ ram' = [ram EXCEPT !.healthy = TRUE]
    /\ fails' = 0
    /\ UNCHANGED <<img, bootp, run, fsWhole, world>>

TickConfirm ==
    /\ Confirmed
    /\ img' = Validated
    /\ ram' = [ram EXCEPT !.pend = FALSE]
    /\ UNCHANGED <<bootp, run, fails, fsWhole, world>>

\* tickOtaValidation runs in loop() whatever the network; the fifteen minutes are a choice.
Overdue == ram.pend /\ ~ram.healthy

\* Fifteen minutes without contact: the image is given up if the other one can start, kept otherwise.
TickDeadline ==
    /\ Overdue
    /\ IF Ver(Other(run)) # 0 /\ img[Other(run)].st = "valid"
       THEN LET failed == IF fails < SafeAfter THEN fails + 1 ELSE fails IN
            /\ img' = [img EXCEPT ![run].st = "invalid"]
            /\ run' = Other(run) /\ bootp' = Other(run)
            /\ fails' = failed /\ ram' = Ram(FALSE, failed)
            /\ UNCHANGED fsWhole
       ELSE ram' = [ram EXCEPT !.pend = FALSE] /\ UNCHANGED flash
    /\ UNCHANGED world

----------------------------------------------------------------------------
(* The checkers                                                            *)

\* The web page or the server asks for a check; the queue holds two.
Trigger ==
    /\ ~ram.lock /\ ram.trig < 2
    /\ ram' = [ram EXCEPT !.trig = @ + 1]
    /\ UNCHANGED <<flash, world>>

\* A trigger or the two-hour period, longer than any update; a wake that meets a closed gate is dropped.
OtaWakes ==
    /\ ram.pc["ota"] = "idle"
    /\ ram.trig > 0 \/ ram.upd = "none"
    /\ \E open \in BOOLEAN :
         /\ open => net /\ ~ram.lock /\ ~ram.safe
         /\ ram' = [ram EXCEPT !.trig = IF @ > 0 THEN @ - 1 ELSE 0,
                               !.pc["ota"] = IF open THEN "checking" ELSE "idle"]
    /\ UNCHANGED <<flash, world>>

\* The reset the server asks for tries an update first; with one under way it is put off and forgotten.
ResetCommand ==
    /\ ram.pc["gpio"] = "idle"
    /\ resets < MaxResets /\ resets' = resets + 1
    /\ \/ ram.lock /\ UNCHANGED <<flash, ram>>
       \/ ~ram.lock /\ net /\ ~ram.safe /\ ram' = [ram EXCEPT !.pc["gpio"] = "checking"] /\ UNCHANGED flash
       \/ (~net \/ ram.safe) /\ Boot(Validated)
    /\ UNCHANGED <<good, offered, net>>

\* checkForUpdate ends without an update: the command's reset goes on.
NoUpdate(c) ==
    /\ ram.pc[c] = "checking"
    /\ IF c = "gpio" THEN Boot(Validated)
       ELSE ram' = [ram EXCEPT !.pc[c] = "idle"] /\ UNCHANGED flash
    /\ UNCHANGED world

\* compareVersions
Newer(v) == v > Ver(run)

\* checkForUpdate finds a newer version and raises the lock, which it read before the download of the manifest.
Found(c) ==
    /\ ram.pc[c] = "checking" /\ net
    /\ Newer(offered)
    /\ ram' = [ram EXCEPT !.lock = TRUE, !.found = offered, !.pc[c] = "perform"]
    /\ UNCHANGED <<flash, world>>

\* performUpdate refuses while m_updateTaskHandle is set, and leaves the lock as it is.
Free == ram.upd = "none"

PerformStarts(c) ==
    /\ ram.pc[c] = "perform" /\ Free
    /\ ram' = [ram EXCEPT !.upd = "download", !.pc[c] = IF c = "gpio" THEN "idle" ELSE "waiting"]
    /\ UNCHANGED <<flash, world>>

\* A refusal with a task alive keeps the lock; too little heap lowers it.  The command then resets.
PerformRefused(c) ==
    /\ ram.pc[c] = "perform"
    /\ IF c = "gpio" THEN Boot(Validated)
       ELSE /\ ram' = [ram EXCEPT !.lock = IF Free THEN FALSE ELSE @, !.pc[c] = "waiting"]
            /\ UNCHANGED flash
    /\ UNCHANGED world

\* runOtaCheckCycle holds the OTA task while the lock is up.
OtaWaited ==
    /\ ram.pc["ota"] = "waiting" /\ ~ram.lock
    /\ ram' = [ram EXCEPT !.pc["ota"] = "idle"]
    /\ UNCHANGED <<flash, world>>

----------------------------------------------------------------------------
(* The OTA_Update task                                                     *)

\* Update.begin: the other partition is rewritten.
Begin ==
    /\ ram.upd = "download" /\ net
    /\ img' = [img EXCEPT ![Other(run)] = [ver |-> 0, st |-> "invalid"]]
    /\ ram' = [ram EXCEPT !.upd = "writing"]
    /\ UNCHANGED <<bootp, run, fails, fsWhole, world>>

\* The stream is resumed with Range as often as it takes, and its length and MD5 are right.
Written ==
    /\ ram.upd = "writing" /\ net
    /\ ram' = [ram EXCEPT !.upd = "written"]
    /\ UNCHANGED <<flash, world>>

\* verifyFlashedFirmware: the partition read back, its digest and its signature; a wrong one fails the update.
Verified ==
    /\ ram.upd = "written"
    /\ ram' = [ram EXCEPT !.upd = "verified"]
    /\ UNCHANGED <<flash, world>>

\* set_boot_partition
Flashed ==
    /\ ram.upd = "verified"
    /\ img' = [img EXCEPT ![Other(run)] = [ver |-> ram.found, st |-> "new"]]
    /\ bootp' = Other(run)
    /\ ram' = [ram EXCEPT !.upd = "flashed"]
    /\ UNCHANGED <<run, fails, fsWhole, world>>

\* The lock is lowered first; the reports to the server follow, and the handle is cleared last.
Failed ==
    /\ ram.upd \in {"download", "writing", "written", "verified"}
    /\ ram' = [ram EXCEPT !.upd = "failed", !.lock = FALSE]
    /\ UNCHANGED <<flash, world>>

TaskEnds ==
    /\ ram.upd = "failed"
    /\ ram' = [ram EXCEPT !.upd = "none"]
    /\ UNCHANGED <<flash, world>>

\* downloadFilesystem erases the partition before it reads the first byte.
FsErased ==
    /\ ram.upd = "flashed"
    /\ fsWhole' = FALSE
    /\ ram' = [ram EXCEPT !.upd = "fs"]
    /\ UNCHANGED <<img, bootp, run, fails, world>>

FsEnds ==
    /\ ram.upd = "fs"
    /\ fsWhole' \in BOOLEAN
    /\ ram' = [ram EXCEPT !.upd = "done"]
    /\ UNCHANGED <<img, bootp, run, fails, world>>

\* No file system in the manifest, or it cannot be fetched; then the restart, firmware first.
RestartUpdated ==
    /\ ram.upd \in {"flashed", "done"}
    /\ Boot(img)
    /\ UNCHANGED world

----------------------------------------------------------------------------
Publish ==
    /\ offered < MaxVer /\ offered' = offered + 1
    /\ UNCHANGED <<flash, good, net, ram, resets>>

NetTurns ==
    /\ net' = ~net
    /\ UNCHANGED <<flash, good, offered, ram, resets>>

Check(c) == NoUpdate(c) \/ Found(c) \/ PerformStarts(c) \/ PerformRefused(c)
Update == Begin \/ Written \/ Verified \/ Flashed \/ Failed \/ TaskEnds \/ FsErased \/ FsEnds \/ RestartUpdated
Tick == TickConfirm \/ TickDeadline

Next ==
    \/ Crash \/ Contact \/ Tick \/ Trigger \/ OtaWakes \/ ResetCommand \/ OtaWaited \/ Update
    \/ \E c \in Checkers : Check(c)
    \/ Publish \/ NetTurns

\* loop() ticks, the tasks run, and a check or a download ends (each HTTP call has a timeout).
Fairness ==
    /\ WF_vars(Tick) /\ WF_vars(Update) /\ WF_vars(OtaWaited)
    /\ \A c \in Checkers : WF_vars(Check(c))

Spec == Init /\ [][Next]_vars /\ Fairness

----------------------------------------------------------------------------
(* Properties                                                              *)

\* An image is confirmed only if its version can reach the server, whatever resets, commands and updates
\* cross its probation (confirmOtaValidationIfHealthy, tickOtaValidation).
ValidReached == \A p \in Part : img[p].st = "valid" => Ver(p) \in good

\* The partition otadata selects is never one being rewritten, though two checkers may both have passed
\* the lock (checkForUpdate reads it before the manifest's download, performUpdate the task's handle).
SelectedIsWhole == Ver(bootp) # 0

\* A probation ends: by a contact, by the deadline or by a reset (tickOtaValidation).
ProbationEnds == ram.pend ~> ~ram.pend

=============================================================================
