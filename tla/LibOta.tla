------------------------------- MODULE LibOta -------------------------------
(***************************************************************************)
(* The OTA library of the deep-sleep boards (shared/n3_common, n3_ota_ui): *)
(* the check that is due every few hours of accumulated sleep, the version *)
(* it compares, the image it streams into the other slot and verifies, and *)
(* the safe mode of n3_contact_diag, which stops updates after SafeAfter   *)
(* wakes in a row without contact.  The link drops at any moment, the      *)
(* server may publish an image that is corrupt, badly signed or unable to  *)
(* reach it, and the board may reset in the middle of a download.          *)
(***************************************************************************)
EXTENDS Naturals

CONSTANTS Versions,   \* versions 1..Versions; the board starts with version 1
          Mute,       \* versions whose images never reach the server
          Interval,   \* wakes between two checks
          Chunks,     \* pieces of an image
          SafeAfter,  \* wakes without contact that lead to safe mode
          MaxResets, MaxDrops, MaxOrders

VARIABLES
    slot,   \* the image in each partition, 0 if none is whole there
    boot,   \* partition the boot loader will start
    run,    \* partition running
    pub,    \* published: version, and whether its file is good, corrupt or forged
    st,     \* where the wake is: sleep, woken, offer, load, awake
    dl,     \* the download: version, good, pieces, whether its connection lives, quiet
    rtc,    \* s_otaElapsedSinceLastCheckSeconds, in wakes
    fails,  \* s_failedBoots, in flash
    safe,   \* s_safeMode of this wake
    forced, \* the check under way was asked for by a remote reset
    net     \* link up; drops (of the link or of a stream), resets, remote resets so far

lvars == <<slot, boot, run, pub, st, dl, rtc, fails, safe, forced, net>>

NoLoad == [ver |-> 0, good |-> FALSE, got |-> 0, live |-> FALSE, quiet |-> FALSE]

\* OtaPeriodic::accumulate and due: saturating, so that a due check stays due.
accumulate(e) == IF e < Interval THEN e + 1 ELSE e
due(e) == e >= Interval

Init ==
    /\ slot = <<1, 0>> /\ boot = 1 /\ run = 1
    /\ pub = [ver |-> 1, good |-> TRUE]
    /\ st = "sleep" /\ dl = NoLoad
    /\ rtc = Interval
    /\ fails = 0 /\ safe = FALSE /\ forced = FALSE
    /\ net = [up |-> TRUE, drops |-> 0, resets |-> 0, orders |-> 0]

\* setup(): n3OtaSyncBootPartition(), then n3ContactDiagBegin() counts the wake
\* before anything can fail.
Begin(f) ==
    /\ st' = "woken"
    /\ forced' = FALSE
    /\ fails' = IF f < SafeAfter THEN f + 1 ELSE f
    /\ safe' = (fails' >= SafeAfter)

\* A restart: RTC memory is initialised anew, so that a check is due.
Restarted(b) ==
    /\ run' = b
    /\ boot' = b
    /\ rtc' = Interval
    /\ dl' = NoLoad
    /\ Begin(fails)

Wake ==
    /\ st = "sleep"
    /\ Begin(fails)
    /\ boot' = run
    /\ UNCHANGED <<slot, run, pub, dl, rtc, net>>

\* A check ends without an update: a periodic one starts a new interval, one
\* asked for by a remote reset restarts the board.
Ended ==
    /\ UNCHANGED <<slot, pub>>
    /\ IF forced
       THEN Restarted(boot)
       ELSE /\ st' = "awake" /\ dl' = NoLoad /\ rtc' = 0
            /\ UNCHANGED <<boot, run, fails, safe, forced>>

\* n3OtaUiMaybePeriodicCheck(): a check that finds no link, or safe mode,
\* counts as done.
Check ==
    /\ st = "woken"
    /\ \/ /\ due(rtc) /\ net.up /\ ~safe
          /\ st' = "offer" /\ boot' = run
          /\ UNCHANGED <<slot, run, pub, dl, rtc, fails, safe, forced, net>>
       \/ due(rtc) /\ (~net.up \/ safe) /\ Ended /\ UNCHANGED net
       \/ /\ ~due(rtc)
          /\ st' = "awake"
          /\ UNCHANGED <<slot, boot, run, pub, dl, rtc, fails, safe, forced, net>>

\* The remote reset of n3ppCbApplyRemoteConfig(): a check first, whatever the
\* interval says.
Ordered ==
    /\ st = "awake" /\ net.up /\ net.orders < MaxOrders
    /\ net' = [net EXCEPT !.orders = @ + 1]
    /\ IF safe
       THEN Restarted(boot) /\ UNCHANGED <<slot, pub>>
       ELSE /\ st' = "offer" /\ forced' = TRUE /\ boot' = run
            /\ UNCHANGED <<slot, run, pub, dl, rtc, fails, safe>>

\* The metadata does not come (HTTP 404, 503, unreadable), or offers nothing newer.
Refused ==
    /\ st = "offer"
    /\ ~net.up \/ pub.ver <= slot[run]
    /\ Ended /\ UNCHANGED net

\* A newer version: Update.begin() takes the other partition.
Offered ==
    /\ st = "offer" /\ net.up /\ pub.ver > slot[run]
    /\ st' = "load"
    /\ slot' = [slot EXCEPT ![3 - run] = 0]
    /\ dl' = [ver |-> pub.ver, good |-> pub.good, got |-> 0, live |-> TRUE, quiet |-> FALSE]
    /\ UNCHANGED <<boot, run, pub, rtc, fails, safe, forced, net>>

Chunk ==
    /\ st = "load" /\ dl.live /\ net.up /\ dl.got < Chunks
    /\ dl' = [dl EXCEPT !.got = @ + 1, !.quiet = FALSE]
    /\ UNCHANGED <<slot, boot, run, pub, st, rtc, fails, safe, forced, net>>

\* A connection dead without a reset packet: http.connected() stays true.
Quiet ==
    /\ st = "load" /\ ~dl.live /\ ~dl.quiet
    /\ dl' = [dl EXCEPT !.quiet = TRUE]
    /\ UNCHANGED <<slot, boot, run, pub, st, rtc, fails, safe, forced, net>>

\* N3_OTA_STALL_TIMEOUT_MS without a byte.
Stalled == dl.quiet

GivenUp == st = "load" /\ Stalled /\ Ended /\ UNCHANGED net

\* The stream ends early.
CutShort ==
    /\ st = "load" /\ dl.got < Chunks /\ net.drops < MaxDrops
    /\ net' = [net EXCEPT !.drops = @ + 1]
    /\ Ended

(* Mutant: the image is made bootable as soon as it is complete. *)
VerifiedUnchecked(d) == d.got = Chunks

\* The whole image, its sha256 and its signature.
Verified(d) == d.got = Chunks /\ d.good

Rejected == st = "load" /\ dl.got = Chunks /\ ~Verified(dl) /\ Ended /\ UNCHANGED net

\* Update.end(true), ota_done, ESP.restart().
Flashed ==
    /\ st = "load" /\ Verified(dl)
    /\ slot' = [slot EXCEPT ![3 - run] = IF dl.good THEN dl.ver ELSE 0]
    /\ Restarted(3 - run)
    /\ UNCHANGED <<pub, net>>

\* A signed POST (data, heartbeat, the report of ota_start) answered by the
\* server, from an image that can send one.
Contact ==
    /\ st \in {"awake", "load"} /\ net.up /\ fails > 0 /\ slot[run] \notin Mute
    /\ fails' = 0
    /\ UNCHANGED <<slot, boot, run, pub, st, dl, rtc, safe, forced, net>>

Sleep ==
    /\ st = "awake"
    /\ st' = "sleep"
    /\ rtc' = accumulate(rtc)
    /\ UNCHANGED <<slot, boot, run, pub, dl, fails, safe, forced, net>>

Reset ==
    /\ st # "sleep" /\ net.resets < MaxResets
    /\ net' = [net EXCEPT !.resets = @ + 1]
    /\ Restarted(boot)
    /\ UNCHANGED <<slot, pub>>

Drop ==
    /\ net.up /\ net.drops < MaxDrops
    /\ net' = [net EXCEPT !.up = FALSE, !.drops = @ + 1]
    /\ dl' = [dl EXCEPT !.live = FALSE]
    /\ UNCHANGED <<slot, boot, run, pub, st, rtc, fails, safe, forced>>

Return ==
    /\ ~net.up
    /\ net' = [net EXCEPT !.up = TRUE]
    /\ UNCHANGED <<slot, boot, run, pub, st, dl, rtc, fails, safe, forced>>

Publish ==
    /\ \/ /\ pub.ver < Versions
          /\ \E g \in BOOLEAN : pub' = [ver |-> pub.ver + 1, good |-> g]
       \/ /\ ~pub.good
          /\ pub' = [pub EXCEPT !.good = TRUE]
    /\ UNCHANGED <<slot, boot, run, st, dl, rtc, fails, safe, forced, net>>

\* The board's own steps; a stream is not obliged to end early.
Own == \/ Wake \/ Check \/ Refused \/ Offered \/ Chunk \/ Quiet \/ GivenUp \/ Rejected
       \/ Flashed \/ Sleep

Next == Own \/ CutShort \/ Contact \/ Ordered \/ Reset \/ Drop \/ Return \/ Publish

\* The link is not obliged to come back.  A board awake again and again with
\* the server in reach is answered sooner or later.
Spec == Init /\ [][Next]_lvars /\ WF_lvars(Own) /\ SF_lvars(Contact)
-----------------------------------------------------------------------------
(* Whatever reset, lost link or bad image comes, the boot loader is left with *)
(* a whole image, and never an older one than the board has run.              *)
BootsWhole == slot[boot] # 0 /\ slot[run] # 0 /\ slot[boot] >= slot[run]

(* Once the link stays up, a board whose image can reach the server ends on   *)
(* the published version, if its file is good: a download that stalls, a      *)
(* refused image or a stay in safe mode is got over.                          *)
Updated == <>[](net.up /\ pub.good) => <>[](slot[run] = pub.ver \/ slot[run] \in Mute)
=============================================================================
