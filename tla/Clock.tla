------------------------------- MODULE Clock -------------------------------
(***************************************************************************)
(* The clock of ffp5cs and the trust the signature of its requests puts in *)
(* it: NTP (syncTimeFromNTP), the time of the server's answers             *)
(* (onServerTime), the light sleep and the reset.  (power.cpp,             *)
(* contact_diag.cpp, n3_clock_decision.h, n3_sleep_clock.h)                *)
(*                                                                         *)
(* Times are differences with the true time, in units of the 20 s a        *)
(* synchronisation waits for SNTP (Wait); beyond Far they are all alike.   *)
(***************************************************************************)
EXTENDS Integers

CONSTANTS MinDelta,  \* NTP_MIN_EPOCH_DELTA_SEC
          Apply,     \* the threshold of shouldApplyServerTime
          Hmac,      \* the server accepts a signature this far from its time
          TrustAge,  \* kServerTimeTrustMs
          Far,       \* bound of the differences that are told apart
          MaxResets  \* bound of the resets

VARIABLES off,     \* the device's time minus the true time
          before,  \* localBeforeEpoch, less what has elapsed since; or None
          trust,   \* ntp: _ntpTrusted; srv: one more than the age of
                   \* _serverTimeAppliedMs, 0 without trust
          due,     \* _lastNtpSync is zero or an interval old
          net,     \* ntp: the NTP server answers; near: the build is recent;
                   \* resets
          sntp     \* ghost: the last synchronisation accepted was SNTP's
lvars == <<off, before, trust, due, net, sntp>>

Offsets == -Far .. Far
None == Far + 1
Clip(n) == IF n > Far THEN Far ELSE IF n < -Far THEN -Far ELSE n
Abs(n) == IF n < 0 THEN -n ELSE n
Wait == 1

(* FIRMWARE_BUILD_EPOCH within the tolerance: of the true time, of the     *)
(* device's (the same unless the difference is Far)                        *)
Init == /\ off \in Offsets /\ before = None
        /\ trust = [ntp |-> FALSE, srv |-> 0]
        /\ due = TRUE /\ sntp = FALSE
        /\ net \in [ntp : BOOLEAN, near : BOOLEAN, resets : {0}]

NearDevice == IF Abs(off) = Far THEN ~net.near ELSE net.near

(* hasTrustedNtpTime *)
Trusted == trust.ntp \/ trust.srv > 0

-----------------------------------------------------------------------------
(* syncTimeFromNTP, from updateTime when it is due, or after a wake.  The  *)
(* task waits for SNTP: the others go on.                                  *)

Start == /\ due /\ before = None
         /\ before' = off
         /\ UNCHANGED <<off, trust, due, net, sntp>>

\* Mutant: the wait is given back with the time that is restored.
RestoredWhole == before

Restored == before - Wait

(* smartSaveTime, the drift, _lastNtpSync *)
Accept(completed) == /\ trust' = [trust EXCEPT !.ntp = TRUE]
                     /\ due' = FALSE /\ sntp' = completed

Reject == /\ off' = Clip(Restored)
          /\ trust' = [trust EXCEPT !.ntp = FALSE]
          /\ UNCHANGED <<due, sntp>>

(* isNtpEpochPlausible *)
Plausible(now, near) == near \/ Abs(now - Restored) >= MinDelta

(* SNTP_SYNC_STATUS_COMPLETED *)
Completed ==
    /\ before # None /\ net.ntp
    /\ IF Plausible(0, net.near) THEN off' = 0 /\ Accept(TRUE) ELSE Reject
    /\ before' = None /\ UNCHANGED net

(* The wait is over: getLocalTime succeeds on any plausible year. *)
TimedOut ==
    /\ before # None /\ ~net.ntp
    /\ IF Plausible(off, NearDevice) THEN Accept(FALSE) /\ UNCHANGED off ELSE Reject
    /\ before' = None /\ UNCHANGED net

-----------------------------------------------------------------------------
(* onServerTime and applyServerEpoch: only when nothing is trusted *)
ServerTime ==
    /\ ~Trusted
    /\ off' = IF Abs(off) >= Apply THEN 0 ELSE off
    /\ trust' = [trust EXCEPT !.srv = 1]
    /\ UNCHANGED <<before, due, net, sntp>>

(* Attempts follow each other within seconds, the server's trust lasts six *)
(* hours: it does not age while SNTP answers and is asked.                 *)
Age == /\ \/ /\ trust.srv > 0 /\ ~(due /\ net.ntp)
             /\ trust' = [trust EXCEPT !.srv = IF @ > TrustAge THEN 0 ELSE @ + 1]
             /\ UNCHANGED due
          \/ ~due /\ due' = TRUE /\ UNCHANGED trust  \* NTP_SYNC_INTERVAL_MS
       /\ UNCHANGED <<off, before, net, sntp>>

(* SNTP's own poll, between two synchronisations *)
Background == /\ net.ntp /\ ~due /\ before = None
              /\ off' = 0
              /\ UNCHANGED <<before, trust, due, net, sntp>>

(* sleepCorrectionSeconds: what the clock has not counted *)
Correction(slept, advanced) == IF advanced >= slept THEN 0 ELSE slept - advanced

(* goToLightSleep, getSleptTime; then syncTimeFromNTP if the Wi-Fi is back.*)
(* A synchronisation under way elsewhere restores an older time yet.       *)
Sleep ==
    \E slept \in 1..2 : \E advanced \in {0, slept} :
        /\ off' = Clip(off - slept + advanced + Correction(slept, advanced))
        /\ before' = IF before = None THEN None ELSE Clip(before - slept)
        /\ due' \in {due, TRUE}
        /\ UNCHANGED <<trust, net, sntp>>

(* initTime: the saved time, or the build's *)
Reset == /\ net.resets < MaxResets
         /\ net' = [net EXCEPT !.resets = @ + 1]
         /\ off' \in Offsets /\ before' = None
         /\ trust' = [ntp |-> FALSE, srv |-> 0]
         /\ due' = TRUE /\ sntp' = FALSE

Network == /\ net' \in [ntp : BOOLEAN, near : {net.near, FALSE}, resets : {net.resets}]
           /\ UNCHANGED <<off, before, trust, due, sntp>>

Step == Start \/ Completed \/ TimedOut \/ ServerTime \/ Age \/ Background
Next == Step \/ Sleep \/ Reset \/ Network

(* updateTime is called by every loop(), and the wait ends.  *)
Settled == Start \/ Completed \/ TimedOut
Spec == Init /\ [][Next]_lvars /\ WF_lvars(Settled)

-----------------------------------------------------------------------------

(* A clock SNTP has set and that NTP's trust covers stays in the window in *)
(* which the server accepts signatures, whatever the board sleeps and      *)
(* whatever synchronisations fail: the incident n3_sleep_clock.h tells.    *)
NtpTrustClose == trust.ntp /\ sntp => Abs(off) <= Hmac

(* When the NTP server answers from some time on, NTP's trust comes back   *)
(* again and again: isNtpEpochPlausible refuses an answer the clock        *)
(* already agrees with, and it is the time each refusal takes off the      *)
(* clock that lets a later answer in.                                      *)
TrustReturns == <>[]net.ntp => []<>trust.ntp

=============================================================================
