------------------------------ MODULE WifiLink ------------------------------
(***************************************************************************)
(* The Wi-Fi connection session of the shared library (n3_wifi.cpp, with   *)
(* n3_wifi_select and n3_wifi_reconnect) and its two users: a node that    *)
(* wakes and blocks in n3WifiConnect until the session ends, and the       *)
(* bottle counter, whose loop polls the session in the background          *)
(* (pgl_network.cpp) when its audio player leaves the radio free           *)
(* (pgl_audio.cpp, main.cpp).                                              *)
(*                                                                         *)
(* Time is a choice: a poll is told whether the deadline it looks at has   *)
(* passed (`late`).                                                        *)
(***************************************************************************)
EXTENDS Integers, Sequences, FiniteSets, SequencesExt

CONSTANTS Nets,       \* configured networks, 1..n in the order of the table
          MaxMoves,   \* changes of the networks in range (bound)
          MaxPlays    \* tracks played (bound)

VARIABLES client,    \* "kiosk" or "node": which program this board runs
          ses,       \* N3WifiSession, with the driver's target
          link,      \* WiFi.status() = WL_CONNECTED
          range,     \* the networks in range (the environment)
          apMemory,  \* the access point remembered in RTC memory
          kiosk,     \* PglNetwork's flags
          audio,     \* PglAudio: "none", "playing", "ended"
          moves, plays

lvars == <<client, ses, link, range, apMemory, kiosk, audio, moves, plays>>

Waiting == {"wait", "waitRetry"}
Active == {"fast", "preScan", "scan", "wait", "waitRetry", "rescanWait",
           "rescan", "between"}

(* n3WifiSessionReset *)
Session0 == [phase |-> "idle", order |-> <<>>, idx |-> 1, present |-> {},
             noBssid |-> FALSE, pending |-> FALSE, target |-> 0,
             pinned |-> FALSE, config |-> "none"]

(* the driver is told to join net, on the remembered channel or anywhere   *)
Begin(s, net, pinned) == [s EXCEPT !.target = net, !.pinned = pinned]
Disconnect(s) == [s EXCEPT !.target = 0, !.pinned = FALSE]
To(s, phase) == [s EXCEPT !.phase = phase]

(* buildOrder: the networks the scan saw first, strongest first, then the  *)
(* others in the order of the table                                        *)
Orders(found) == {o \in [1..Cardinality(Nets) -> Nets] :
    /\ \A i, j \in DOMAIN o : i # j => o[i] # o[j]
    /\ \A i, j \in DOMAIN o : i < j =>
          /\ o[j] \in found => o[i] \in found
          /\ {o[i], o[j]} \cap found = {} => o[i] < o[j]}
buildOrderFromScan(s, found, o) ==
    [s EXCEPT !.order = o, !.present = found, !.idx = 1]

(* beginTryCurrentNetwork *)
TryCurrent(s) ==
    IF s.idx > Len(s.order) THEN To(s, "failed")
    ELSE LET net == s.order[s.idx]
             t == [s EXCEPT !.noBssid = FALSE]
         IN  IF net \in s.present THEN To(Begin(t, net, TRUE), "wait")
             ELSE To(t, "rescanWait")

(* advanceAfterConnectFailure: once more without the BSSID, then the next  *)
(* network                                                                 *)
AfterFailure(s) ==
    IF s.order[s.idx] \in s.present /\ ~s.noBssid
    THEN [Disconnect(s) EXCEPT !.noBssid = TRUE, !.pending = TRUE,
                               !.phase = "between"]
    ELSE LET t == [s EXCEPT !.noBssid = FALSE, !.pending = FALSE, !.idx = @ + 1]
         IN  IF t.idx > Len(t.order) THEN To(t, "failed") ELSE To(t, "between")

AfterScan(s, found) == {TryCurrent(buildOrderFromScan(s, found, o)) : o \in Orders(found)}

(* processInvisibleRescanResults and beginBlindAfterRescanFailure: the     *)
(* network now seen is joined on its channel, otherwise anywhere           *)
AfterRescan(s, found) ==
    LET net == s.order[s.idx] IN
    IF net \in found
    THEN To(Begin([s EXCEPT !.present = @ \cup {net}], net, TRUE), "wait")
    ELSE To(Begin(s, net, FALSE), "wait")

(* the retry without the BSSID that was pending *)
RetryAnywhere(s) ==
    To(Begin([s EXCEPT !.pending = FALSE], s.order[s.idx], FALSE), "waitRetry")

(* One pollPhase, the link being down: every state the session may be in   *)
(* next.  A scan sees some of the networks in range, or fails and is done  *)
(* again synchronously, or that fails too.                                 *)
PollPhase(s, late) ==
    CASE s.phase = "fast" -> IF late THEN {To(Disconnect(s), "preScan")} ELSE {s}
      [] s.phase = "preScan" ->
            IF ~late THEN {s}
            ELSE {To(s, "scan"), To(s, "failed")}
                 \cup UNION {AfterScan(s, f) : f \in SUBSET range}
      [] s.phase = "scan" ->
            {s, To(s, "failed")} \cup UNION {AfterScan(s, f) : f \in SUBSET range}
      [] s.phase \in Waiting -> IF late THEN {AfterFailure(s)} ELSE {s, AfterFailure(s)}
      [] s.phase = "rescanWait" ->
            IF late THEN {To(s, "rescan"), AfterRescan(s, {})} ELSE {s}
      [] s.phase = "rescan" -> {s} \cup {AfterRescan(s, f) : f \in SUBSET range}
      [] s.phase = "between" ->
            IF ~late THEN {s}
            ELSE IF s.pending
                 THEN {RetryAnywhere(s)}
                 ELSE {TryCurrent(s)}
      [] OTHER -> {s}

(* n3WifiSessionBegin: the session keeps a pointer to the caller's         *)
(* configuration; it goes straight to the remembered access point when the *)
(* configuration allows it                                                 *)
BeginSession(s, fast, config) ==
    LET t == [Begin(Session0, s.target, s.pinned) EXCEPT !.config = config]
    IN  IF link THEN {To(t, "connected")}
        ELSE IF fast THEN {To(Begin(t, net, TRUE), "fast") : net \in Nets}
        ELSE {To(t, "preScan")}

-----------------------------------------------------------------------------
(* The node: n3WifiConnect, from a wake-up to the end of the session *)

NodeWake == /\ client = "node" /\ ses.phase \in {"idle", "connected", "failed"}
            /\ ~link
            /\ ses' \in BeginSession(Session0, apMemory, "caller")
            /\ UNCHANGED <<client, link, range, apMemory, kiosk, audio, moves, plays>>

(* one turn of its loop: n3WifiSessionPoll *)
NodePoll(late) ==
    /\ client = "node" /\ ses.phase \in Active
    /\ IF link
       THEN /\ ses' = To(ses, "connected")
            /\ apMemory' = TRUE
       ELSE /\ ses' \in PollPhase(ses, late)
            /\ apMemory' = (apMemory /\ ~(ses.phase = "fast" /\ late))
    /\ UNCHANGED <<client, link, range, kiosk, audio, moves, plays>>

-----------------------------------------------------------------------------
(* The kiosk.  st is [ses, kiosk, mem], what pollWifi works on. *)

Flags0 == [active |-> FALSE, connecting |-> FALSE, backoff |-> FALSE,
           direct |-> FALSE]

(* startBackgroundWifi, the link being down: the remembered access point   *)
(* first, otherwise a session on the member configuration                  *)
startBackgroundWifi(st) ==
    IF st.mem
    THEN {[st EXCEPT !.ses = Begin(@, net, TRUE),
                     !.kiosk = [Flags0 EXCEPT !.connecting = TRUE,
                                              !.direct = TRUE]] : net \in Nets}
    ELSE {[st EXCEPT !.ses = s,
                     !.kiosk = [Flags0 EXCEPT !.connecting = TRUE,
                                              !.active = TRUE]] :
             s \in BeginSession(st.ses, FALSE, "member")}

(* the direct attempt has failed: a session on a local configuration       *)
FallBack(st) ==
    {[ses |-> s, mem |-> FALSE,
      kiosk |-> [st.kiosk EXCEPT !.direct = FALSE, !.active = TRUE,
                                 !.connecting = TRUE]] :
        s \in BeginSession(Disconnect(st.ses), FALSE, "local")}

(* The session polled through a configuration that is still there, or      *)
(* through the local one of a call that has returned: then it may go on as *)
(* before or fail.                                                         *)
SessionPoll(st, late) ==
    {[st EXCEPT !.ses = s,
                !.kiosk = IF s.phase = "failed"
                          THEN [Flags0 EXCEPT !.backoff = TRUE]
                          ELSE [@ EXCEPT !.connecting = TRUE]] :
        s \in PollPhase(st.ses, late) \cup
              (IF st.ses.config = "gone" THEN {To(st.ses, "failed")} ELSE {})}

(* pollWifi with the link down, from the loss of the link on *)
PollDown(st, late) ==
    LET a == IF st.kiosk.direct /\ late THEN FallBack(st) ELSE {st}
        b == UNION {IF x.kiosk.backoff /\ late
                    THEN startBackgroundWifi([x EXCEPT !.kiosk.backoff = FALSE])
                    ELSE {x} : x \in a}
    IN  IF (st.kiosk.direct \/ st.kiosk.backoff) /\ ~late THEN {st}
        ELSE UNION {IF x.kiosk.active THEN SessionPoll(x, late) ELSE {x} : x \in b}

(* pollWifi with the link up *)
PollUp(st) == IF st.kiosk.connecting \/ st.kiosk.active \/ st.kiosk.direct
              THEN [st EXCEPT !.kiosk = Flags0, !.mem = TRUE] ELSE st

Now == [ses |-> ses, kiosk |-> kiosk, mem |-> apMemory]
(* the call returns: its local configuration is gone *)
Return(st) == /\ ses' = IF st.ses.config = "local"
                        THEN [st.ses EXCEPT !.config = "gone"] ELSE st.ses
              /\ kiosk' = st.kiosk
              /\ apMemory' = st.mem

(* wifiPollAllowed: not while the player has the radio's memory *)
isBusyForWifi == audio # "none"

PollWifi(late) ==
    /\ client = "kiosk" /\ ~isBusyForWifi
    /\ IF link THEN Return(PollUp(Now))
       ELSE \E st \in PollDown(Now, late) : Return(st)
    /\ UNCHANGED <<client, link, range, audio, moves, plays>>

(* the link drops between the two reads of its status in pollWifi: the only *)
(* way into the branch that starts a connection again                       *)
PollWifiLosing ==
    /\ client = "kiosk" /\ ~isBusyForWifi /\ link /\ ~kiosk.backoff
    /\ moves < MaxMoves
    /\ link' = FALSE /\ moves' = moves + 1
    /\ \E st \in startBackgroundWifi([Now EXCEPT !.kiosk = Flags0]) : Return(st)
    /\ UNCHANGED <<client, range, audio, plays>>

\* Mutant: the heartbeat gives up when the link is down, as the upload does.
NoConnectBeforeUpload(late) == Return(Now)

(* sendHeartbeat, every PGL_HEARTBEAT_INTERVAL_MS, link or no link: it      *)
(* calls tryConnectBeforeUpload, whose pollWifi asks nobody                 *)
tryConnectBeforeUpload(late) ==
    \E a \in IF kiosk.active \/ kiosk.backoff \/ kiosk.direct THEN {Now}
            ELSE startBackgroundWifi(Now) :
    \E st \in PollDown(a, late) : Return(st)
SendHeartbeat(late) ==
    /\ client = "kiosk" /\ ~link
    /\ tryConnectBeforeUpload(late)
    /\ UNCHANGED <<client, link, range, audio, moves, plays>>

(* a bottle: playThanks makes the audio engine and starts a track *)
PlayThanks == /\ client = "kiosk" /\ audio = "none" /\ plays < MaxPlays
              /\ audio' = "playing" /\ plays' = plays + 1
              /\ UNCHANGED <<client, ses, link, range, apMemory, kiosk, moves>>
TrackEnds == /\ audio = "playing" /\ audio' = "ended"
             /\ UNCHANGED <<client, ses, link, range, apMemory, kiosk, moves, plays>>
(* PglAudio::poll: onPlaybackFinished drains and releases the engine *)
AudioPoll == /\ audio = "ended" /\ audio' = "none"
             /\ UNCHANGED <<client, ses, link, range, apMemory, kiosk, moves, plays>>

-----------------------------------------------------------------------------
(* The environment: the driver joins the network it was told to, when it   *)
(* is in range; networks come and go; the link is lost                     *)

Associate == /\ ~link /\ ses.target \in range
             /\ link' = TRUE
             /\ UNCHANGED <<client, ses, range, apMemory, kiosk, audio, moves, plays>>

LoseLink == /\ link /\ moves < MaxMoves
            /\ link' = FALSE /\ moves' = moves + 1
            /\ ses' = Disconnect(ses)
            /\ UNCHANGED <<client, range, apMemory, kiosk, audio, plays>>

Move == /\ moves < MaxMoves
        /\ range' \in SUBSET Nets /\ range' # range
        /\ moves' = moves + 1
        /\ link' = (link /\ ses.target \in range')
        /\ UNCHANGED <<client, ses, apMemory, kiosk, audio, plays>>

Init == /\ client \in {"kiosk", "node"}
        /\ link = FALSE /\ range \in SUBSET Nets /\ apMemory \in BOOLEAN
        /\ audio = "none" /\ moves = 0 /\ plays = 0
        /\ ses = Session0 /\ kiosk = Flags0

(* setup(): network begin and startBackgroundWifi *)
Setup == /\ client = "kiosk" /\ ses = Session0 /\ kiosk = Flags0 /\ ~link
         /\ \E st \in startBackgroundWifi(Now) : Return(st)
         /\ UNCHANGED <<client, link, range, audio, moves, plays>>

Poll == \E late \in BOOLEAN : NodePoll(late) \/ PollWifi(late)
Heartbeat == \E late \in BOOLEAN : SendHeartbeat(late)

Next == Setup \/ NodeWake \/ Poll \/ PollWifiLosing \/ Heartbeat \/ PlayThanks
        \/ TrackEnds \/ AudioPoll \/ Associate \/ LoseLink \/ Move

(* The loop and the clock go on: a deadline that is waited for passes, a   *)
(* track ends, the heartbeat comes back every two minutes.  The driver     *)
(* joins a network in range that it is asked to join without a fixed       *)
(* channel again and again.                                                *)
Unpinned == Associate /\ ~ses.pinned
Fairness == /\ WF_lvars(Setup) /\ SF_lvars(NodePoll(TRUE))
            /\ SF_lvars(PollWifi(TRUE)) /\ SF_lvars(SendHeartbeat(TRUE))
            /\ WF_lvars(TrackEnds) /\ WF_lvars(AudioPoll) /\ SF_lvars(Unpinned)

Spec == Init /\ [][Next]_lvars
FairSpec == Spec /\ Fairness

-----------------------------------------------------------------------------
(* A session ends: no order of scans, failures and retries keeps a node    *)
(* awake in n3WifiConnect for ever.                                        *)
SessionEnds == (client = "node" /\ ses.phase \in Active)
                  ~> (ses.phase \notin Active)

(* The kiosk comes back after its link was lost, whatever it was doing: no *)
(* combination of its flags leaves it without an attempt to come.          *)
KeepsTrying == (client = "kiosk" /\ ~link)
                  ~> (link \/ kiosk.direct \/ kiosk.active \/ kiosk.backoff)

=============================================================================
