-------------------------------- MODULE Kiosk --------------------------------
(***************************************************************************)
(* The parts of the bottle counter (poissonglouton) checked in one run:    *)
(* its memory (BottleStore), its connection (WifiLink) and its detection   *)
(* (BottleSense).  loop() calls them one after the other and they share no *)
(* variable, so that a behaviour follows one of them and leaves the others *)
(* as they start.                                                          *)
(***************************************************************************)
EXTENDS BottleStore

CONSTANTS Nets, MaxMoves, MaxPlays,              \* WifiLink
          Debounce, PirGuard, PirWindow,         \* BottleSense
          UsPolls, Promote, Demote, PirGates, PirAlone

(* An object that is counted is found by the range, even by one that the   *)
(* board has yet to discover, before the debounce has passed (config.h).   *)
ASSUME SenseAssumption ==
    /\ {UsPolls, Promote, Demote, PirWindow} \subseteq Nat \ {0}
    /\ {Debounce, PirGuard} \subseteq Nat /\ {PirGates, PirAlone} \subseteq BOOLEAN
    /\ Promote + UsPolls <= Debounce

VARIABLES part, client, ses, link, range, apMemory, kiosk, audio, moves, plays,
          build, usPresent, valid, invalid, irPrev, pirPrev, armed, below,
          wake, age, ping, counted, stay

Wifi == INSTANCE WifiLink
Sense == INSTANCE BottleSense

wifiVars == <<client, ses, link, range, apMemory, kiosk, audio, moves, plays>>
senseVars == <<build, usPresent, valid, invalid, irPrev, pirPrev, armed, below,
               wake, age, ping, counted, stay>>
kvars == <<part, vars, wifiVars, senseVars>>

(* Of the parts that are left alone, one initial state is enough. *)
KInit ==
    /\ part \in {"store", "wifi", "sense"}
    /\ Init /\ Wifi!Init /\ Sense!Init
    /\ part = "wifi" \/ (client = "node" /\ range = {} /\ ~apMemory)
    /\ part = "sense" \/ (build = [ir |-> FALSE, pir |-> FALSE] /\ ~usPresent)

KNext ==
    /\ UNCHANGED part
    /\ \/ part = "store" /\ Next /\ UNCHANGED <<wifiVars, senseVars>>
       \/ part = "wifi" /\ Wifi!Next /\ UNCHANGED <<vars, senseVars>>
       \/ part = "sense" /\ Sense!Next /\ UNCHANGED <<vars, wifiVars>>

(* The fairness of WifiLink. *)
WifiStep(A) == part = "wifi" /\ A
KFairness ==
    /\ WF_wifiVars(WifiStep(Wifi!Setup)) /\ SF_wifiVars(WifiStep(Wifi!NodePoll(TRUE)))
    /\ SF_wifiVars(WifiStep(Wifi!PollWifi(TRUE))) /\ SF_wifiVars(WifiStep(Wifi!SendHeartbeat(TRUE)))
    /\ WF_wifiVars(WifiStep(Wifi!TrackEnds)) /\ WF_wifiVars(WifiStep(Wifi!AudioPoll))
    /\ SF_wifiVars(WifiStep(Wifi!Unpinned))

KSpec == KInit /\ [][KNext]_kvars /\ KFairness
-----------------------------------------------------------------------------
(* No bottle counted is lost by a reset between two handlers, the total is *)
(* the number of bottles, and the server stores each once (PglCounter,     *)
(* PglEventJournal, tryUploadBatch).                                       *)
BottlesExact == NoneLost /\ TotalExact /\ StoredOnce

(* An object is counted once, also the one that woke the board             *)
(* (PglDetection::poll, pglFuseDetection).                                 *)
ObjectCountsOnce == [](part = "sense" => Sense!StayCountsOnce) /\ Sense!WakeCounted

(* A connection session ends, and the kiosk goes on trying to connect      *)
(* whatever it was doing when the link was lost (n3_wifi, PglNetwork).     *)
LinkLives == part = "wifi" => Wifi!SessionEnds /\ Wifi!KeepsTrying
=============================================================================
