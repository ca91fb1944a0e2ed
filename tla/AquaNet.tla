------------------------------- MODULE AquaNet -------------------------------
(***************************************************************************)
(* Parts of the aquarium board (ffp5cs) checked in one run: the RAM queue  *)
(* of unsent data (DataQueue), the station's link (StaLink) and the list   *)
(* of networks it saves (SavedNets), the updates (Ota), the choice of an   *)
(* image (Manifest) and the heater under the server's document (Heater).   *)
(* They share no variable: a behaviour follows one part and leaves the     *)
(* others as they start.                                                   *)
(***************************************************************************)
EXTENDS DataQueue

CONSTANTS MaxVer, SafeAfter, MaxResets,   \* Ota
          Envs, Models,                   \* Manifest
          Names, Max, MaxCalls, MaxCuts,  \* SavedNets
          MaxEvents                       \* Heater

ASSUME NetAssumption ==
    /\ MaxVer \in Nat \ {0} /\ Max \in Nat
    /\ "none" \notin Names \cup Envs

VARIABLES part,
          img, bootp, run, fails, fsWhole, good, offered, net, ram, resets,  \* Ota
          doc, board, out,                                                   \* Manifest
          link, air, flags, weak, tries, saved, at, asked, left,             \* StaLink
          sNet, sCount, job, kept, sLeft,                                    \* SavedNets
          water, relay, prev, commanded, task, page, reach, conf, server, cache,
          posts, hLeft                                                       \* Heater

Image == INSTANCE Ota
Choice == INSTANCE Manifest
Sta == INSTANCE StaLink
    WITH MaxAttempts <- 2, Patience <- 1, MaxMoves <- 1, MaxSleeps <- 1, MaxWeb <- 1
List == INSTANCE SavedNets
    WITH net <- sNet, count <- sCount, left <- sLeft, MaxResets <- MaxCuts
Warm == INSTANCE Heater
    WITH net <- reach, srv <- server, left <- hLeft

imageVars == <<img, bootp, run, fails, fsWhole, good, offered, net, ram, resets>>
choiceVars == <<doc, board, out>>
staVars == <<link, air, flags, weak, tries, saved, at, asked, left>>
listVars == <<sNet, sCount, job, kept, sLeft>>
warmVars == <<water, relay, prev, commanded, task, page, reach, conf, server, cache,
              posts, hLeft>>
nvars == <<part, vars, imageVars, choiceVars, staVars, listVars, warmVars>>

(* Of the parts that are left alone, one initial state is enough. *)
NInit ==
    /\ part \in {"queue", "image", "choice", "sta", "list", "heat"}
    /\ Init /\ List!Init
    /\ Warm!Init /\ (part = "heat" \/ (water = "band" /\ reach = "none" /\ ~conf.recv
                                     /\ ~server /\ cache = {}))
    /\ Image!Init /\ (part = "image" \/ (good = {1} /\ offered = 1 /\ ~net))
    /\ Sta!Init /\ (part = "sta" \/ (air.nets = {} /\ air.weak = "no"))
    /\ IF part = "choice" THEN Choice!Init
       ELSE doc = <<>> /\ board = [env |-> "test", model |-> "wroom"] /\ out = Choice!Nothing

NNext ==
    /\ UNCHANGED part
    /\ \/ part = "queue" /\ Next
          /\ UNCHANGED <<imageVars, choiceVars, staVars, listVars, warmVars>>
       \/ part = "image" /\ Image!Next
          /\ UNCHANGED <<vars, choiceVars, staVars, listVars, warmVars>>
       \/ part = "choice" /\ Choice!Next
          /\ UNCHANGED <<vars, imageVars, staVars, listVars, warmVars>>
       \/ part = "sta" /\ Sta!Next
          /\ UNCHANGED <<vars, imageVars, choiceVars, listVars, warmVars>>
       \/ part = "list" /\ List!Next
          /\ UNCHANGED <<vars, imageVars, choiceVars, staVars, warmVars>>
       \/ part = "heat" /\ Warm!Next
          /\ UNCHANGED <<vars, imageVars, choiceVars, staVars, listVars>>

(* The fairness of Ota, of StaLink and of Heater. *)
In(p, A) == part = p /\ A
NFairness ==
    /\ WF_imageVars(In("image", Image!Tick)) /\ WF_imageVars(In("image", Image!Update))
    /\ WF_imageVars(In("image", Image!OtaWaited))
    /\ \A c \in Image!Checkers : WF_imageVars(In("image", Image!Check(c)))
    /\ WF_staVars(In("sta", Sta!LoopTask)) /\ WF_staVars(In("sta", Sta!AutoTask))
    /\ WF_staVars(In("sta", Sta!WebTask)) /\ WF_staVars(In("sta", Sta!Tick))
    /\ WF_warmVars(In("heat", Warm!Cycle)) /\ WF_warmVars(In("heat", Warm!PageSteps))

NSpec == NInit /\ [][NNext]_nvars /\ NFairness
-----------------------------------------------------------------------------
(* An image is confirmed only if it can reach the server, the one selected *)
(* is whole, and a probation ends; a firmware is checked with the digest   *)
(* of its own node (ota_manager*.cpp, system_boot.cpp,                     *)
(* n3_ota_artifact_select.h).                                              *)
ImageProven ==
    /\ [](part = "image" => Image!ValidReached /\ Image!SelectedIsWhole)
    /\ [](part = "choice" => Choice!DigestOfNode)
    /\ part = "image" => Image!ProbationEnds

(* The station joins a network in range again, the list of networks keeps  *)
(* what was saved, and the heater's regulation switches as the water asks  *)
(* and has its relay back once the commands of the link cease              *)
(* (wifi_manager.cpp, web_routes_wifi.cpp, heater_orchestrator.h).         *)
LinkServes ==
    /\ [](part = "list" => List!NetsKept)
    /\ part = "sta" => Sta!Rejoins
    /\ Warm!Regulates
    /\ part = "heat" => Warm!Regains
=============================================================================
