------------------------------- MODULE Alerts -------------------------------
(***************************************************************************)
(* The mails ffp5cs sends of its own when the server does not: the alerts  *)
(* of handleAlerts (aquarium low, tank low and refilled, aquarium          *)
(* overfull), the queue of the Mailer with its retries and its deferred    *)
(* acknowledgements, and the lock of the tank pump that waits for the end  *)
(* of the overfull alert.  (automatism_display.cpp, mailer_queue.cpp,      *)
(* mailer.cpp, task_mail.cpp, level_alert_orchestrator.h,                  *)
(* flood_orchestrator.h, flood_alert.h, shared_alert_gate.h)               *)
(***************************************************************************)
EXTENDS Integers, SequencesExt

CONSTANTS QueueSize,  \* MAIL_QUEUE_SIZE
          Budget,     \* FAILOVER_MAIL_BUDGET
          Debounce, Stable, Cooldown,  \* of the overfull alert, in ticks
          MaxMoves,   \* bound: how often the world changes
          MaxFails    \* bound: how many sessions with the mail server fail

VARIABLES level,   \* aqua: "over", "high" (within the hysteresis), "ok" or
                   \* "low"; tank: "ok" or "low"
          net,     \* covers: serverCoversSharedAlerts; wifi: WL_CONNECTED
          grace,   \* the 30 s that follow a start are not over
          latch,   \* _lowAquaSent, _lowTankSent, inFlood
          flood,   \* ages of floodEnterSinceEpoch, aboveResetSinceEpoch and
                   \* lastFloodEmailEpoch; None is zero
          mailer,  \* queue: _mailQueue; wait: before _nextMailRetryMs;
                   \* failover: _failoverActive; sent: _failoverMailsSent
          turn,    \* automationTask: "update", then "mail"
          bound,   \* moves, fails: how many so far
          told     \* ghost: the last mail delivered since the latch went up
lvars == <<level, net, grace, latch, flood, mailer, turn, bound, told>>

None == -1
Kinds == {"aqua", "tank", "flood"}
Old == IF Cooldown > Debounce + Stable THEN Cooldown ELSE Debounce + Stable
Older(age) == IF age = None THEN None ELSE IF age < Old THEN age + 1 ELSE age

Booted == /\ grace = TRUE
          /\ latch = [k \in Kinds |-> FALSE]
          /\ mailer = [queue |-> <<>>, wait |-> FALSE, failover |-> FALSE, sent |-> 0]
          /\ turn = "update"
          /\ told = [k \in Kinds |-> FALSE]

Init == /\ level = [aqua |-> "ok", tank |-> "ok"]
        /\ net = [covers |-> FALSE, wifi |-> TRUE]
        /\ flood = [enter |-> None, above |-> None, last |-> None]
        /\ bound = [moves |-> 0, fails |-> 0]
        /\ Booted

-----------------------------------------------------------------------------
(* One cycle of handleAlerts.  A cycle is a record c of what it changes,   *)
(* passed from one part to the next.                                       *)

(* sendAlertAcked: refused without the network, beyond the budget, or when *)
(* the queue is full; the latch then stays as it is.                       *)
Asked(c, kind, value, back) ==
    IF Len(c.queue) < QueueSize /\ net.wifi /\ c.sent < Budget
    THEN [c EXCEPT !.queue = Append(@, [of |-> kind, fail |-> back, tries |-> 0]),
                   !.sent = @ + 1, !.latch[kind] = value,
                   !.told[kind] = @ /\ ~value]
    ELSE c

(* The level of the aquarium: its latch falls in silence. *)
AquaLow(c) ==
    LET r == IF level.aqua = "low" /\ ~c.latch.aqua
             THEN Asked(c, "aqua", TRUE, FALSE) ELSE c
    IN  IF level.aqua # "low" THEN [r EXCEPT !.latch.aqua = FALSE] ELSE r

(* The level of the tank: a mail says that it is filled again. *)
TankLow(c) ==
    IF level.tank = "low" /\ ~c.latch.tank THEN Asked(c, "tank", TRUE, FALSE)
    ELSE IF level.tank = "ok" /\ c.latch.tank THEN Asked(c, "tank", FALSE, TRUE)
    ELSE c

Since(age) == IF age = None THEN 0 ELSE age

Cooled(last) == last = None \/ last >= Cooldown

(* FloodAlert::evaluate and markEmailSent *)
Overfull(c) ==
    IF level.aqua = "over"
    THEN LET e == [c EXCEPT !.flood.enter = Since(@), !.flood.above = None]
             r == Asked(e, "flood", TRUE, FALSE)
         IN  IF ~c.latch.flood /\ e.flood.enter >= Debounce /\ Cooled(c.flood.last)
             THEN IF r = e THEN e ELSE [r EXCEPT !.flood.last = 0]
             ELSE e
    ELSE LET e == [c EXCEPT !.flood.enter = None]
         IN  IF level.aqua = "high" THEN [e EXCEPT !.flood.above = None]
             ELSE IF Since(c.flood.above) >= Stable
             THEN [e EXCEPT !.flood.above = None, !.latch.flood = FALSE]
             ELSE [e EXCEPT !.flood.above = Since(@)]

(* setFailoverActive, then the alerts unless the server covers them *)
Update ==
    /\ turn = "update"
    /\ LET failover == ~net.covers
           c == [queue |-> mailer.queue,
                 sent |-> IF mailer.failover /\ ~failover THEN 0 ELSE mailer.sent,
                 latch |-> latch, flood |-> flood, told |-> told]
           r == IF failover /\ ~grace THEN TankLow(Overfull(AquaLow(c))) ELSE c
       IN  /\ mailer' = [mailer EXCEPT !.queue = r.queue, !.sent = r.sent,
                                       !.failover = failover]
           /\ latch' = r.latch /\ flood' = r.flood /\ told' = r.told
    /\ turn' = "mail"
    /\ UNCHANGED <<level, net, grace, bound>>

-----------------------------------------------------------------------------
(* processMailQueueIfReady and processOneMailSync *)

First == mailer.queue[1]

(* waitForNetworkReadyForSMTP *)
NetworkReady == net.wifi

(* sendAlertSync of the first mail of the queue *)
Attempt == /\ turn = "mail" /\ turn' = "update"
           /\ mailer.queue # <<>> /\ ~mailer.wait

Delivered ==
    /\ Attempt /\ NetworkReady
    /\ mailer' = [mailer EXCEPT !.queue = Tail(@)]
    /\ told' = [told EXCEPT ![First.of] = @ \/ ~First.fail]
    /\ UNCHANGED <<level, net, grace, latch, flood, bound>>

\* Mutant: a mail given up leaves the latch as it is.
GivenUpKept == UNCHANGED latch

(* The deferred acknowledgement of a mail given up *)
GivenUp == latch' = [latch EXCEPT ![First.of] = First.fail]

(* No network, no session, or a light sleep about to begin: the mail goes  *)
(* back to the front, twice.                                               *)
Failed ==
    /\ Attempt
    /\ bound.fails < MaxFails
    /\ bound' = [bound EXCEPT !.fails = @ + 1]
    /\ IF First.tries < 2
       THEN /\ mailer' = [mailer EXCEPT !.queue[1].tries = @ + 1, !.wait = TRUE]
            /\ UNCHANGED latch
       ELSE /\ mailer' = [mailer EXCEPT !.queue = Tail(@), !.wait = TRUE]
            /\ GivenUp
    /\ UNCHANGED <<level, net, grace, flood, told>>

(* Nothing to send, or the backoff of a minute *)
NoMail ==
    /\ turn = "mail" /\ turn' = "update"
    /\ mailer.queue = <<>> \/ mailer.wait
    /\ UNCHANGED <<level, net, grace, latch, flood, mailer, bound, told>>

Mail == Delivered \/ Failed \/ NoMail

-----------------------------------------------------------------------------
Tick == /\ flood' = [f \in DOMAIN flood |-> Older(flood[f])]
        /\ mailer' = [mailer EXCEPT !.wait = FALSE]
        /\ grace' = FALSE
        /\ UNCHANGED <<level, net, latch, turn, bound, told>>

Move == /\ bound.moves < MaxMoves
        /\ bound' = [bound EXCEPT !.moves = @ + 1]
        /\ \/ /\ \E a \in {"over", "high", "ok", "low"} \ {level.aqua} :
                     level' = [level EXCEPT !.aqua = a]
              /\ UNCHANGED net
           \/ /\ \E t \in {"ok", "low"} \ {level.tank} : level' = [level EXCEPT !.tank = t]
              /\ UNCHANGED net
           \/ /\ \E c \in BOOLEAN, w \in BOOLEAN :
                    /\ c => w
                    /\ net' = [covers |-> c, wifi |-> w] /\ net' # net
              /\ UNCHANGED level
        /\ UNCHANGED <<grace, latch, flood, mailer, turn, told>>

(* A reset: the time of the last overfull mail is in flash. *)
Reset == /\ bound.moves < MaxMoves
         /\ bound' = [bound EXCEPT !.moves = @ + 1]
         /\ grace' = TRUE
         /\ latch' = [k \in Kinds |-> FALSE]
         /\ flood' = [flood EXCEPT !.enter = None, !.above = None]
         /\ mailer' = [queue |-> <<>>, wait |-> FALSE, failover |-> FALSE, sent |-> 0]
         /\ turn' = "update"
         /\ told' = [k \in Kinds |-> FALSE]
         /\ UNCHANGED <<level, net>>

Next == Update \/ Mail \/ Tick \/ Move \/ Reset
Spec == Init /\ [][Next]_lvars
             /\ WF_lvars(Update \/ Mail) /\ WF_lvars(Tick)

-----------------------------------------------------------------------------
Queued(kind) == \E i \in DOMAIN mailer.queue :
                    mailer.queue[i].of = kind /\ ~mailer.queue[i].fail

(* A latch that is up stands for a mail that was delivered or that is      *)
(* still in the queue: when the mailer gives up, it takes the latch down   *)
(* again (level_alert_orchestrator.h:24-27), whatever rose, fell, failed   *)
(* or was refused meanwhile.                                               *)
LatchIsTold == \A k \in {"aqua", "flood"} : latch[k] => told[k] \/ Queued(k)

(* An aquarium that stays low while the server is out of reach and mails   *)
(* pass is told, unless the budget of this outage is spent.                *)
LowIsTold == <>[](level.aqua = "low" /\ ~net.covers /\ net.wifi)
                 => <>[](told.aqua \/ mailer.sent = Budget)

(* Two mails about an overfull aquarium are Cooldown apart, resets         *)
(* included.                                                               *)
FloodSpaced == [][flood'.last = 0 /\ flood.last # 0 /\ flood.last # None
                      => flood.last >= Cooldown]_lvars
=============================================================================
