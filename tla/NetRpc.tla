-------------------------------- MODULE NetRpc --------------------------------
(***************************************************************************)
(* The network RPC layer of the ffp5cs firmware: the static pool of        *)
(* NetRequest slots, the FreeRTOS queue g_netQueue of slot pointers, the   *)
(* netTask that owns HTTP/TLS, and the tasks that hand it work.  A         *)
(* FetchRemoteState caller blocks on a task notification and may give up   *)
(* on a timeout; POST and OTA requests are fire-and-forget.                *)
(*                                                                         *)
(* Every task runs on its own: autoTask on core 1, netTask on core 0, the  *)
(* OTA task above netTask, so any two steps below may interleave.          *)
(***************************************************************************)
EXTENDS Naturals, Sequences, FiniteSets

CONSTANTS
    PoolSize,       \* kNetRequestPoolSize: 8 on WROOM, 16 on S3
    Tasks,          \* the tasks that issue requests
    RpcTask,        \* the one task that issues blocking fetches (autoTask)
    NoTask,         \* a null requester handle
    MaxRequests,    \* bound on the number of requests ever issued
    FeatureOta,     \* FEATURE_OTA: OTA updates and OTA checks are built in
    OtaTaskCreated  \* g_otaTriggerQueue exists: OTA checks bypass the pool

ASSUME PoolAssumption == PoolSize \in Nat /\ PoolSize >= 6
ASSUME TaskAssumption == RpcTask \in Tasks /\ NoTask \notin Tasks
ASSUME BoundAssumption == MaxRequests \in Nat
ASSUME OtaAssumption == FeatureOta \in BOOLEAN /\ OtaTaskCreated \in BOOLEAN

Slots == 0 .. PoolSize - 1
Shared == 0 .. PoolSize - 6
OtaSlot == PoolSize - 1
FetchSlot == PoolSize - 2
NoSlot == PoolSize

Categories == {"Replay", "EventAck", "Periodic"}
PostSlot(cat) == CASE cat = "Replay"   -> PoolSize - 3
                   [] cat = "EventAck" -> PoolSize - 4
                   [] cat = "Periodic" -> PoolSize - 5

Ids == 1 .. MaxRequests
Types == {"None", "Fetch", "Post", "Ota"}

Requests == [type : Types, requester : Tasks \cup {NoTask},
             cancelled : BOOLEAN, success : BOOLEAN, id : Ids \cup {0}]

Blank == [type |-> "None", requester |-> NoTask,
          cancelled |-> FALSE, success |-> FALSE, id |-> 0]

VARIABLES
    used,         \* s_netRequestPoolUsed
    req,          \* s_netRequestPool; "id" names the logical request
    netQueue,     \* g_netQueue: pointers to slots
    pc, slot,     \* where each issuing task is, and the slot it holds
    job,          \* the request each task last issued: its type and id
    outcome,      \* what the last blocking fetch returned to its caller
    notif,        \* the task notification of each task (count > 0)
    netPc,        \* where netTask is
    netSlot,      \* the request netTask works on
    netId,        \* the logical request it read from that slot
    otaExclusive, \* otaManager.isOtaExclusive()
    nextId,       \* names of logical requests, in order of issue
    accepted,     \* POSTs for which netPostRaw returned true
    handed,       \* how often each POST left for postSender (or NVS); 2 = more
    drained,      \* POSTs that the OTA drain threw away
    fresh,        \* a fetch completed since RpcTask last submitted one
    disturbed     \* history: some caller gave up, or a fetch was drained

pool == <<used, req>>
callers == <<pc, slot, job, outcome>>
net == <<netPc, netSlot, netId>>
history == <<nextId, accepted, handed, drained, fresh, disturbed>>
vars == <<used, req, netQueue, pc, slot, job, outcome, notif, netPc, netSlot,
          netId, otaExclusive, nextId, accepted, handed, drained, fresh,
          disturbed>>

Init ==
    /\ used = [s \in Slots |-> FALSE]
    /\ req = [s \in Slots |-> Blank]
    /\ netQueue = <<>>
    /\ pc = [t \in Tasks |-> "idle"]
    /\ slot = [t \in Tasks |-> NoSlot]
    /\ job = [t \in Tasks |-> [type |-> "None", id |-> 0]]
    /\ outcome = [t \in Tasks |-> "none"]
    /\ notif = [t \in Tasks |-> FALSE]
    /\ netPc = "loop" /\ netSlot = NoSlot /\ netId = 0
    /\ otaExclusive = FALSE
    /\ nextId = 1
    /\ accepted = {} /\ drained = {} /\ fresh = FALSE
    /\ handed = [i \in Ids |-> 0]
    /\ disturbed = FALSE

-------------------------------------------------------------------------------
(* Mutant: the slot is taken without looking whether it is in use.          *)
FirstFreeUnchecked(s, dedicated, others) ==
    s = dedicated \/ (used[dedicated] /\ \A r \in others : r < s => used[r])

(* netRequestAllocTrySlot over a scan order: the dedicated slot first, then *)
(* the rest in increasing order.  A CAS takes the first free slot and the   *)
(* memset blanks it.                                                        *)
FirstFree(s, dedicated, others) ==
    /\ ~used[s]
    /\ s = dedicated \/ (used[dedicated] /\ \A r \in others : r < s => used[r])

TryAlloc(t, type, dedicated, others) ==
    /\ pc[t] = "idle"
    /\ nextId \in Ids
    /\ ~otaExclusive
    /\ \E s \in others \cup {dedicated} :
        /\ FirstFree(s, dedicated, others)
        /\ used' = [used EXCEPT ![s] = TRUE]
        /\ req' = [req EXCEPT ![s] = Blank]
        /\ slot' = [slot EXCEPT ![t] = s]
    /\ pc' = [pc EXCEPT ![t] = "alloc"]
    /\ job' = [job EXCEPT ![t] = [type |-> type, id |-> nextId]]
    /\ outcome' = [outcome EXCEPT ![t] = "none"]
    /\ nextId' = nextId + 1
    /\ UNCHANGED <<netQueue, notif, net, otaExclusive, accepted, handed,
                   drained, fresh, disturbed>>

AllocFetch == TryAlloc(RpcTask, "Fetch", FetchSlot, Shared)

AllocPost(t, cat) == TryAlloc(t, "Post", PostSlot(cat), Shared)

AllocOta(t) ==
    /\ FeatureOta /\ ~OtaTaskCreated
    /\ TryAlloc(t, "Ota", OtaSlot, 0 .. FetchSlot)

Release(t, result) ==
    /\ pc' = [pc EXCEPT ![t] = "idle"]
    /\ slot' = [slot EXCEPT ![t] = NoSlot]
    /\ outcome' = [outcome EXCEPT ![t] = result]
    /\ UNCHANGED job

(* Mutant: the success flag is not reset.                                   *)
FilledKeepingSuccess(t, requester) ==
    [type |-> job[t].type, requester |-> requester, cancelled |-> FALSE,
     success |-> req[slot[t]].success, id |-> job[t].id]

(* The allocated slot is filled in and its pointer sent to g_netQueue; when *)
(* the queue stays full for 200 ms the slot is freed and the call fails.    *)
Filled(t, requester) ==
    [type |-> job[t].type, requester |-> requester,
     cancelled |-> FALSE, success |-> FALSE, id |-> job[t].id]

SubmitOneWay(t) ==
    /\ pc[t] = "alloc" /\ job[t].type # "Fetch"
    /\ req' = [req EXCEPT ![slot[t]] = Filled(t, NoTask)]
    /\ IF Len(netQueue) < PoolSize
       THEN /\ netQueue' = Append(netQueue, slot[t])
            /\ accepted' = IF job[t].type = "Post"
                           THEN accepted \cup {job[t].id} ELSE accepted
            /\ UNCHANGED used
       ELSE /\ used' = [used EXCEPT ![slot[t]] = FALSE]
            /\ UNCHANGED <<netQueue, accepted>>
    /\ Release(t, "none")
    /\ UNCHANGED <<notif, net, otaExclusive, nextId, handed, drained,
                   fresh, disturbed>>

(* netRpcAlloc up to the wait: any older notification is taken first.       *)
SubmitRpc(t) ==
    /\ pc[t] = "alloc" /\ job[t].type = "Fetch"
    /\ req' = [req EXCEPT ![slot[t]] = Filled(t, t)]
    /\ notif' = [notif EXCEPT ![t] = FALSE]
    /\ IF Len(netQueue) < PoolSize
       THEN /\ netQueue' = Append(netQueue, slot[t])
            /\ pc' = [pc EXCEPT ![t] = "wait"]
            /\ UNCHANGED <<used, slot, job, outcome>>
       ELSE /\ used' = [used EXCEPT ![slot[t]] = FALSE]
            /\ Release(t, "abandoned")
            /\ UNCHANGED netQueue
    /\ fresh' = FALSE
    /\ UNCHANGED <<net, otaExclusive, nextId, accepted, handed, drained,
                   disturbed>>

(* The notification came: read the result and free the slot.                *)
RpcDone(t) ==
    /\ pc[t] = "wait" /\ notif[t]
    /\ notif' = [notif EXCEPT ![t] = FALSE]
    /\ used' = [used EXCEPT ![slot[t]] = FALSE]
    /\ Release(t, IF req[slot[t]].success THEN "success" ELSE "failure")
    /\ UNCHANGED <<req, netQueue, net, otaExclusive, history>>

(* The limit passed: cancel the request, then wait 500 ms more.  The loop   *)
(* last looked at the notification before it looked at the clock.           *)
RpcTimeout(t) ==
    /\ pc[t] = "wait"
    /\ req' = [req EXCEPT ![slot[t]].cancelled = TRUE]
    /\ pc' = [pc EXCEPT ![t] = "late"]
    /\ disturbed' = TRUE
    /\ UNCHANGED <<used, netQueue, slot, job, outcome, notif, net,
                   otaExclusive, nextId, accepted, handed, drained, fresh>>

RpcLateNotified(t) ==
    /\ pc[t] = "late" /\ notif[t]
    /\ notif' = [notif EXCEPT ![t] = FALSE]
    /\ used' = [used EXCEPT ![slot[t]] = FALSE]
    /\ Release(t, "abandoned")
    /\ UNCHANGED <<req, netQueue, net, otaExclusive, history>>

RpcGiveUp(t) ==
    /\ pc[t] = "late" /\ ~notif[t]
    /\ Release(t, "abandoned")
    /\ UNCHANGED <<used, req, netQueue, notif, net, otaExclusive, history>>

-------------------------------------------------------------------------------
(* netTask.                                                                 *)

Notified(s) == IF req[s].requester = NoTask THEN notif
               ELSE [notif EXCEPT ![req[s].requester] = TRUE]

(* Mutant: the request is peeked at and stays in the queue.                 *)
Peek(next) ==
    /\ netPc = "loop" /\ ~otaExclusive
    /\ netQueue # <<>>
    /\ netSlot' = Head(netQueue)
    /\ netId' = req[Head(netQueue)].id
    /\ netPc' = next
    /\ UNCHANGED netQueue

Pop(next) ==
    /\ netPc = "loop" /\ ~otaExclusive
    /\ netQueue # <<>>
    /\ netQueue' = Tail(netQueue)
    /\ netSlot' = Head(netQueue)
    /\ netId' = req[Head(netQueue)].id
    /\ netPc' = next

(* The caller has already given up: notify it anyway, then free.            *)
NetDropCancelled ==
    /\ Pop("free")
    /\ req[Head(netQueue)].cancelled
    /\ notif' = Notified(Head(netQueue))
    /\ UNCHANGED <<pool, callers, otaExclusive, history>>

(* PostRaw: the payload goes to the postSender queue, or to NVS when that   *)
(* queue is full (module PostPipeline); here it has left the pool.          *)
NetPost ==
    /\ Pop("free")
    /\ ~req[netSlot'].cancelled /\ req[netSlot'].type = "Post"
    /\ handed' = [handed EXCEPT ![netId'] = IF @ = 0 THEN 1 ELSE 2]
    /\ UNCHANGED <<pool, callers, notif, otaExclusive, nextId, accepted,
                   drained, fresh, disturbed>>

(* Mutant: netTask blocks on a trigger queue that nobody reads.             *)
NetOtaCheckBlocked ==
    /\ FALSE
    /\ UNCHANGED vars

(* OtaCheck: relayed to the OTA task's trigger queue when there is one.     *)
NetOtaCheck ==
    /\ Pop("free")
    /\ ~req[netSlot'].cancelled /\ req[netSlot'].type = "Ota"
    /\ UNCHANGED <<pool, callers, notif, otaExclusive, history>>

(* FetchRemoteState, and the default case of the switch.                    *)
NetStart ==
    /\ Pop("work")
    /\ ~req[netSlot'].cancelled /\ req[netSlot'].type \in {"Fetch", "None"}
    /\ UNCHANGED <<pool, callers, notif, otaExclusive, history>>

(* tryFetchConfigFromServer returned: 1 (HTTP) and 2 (NVS cache) are        *)
(* successes.  The result is written unless the caller has given up.        *)
NetResult(ok) ==
    /\ netPc = "work"
    /\ ok => netId # 0
    /\ fresh' = (fresh \/ ok)
    /\ req' = IF req[netSlot].cancelled THEN req
              ELSE [req EXCEPT ![netSlot].success = ok]
    /\ netPc' = "reply"
    /\ UNCHANGED <<used, netQueue, callers, notif, netSlot, netId,
                   otaExclusive, nextId, accepted, handed, drained, disturbed>>

NetReply ==
    /\ netPc = "reply"
    /\ notif' = Notified(netSlot)
    /\ netPc' = "replied"
    /\ UNCHANGED <<pool, netQueue, callers, netSlot, netId, otaExclusive,
                   history>>

NetIdle(next) == netPc' = next /\ netSlot' = NoSlot /\ netId' = 0

(* Mutant: netTask never frees the slot of a fetch.                         *)
NetFinishWithoutFree ==
    /\ netPc = "replied"
    /\ NetIdle("loop")
    /\ UNCHANGED <<pool, netQueue, callers, notif, otaExclusive, history>>

(* After the reply netTask frees only a request that was cancelled.         *)
NetFinish ==
    /\ netPc = "replied"
    /\ used' = [used EXCEPT ![netSlot] = @ /\ ~req[netSlot].cancelled]
    /\ NetIdle("loop")
    /\ UNCHANGED <<req, netQueue, callers, notif, otaExclusive, history>>

NetFree ==
    /\ netPc \in {"free", "drainFree"}
    /\ used' = [used EXCEPT ![netSlot] = FALSE]
    /\ NetIdle(IF netPc = "free" THEN "loop" ELSE "drain")
    /\ UNCHANGED <<req, netQueue, callers, notif, otaExclusive, history>>

(* An OTA is running: every queued request is cancelled, its requester      *)
(* notified and its slot freed, until the queue is empty.                   *)
NetDrain ==
    /\ netPc = "drain" \/ (netPc = "loop" /\ otaExclusive)
    /\ netQueue # <<>>
    /\ LET s == Head(netQueue) IN
       /\ netQueue' = Tail(netQueue)
       /\ netSlot' = s /\ netId' = req[s].id
       /\ req' = [req EXCEPT ![s].cancelled = TRUE]
       /\ notif' = Notified(s)
       /\ drained' = IF req[s].type = "Post" THEN drained \cup {req[s].id}
                     ELSE drained
       /\ disturbed' = (disturbed \/ req[s].requester # NoTask)
    /\ netPc' = "drainFree"
    /\ UNCHANGED <<used, callers, otaExclusive, nextId, accepted, handed,
                   fresh>>

NetDrainEnd ==
    /\ netPc = "drain" /\ netQueue = <<>>
    /\ NetIdle("loop")
    /\ UNCHANGED <<pool, netQueue, callers, notif, otaExclusive, history>>

(* The OTA manager takes and gives back exclusivity on its own.             *)
OtaToggle ==
    /\ FeatureOta
    /\ otaExclusive' = ~otaExclusive
    /\ UNCHANGED <<pool, netQueue, callers, notif, net, history>>

-------------------------------------------------------------------------------
CallerStep(t) == SubmitOneWay(t) \/ SubmitRpc(t) \/ RpcDone(t) \/ RpcTimeout(t)
                 \/ RpcLateNotified(t) \/ RpcGiveUp(t)

NetStep ==
    \/ NetDropCancelled \/ NetPost \/ NetOtaCheck \/ NetStart
    \/ \E ok \in BOOLEAN : NetResult(ok)
    \/ NetReply \/ NetFinish \/ NetFree \/ NetDrain \/ NetDrainEnd

Next ==
    \/ AllocFetch
    \/ \E t \in Tasks : \E cat \in Categories : AllocPost(t, cat)
    \/ \E t \in Tasks : AllocOta(t)
    \/ \E t \in Tasks : CallerStep(t)
    \/ NetStep
    \/ OtaToggle

(* The FreeRTOS scheduler runs every ready task, HTTP calls are bounded by  *)
(* their timeouts, and a blocked caller polls the clock every 100 ms.       *)
Fairness == /\ WF_vars(NetStep)
            /\ \A t \in Tasks : WF_vars(CallerStep(t))

Spec == Init /\ [][Next]_vars
FairSpec == Spec /\ Fairness

-------------------------------------------------------------------------------
TypeOK ==
    /\ used \in [Slots -> BOOLEAN]
    /\ req \in [Slots -> Requests]
    /\ netQueue \in Seq(Slots)
    /\ pc \in [Tasks -> {"idle", "alloc", "wait", "late"}]
    /\ slot \in [Tasks -> Slots \cup {NoSlot}]
    /\ \A t \in Tasks : pc[t] = "idle" <=> slot[t] = NoSlot
    /\ job \in [Tasks -> [type : Types, id : Ids \cup {0}]]
    /\ outcome \in [Tasks -> {"none", "success", "failure", "abandoned"}]
    /\ notif \in [Tasks -> BOOLEAN]
    /\ netPc \in {"loop", "work", "reply", "replied", "free", "drain",
                  "drainFree"}
    /\ netSlot \in Slots \cup {NoSlot} /\ netId \in Ids \cup {0}
    /\ otaExclusive \in BOOLEAN
    /\ fresh \in BOOLEAN /\ disturbed \in BOOLEAN
    /\ nextId \in 1 .. MaxRequests + 1
    /\ accepted \subseteq Ids \cup {0} /\ drained \subseteq Ids \cup {0}
    /\ handed \in [Ids -> 0 .. 2]

Queued == {netQueue[i] : i \in 1 .. Len(netQueue)}

(* No slot is ever leaked: whatever timeouts, late answers and OTA drains   *)
(* do, a slot marked used is still held by a task, by netTask or by the     *)
(* queue, so that somebody is left to free it.                              *)
NoSlotLeak ==
    \A s \in Slots : used[s] =>
        s \in Queued \cup {netSlot} \cup {slot[t] : t \in Tasks}

(* The slot netTask still answers for: once it has replied it only reads the *)
(* cancelled flag, and the slot is the caller's to free and to reuse.       *)
NetHeld == IF netPc \in {"work", "reply", "free", "drainFree"}
           THEN {netSlot} ELSE {}

(* Until the first abandoned or drained fetch, the pool is a discipline of  *)
(* single ownership: a pointer is queued once, a queued or processed slot   *)
(* is in use and is not being filled by a task, no two tasks hold the same  *)
(* slot, and a waiting caller's slot is not freed under it.                 *)
SingleOwner ==
    ~disturbed =>
        /\ \A i, j \in 1 .. Len(netQueue) : netQueue[i] = netQueue[j] => i = j
        /\ \A s \in Queued \cup NetHeld : used[s]
        /\ Queued \cap NetHeld = {}
        /\ \A t \in Tasks : pc[t] # "idle" => used[slot[t]]
        /\ \A t \in Tasks : pc[t] = "alloc" => slot[t] \notin Queued \cup NetHeld
        /\ \A t, u \in Tasks : slot[t] = slot[u] => t = u \/ slot[t] = NoSlot

(* A fetch reported as successful hands its caller a configuration that     *)
(* netTask obtained after the call was submitted: a notification or a slot  *)
(* left over from an abandoned call never passes an old answer off as new.  *)
FreshSuccess == outcome[RpcTask] = "success" => fresh

(* Until the first disturbance a POST that netPostRaw accepted is in one    *)
(* place: waiting in the queue, handed to postSender exactly once, or       *)
(* thrown away by an OTA drain.                                             *)
Pending(i) == \E n \in 1 .. Len(netQueue) : req[netQueue[n]].id = i
PostsHandedOnce ==
    ~disturbed =>
        \A i \in accepted :
            /\ handed[i] < 2
            /\ Pending(i) = (handed[i] = 0 /\ i \notin drained)
            /\ ~(handed[i] = 1 /\ i \in drained)

(* The comment on the late answer in netRpcAlloc calls the double free      *)
(* harmless.  If it were, an accepted POST would still be handed on, or be  *)
(* pending, or have been drained by an OTA.                                 *)
DoubleFreeHarmless ==
    \A i \in accepted : Pending(i) \/ handed[i] > 0 \/ i \in drained

(* A POST that was accepted does not wait for ever behind fetches, OTA      *)
(* checks and abandoned requests: netTask hands it on or the OTA drain      *)
(* throws it away (or, after a disturbance, a double free may have lost it).*)
PostsLeaveQueue ==
    \A i \in Ids :
        i \in accepted ~> (handed[i] > 0 \/ i \in drained \/ disturbed)

===============================================================================
