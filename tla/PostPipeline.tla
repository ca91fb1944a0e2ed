----------------------------- MODULE PostPipeline -----------------------------
(***************************************************************************)
(* The way of a measurement POST through the ffp5cs firmware, from         *)
(* AutomatismSync::sendFullUpdate to the server:                           *)
(*                                                                         *)
(*   sendFullUpdate -> netQueue -> netTask -> postSenderQueue -> HTTP      *)
(*                                                                         *)
(* with the stores that keep it when a stage refuses it: the RAM DataQueue *)
(* (netRPC pool full), the failed-POST queue in NVS (sender queue full, or *)
(* HTTP failure) and, on the S3 board, one file per POST on the SD card.   *)
(* NVS is the flash key-value store: each key is read or written under a   *)
(* lock of its own, so the operations on the queue are several steps, run  *)
(* by netTask, postSenderTask and autoTask, and a reset can fall between.  *)
(***************************************************************************)
EXTENDS Naturals, Sequences, FiniteSets

CONSTANTS
    BoardS3,     \* BOARD_S3 with a card: SdLogger::begin succeeded
    MaxPosts,    \* bound: how many measurements are ever produced
    LongPosts,   \* payloads of MAX_POST_SIZE bytes or more
    RamMax,      \* DataQueue capacity (5)
    NetMax,      \* POST slots of the netRPC pool (module NetRpc)
    SenderMax,   \* kPostSenderQueueLen (4)
    NvsMax,      \* MAX_QUEUED_POSTS (8)
    MaxResets    \* bound: how often the board restarts

ASSUME BoundAssumption ==
    /\ BoardS3 \in BOOLEAN /\ MaxPosts \in Nat /\ MaxResets \in Nat
    /\ {RamMax, NetMax, SenderMax, NvsMax} \subseteq Nat \ {0}
    /\ LongPosts \subseteq 1 .. MaxPosts

Posts == 1 .. MaxPosts
None == 0                          \* an absent key, an empty hand
Keys == 0 .. NvsMax - 1            \* post_q_0 .. post_q_7
Seqs == 1 .. MaxPosts              \* sequence numbers of SD files
Writers == {"net", "sender"}       \* the tasks that call queueFailedPost

VARIABLES
    online,     \* WiFi connected and remote sending enabled
    ota,        \* isOtaExclusive()
    produced,   \* measurements built so far
    ram,        \* DataQueue
    netQ,       \* POSTs accepted by netPostRaw, in g_netQueue
    senderQ,    \* g_postSenderQueue
    hand,       \* the message postSenderTask works on
    senderPc,   \* where it is with it
    key, count, \* NVS: post_q_<i> and post_q_count
    wPc, wItem, wCount,   \* queueFailedPost, per task that runs it
    rPc, rIdx, rCount, rDone, rItem,  \* processQueuedPosts, run by autoTask
    sd,         \* the files of the SD queue: what each number holds
    nextSeq, meta,  \* s_nextSeq, and its copy in /meta.txt
    delivered,  \* what the server has accepted
    lost,       \* POSTs a stage dropped by design
    logged,     \* history: measurements written on the card
    raced,      \* history: two NVS queue operations overlapped
    torn,       \* history: a reset left /meta.txt empty
    resets

queues == <<ram, netQ, senderQ>>
sender == <<hand, senderPc>>
nvs == <<key, count>>
writers == <<wPc, wItem, wCount>>
replay == <<rPc, rIdx, rCount, rDone, rItem>>
card == <<sd, nextSeq, meta, torn, logged>>
env == <<online, ota, resets>>
vars == <<online, ota, produced, ram, netQ, senderQ, hand, senderPc,
          key, count, wPc, wItem, wCount, rPc, rIdx, rCount, rDone, rItem,
          sd, nextSeq, meta, torn, logged, delivered, lost, raced, resets>>

IdlePipeline ==
    /\ ram = <<>> /\ netQ = <<>> /\ senderQ = <<>>
    /\ hand = <<>> /\ senderPc = "idle"
    /\ wPc = [w \in Writers |-> "idle"]
    /\ wItem = [w \in Writers |-> None]
    /\ wCount = [w \in Writers |-> 0]
    /\ rPc = "idle" /\ rIdx = 0 /\ rCount = 0 /\ rDone = 0 /\ rItem = None

Init ==
    /\ online = TRUE /\ ota = FALSE /\ resets = 0
    /\ produced = 0
    /\ IdlePipeline
    /\ key = [k \in Keys |-> None] /\ count = 0
    /\ sd = [n \in Seqs |-> None] /\ nextSeq = 1 /\ meta = 0 /\ torn = FALSE
    /\ delivered = {} /\ lost = {} /\ logged = {}
    /\ raced = FALSE

-------------------------------------------------------------------------------
(* Production.                                                              *)

(* netPostRaw refuses during an OTA and when no slot is left; a POST that   *)
(* netTask is still writing to NVS keeps its slot.                          *)
SlotsUsed(q) == Len(q) + (IF wPc["net"] = "idle" THEN 0 ELSE 1)
Accepts(q) == ~ota /\ SlotsUsed(q) < NetMax

(* replayQueuedData: at most two of the oldest RAM entries, each leaving    *)
(* the RAM queue once netPostRaw took it (without its SD number).           *)
ReplayRam(q, r) ==
    LET n == CHOOSE m \in 0 .. 2 :
                 /\ m <= Len(r) /\ m + SlotsUsed(q) <= NetMax
                 /\ \A k \in 0 .. 2 :
                        k <= Len(r) /\ k + SlotsUsed(q) <= NetMax => k <= m
    IN  [net |-> q \o [i \in 1 .. n |-> [id |-> r[i], sd |-> None]],
         ram |-> SubSeq(r, n + 1, Len(r))]

(* SdLogger::logAndQueue: the next number, saved in /meta.txt, names a new  *)
(* file.  Nothing is stored without a card, or when the write fails.        *)
LogAndQueue(i, stored) ==
    IF stored
    THEN /\ sd' = [sd EXCEPT ![nextSeq] = i]
         /\ nextSeq' = nextSeq + 1 /\ meta' = nextSeq'
         /\ logged' = logged \cup {i}
         /\ UNCHANGED torn
    ELSE UNCHANGED card

(* sendFullUpdate: log on the SD card, then offer the payload to netTask;   *)
(* a success drains the RAM queue, a refusal pushes the payload on it and   *)
(* overwrites its oldest entry when it is full.                             *)
SendFullUpdate(stored) ==
    /\ produced < MaxPosts
    /\ produced' = produced + 1
    /\ LET i == produced + 1 IN
       /\ LogAndQueue(i, stored)
       /\ IF Accepts(netQ)
          THEN LET q == Append(netQ, [id |-> i,
                                      sd |-> IF stored THEN nextSeq ELSE None])
                   s == ReplayRam(q, ram)
               IN  netQ' = s.net /\ ram' = s.ram /\ UNCHANGED lost
          ELSE /\ ram' = IF Len(ram) < RamMax THEN Append(ram, i)
                         ELSE Append(Tail(ram), i)
               /\ lost' = IF Len(ram) < RamMax THEN lost
                          ELSE lost \cup {Head(ram)}
               /\ UNCHANGED netQ
    /\ UNCHANGED <<env, senderQ, sender, nvs, writers, replay, delivered, raced>>

(* AutomatismSync::update drains the RAM queue on every automation cycle.   *)
UpdateReplay ==
    /\ rPc = "idle" /\ online /\ ram # <<>> /\ Accepts(netQ)
    /\ LET s == ReplayRam(netQ, ram) IN netQ' = s.net /\ ram' = s.ram
    /\ UNCHANGED <<env, produced, senderQ, sender, nvs, writers, replay,
                   card, delivered, lost, raced>>

(* SdLogger::replayPending offers the files again, whatever became of them. *)
SdReplay(n) ==
    /\ rPc = "idle" /\ online /\ Accepts(netQ)
    /\ sd[n] # None
    /\ netQ' = Append(netQ, [id |-> sd[n], sd |-> n])
    /\ UNCHANGED <<env, produced, ram, senderQ, sender, nvs, writers, replay,
                   card, delivered, lost, raced>>

-------------------------------------------------------------------------------
(* queueFailedPost by writer w: load the count, write the payload under the *)
(* next key (shifting first when full), save the count.                     *)

Busy == rPc # "idle" \/ \E w \in Writers : wPc[w] # "idle"

QueueFailedPost(w, i) ==
    IF i \in LongPosts
    THEN lost' = lost \cup {i} /\ UNCHANGED <<writers, raced>>
    ELSE /\ wPc' = [wPc EXCEPT ![w] = "write"]
         /\ wItem' = [wItem EXCEPT ![w] = i]
         /\ wCount' = [wCount EXCEPT ![w] = count]
         /\ raced' = (raced \/ Busy)
         /\ UNCHANGED lost

Shifted == [k \in Keys |-> IF k + 1 \in Keys /\ key[k + 1] # None
                           THEN key[k + 1] ELSE key[k]]

WriteEntry(w) ==
    /\ wPc[w] = "write"
    /\ IF wCount[w] >= NvsMax
       THEN /\ key' = [Shifted EXCEPT ![NvsMax - 1] = wItem[w]]
            /\ wCount' = [wCount EXCEPT ![w] = NvsMax]
            /\ lost' = lost \cup ({key[0]} \ {None})
       ELSE /\ key' = [key EXCEPT ![wCount[w]] = wItem[w]]
            /\ wCount' = [wCount EXCEPT ![w] = @ + 1]
            /\ UNCHANGED lost
    /\ wPc' = [wPc EXCEPT ![w] = "save"]
    /\ UNCHANGED <<env, produced, queues, sender, count, wItem, replay, card,
                   delivered, raced>>

SaveCount(w) ==
    /\ wPc[w] = "save"
    /\ count' = wCount[w]
    /\ wPc' = [wPc EXCEPT ![w] = "idle"]
    /\ wItem' = [wItem EXCEPT ![w] = None]
    /\ wCount' = [wCount EXCEPT ![w] = 0]
    /\ UNCHANGED <<env, produced, queues, sender, key, replay, card,
                   delivered, lost, raced>>

-------------------------------------------------------------------------------
(* netTask: a PostRaw request goes to the sender queue, or to NVS when that *)
(* queue is full; during an OTA the queue is drained and the POSTs dropped. *)
NetDispatch ==
    /\ wPc["net"] = "idle" /\ ~ota /\ netQ # <<>>
    /\ netQ' = Tail(netQ)
    /\ IF Len(senderQ) < SenderMax
       THEN senderQ' = Append(senderQ, Head(netQ)) /\ UNCHANGED <<writers, lost, raced>>
       ELSE QueueFailedPost("net", Head(netQ).id) /\ UNCHANGED senderQ
    /\ UNCHANGED <<env, produced, ram, sender, nvs, replay, card, delivered>>

NetDrain ==
    /\ wPc["net"] = "idle" /\ ota /\ netQ # <<>>
    /\ netQ' = Tail(netQ)
    /\ lost' = lost \cup {Head(netQ).id}
    /\ UNCHANGED <<env, produced, ram, senderQ, sender, nvs, writers, replay,
                   card, delivered, raced>>

(* Mutant: the SD file is removed as soon as the sender takes the POST.     *)
SenderTakeMarking ==
    /\ senderPc = "idle" /\ wPc["sender"] = "idle" /\ senderQ # <<>>
    /\ hand' = <<Head(senderQ)>> /\ senderQ' = Tail(senderQ)
    /\ senderPc' = "taken"
    /\ sd' = [sd EXCEPT ![Head(senderQ).sd] = None]
    /\ UNCHANGED <<env, produced, ram, netQ, nvs, writers, replay, nextSeq,
                   meta, torn, logged, delivered, lost, raced>>

(* postSenderTask.                                                          *)
SenderTake ==
    /\ senderPc = "idle" /\ wPc["sender"] = "idle" /\ senderQ # <<>>
    /\ hand' = <<Head(senderQ)>> /\ senderQ' = Tail(senderQ)
    /\ senderPc' = "taken"
    /\ UNCHANGED <<env, produced, ram, netQ, nvs, writers, replay, card,
                   delivered, lost, raced>>

(* OTA exclusive: back to the front of the queue, or to NVS.                *)
SenderDefer ==
    /\ senderPc = "taken" /\ ota
    /\ IF Len(senderQ) < SenderMax
       THEN senderQ' = hand \o senderQ /\ UNCHANGED <<writers, lost, raced>>
       ELSE QueueFailedPost("sender", hand[1].id) /\ UNCHANGED senderQ
    /\ hand' = <<>> /\ senderPc' = "idle"
    /\ UNCHANGED <<env, produced, ram, netQ, nvs, replay, card, delivered>>

(* tryPushStatusToServer gives up without a trace when WiFi is down.        *)
SenderOffline ==
    /\ senderPc = "taken" /\ ~ota /\ ~online
    /\ lost' = lost \cup {hand[1].id}
    /\ hand' = <<>> /\ senderPc' = "idle"
    /\ UNCHANGED <<env, produced, queues, nvs, writers, replay, card,
                   delivered, raced>>

(* Mutant: the SD file is removed whatever became of the request.           *)
SenderFailsMarking(taken) ==
    /\ senderPc = "taken" /\ ~ota
    /\ QueueFailedPost("sender", hand[1].id)
    /\ delivered' = IF taken THEN delivered \cup {hand[1].id} ELSE delivered
    /\ sd' = [sd EXCEPT ![hand[1].sd] = None]
    /\ hand' = <<>> /\ senderPc' = "idle"
    /\ UNCHANGED <<env, produced, queues, nvs, replay, nextSeq, meta, torn,
                   logged>>

(* postRaw: the request fails, and the server may have taken it all the     *)
(* same (a lost answer): keep it in NVS.                                    *)
SenderFails(taken) ==
    /\ senderPc = "taken" /\ ~ota
    /\ QueueFailedPost("sender", hand[1].id)
    /\ delivered' = IF taken THEN delivered \cup {hand[1].id} ELSE delivered
    /\ hand' = <<>> /\ senderPc' = "idle"
    /\ UNCHANGED <<env, produced, queues, nvs, replay, card>>

SenderSucceeds ==
    /\ senderPc = "taken" /\ ~ota /\ online
    /\ delivered' = delivered \cup {hand[1].id}
    /\ senderPc' = "sent"
    /\ UNCHANGED <<env, produced, queues, hand, nvs, writers, replay, card,
                   lost, raced>>

(* markSent: the SD file goes only now.                                     *)
SenderMark ==
    /\ senderPc = "sent"
    /\ sd' = IF hand[1].sd = None THEN sd ELSE [sd EXCEPT ![hand[1].sd] = None]
    /\ hand' = <<>> /\ senderPc' = "idle"
    /\ UNCHANGED <<env, produced, queues, nvs, writers, replay, delivered, lost, raced, nextSeq, meta, torn, logged>>

-------------------------------------------------------------------------------
(* processQueuedPosts, run by autoTask every five minutes.                  *)

ReplayStart ==
    /\ rPc = "idle" /\ online /\ ~ota /\ count > 0
    /\ rPc' = "scan" /\ rIdx' = 0 /\ rCount' = count /\ rDone' = 0
    /\ raced' = (raced \/ Busy)
    /\ UNCHANGED <<env, produced, queues, sender, nvs, writers, rItem, card,
                   delivered, lost>>

ScanOver == rIdx >= rCount \/ rIdx >= NvsMax

(* Read the next entry and start its HTTP request; skip an empty one.       *)
ReplayRead ==
    /\ rPc = "scan" /\ ~ScanOver
    /\ IF key[rIdx] = None
       THEN rIdx' = rIdx + 1 /\ UNCHANGED <<rPc, rItem>>
       ELSE rItem' = key[rIdx] /\ rPc' = "post" /\ UNCHANGED rIdx
    /\ UNCHANGED <<env, produced, queues, sender, nvs, writers, rCount,
                   rDone, card, delivered, lost, raced>>

ReplaySucceeds ==
    /\ rPc = "post" /\ online
    /\ delivered' = delivered \cup {rItem}
    /\ rPc' = "remove"
    /\ UNCHANGED <<env, produced, queues, sender, nvs, writers, rIdx, rCount,
                   rDone, rItem, card, lost, raced>>

ReplayRemove ==
    /\ rPc = "remove"
    /\ key' = [key EXCEPT ![rIdx] = None]
    /\ rDone' = rDone + 1 /\ rIdx' = rIdx + 1
    /\ rItem' = None /\ rPc' = "scan"
    /\ UNCHANGED <<env, produced, queues, sender, count, writers, rCount,
                   card, delivered, lost, raced>>

(* The first failure ends the pass.                                         *)
ReplayFails(taken) ==
    /\ rPc = "post"
    /\ delivered' = IF taken THEN delivered \cup {rItem} ELSE delivered
    /\ rItem' = None /\ rPc' = "compact"
    /\ UNCHANGED <<env, produced, queues, sender, nvs, writers, rIdx, rCount,
                   rDone, card, lost, raced>>

(* After the pass the remaining entries below the count read at the start   *)
(* move down to the first keys.                                             *)
Kept == {k \in Keys : k < rCount /\ key[k] # None}
Rank(k) == Cardinality({j \in Kept : j < k})
NotCompacted == key   \* mutant: the remaining entries stay where they are
Compacted == [d \in Keys |->
    IF \E k \in Kept : Rank(k) = d THEN key[CHOOSE k \in Kept : Rank(k) = d]
    ELSE IF d \in Kept THEN None ELSE key[d]]

ReplayCompact ==
    /\ rPc = "compact" \/ (rPc = "scan" /\ ScanOver)
    /\ LET left == IF rCount > rDone THEN rCount - rDone ELSE 0 IN
       IF rDone > 0 /\ left > 0
       THEN key' = Compacted /\ rCount' = Cardinality(Kept)
       ELSE rCount' = left /\ UNCHANGED key
    /\ rPc' = "save"
    /\ UNCHANGED <<env, produced, queues, sender, count, writers, rIdx,
                   rDone, rItem, card, delivered, lost, raced>>

ReplaySave ==
    /\ rPc = "save"
    /\ count' = rCount
    /\ rPc' = "idle" /\ rIdx' = 0 /\ rCount' = 0 /\ rDone' = 0
    /\ UNCHANGED <<env, produced, queues, sender, key, writers, rItem, card,
                   delivered, lost, raced>>

-------------------------------------------------------------------------------
(* The world: WiFi, OTA, and a reset that keeps only NVS and the SD card.   *)

LinkToggle == online' = ~online /\ UNCHANGED <<ota, resets>>
OtaToggle == ota' = ~ota /\ UNCHANGED <<online, resets>>

Ids(q) == {q[n].id : n \in 1 .. Len(q)}
Volatile == {ram[n] : n \in 1 .. Len(ram)} \cup Ids(netQ) \cup Ids(senderQ)
            \cup Ids(hand) \cup ({wItem[w] : w \in Writers} \ {None})
Counted == {key[k] : k \in {j \in Keys : j < count}} \ {None}

(* loadMeta reads 0 from an empty file as 1.  saveMeta truncates the file   *)
(* before it writes it, and a reset may fall between.                       *)
Reset(m) ==
    /\ resets < MaxResets
    /\ resets' = resets + 1 /\ ota' = FALSE
    /\ ram' = <<>> /\ netQ' = <<>> /\ senderQ' = <<>>
    /\ hand' = <<>> /\ senderPc' = "idle"
    /\ wPc' = [w \in Writers |-> "idle"]
    /\ wItem' = [w \in Writers |-> None]
    /\ wCount' = [w \in Writers |-> 0]
    /\ rPc' = "idle" /\ rIdx' = 0 /\ rCount' = 0 /\ rDone' = 0 /\ rItem' = None
    /\ meta' = m /\ nextSeq' = IF m = 0 THEN 1 ELSE m
    /\ torn' = (torn \/ m # meta)
    /\ lost' = lost \cup Volatile
    /\ UNCHANGED <<online, produced, nvs, sd, logged, delivered, raced>>

Environment ==
    /\ LinkToggle \/ OtaToggle
    /\ UNCHANGED <<produced, queues, sender, nvs, writers, replay, card,
                   delivered, lost, raced>>

AutoTask ==
        \/ UpdateReplay \/ (\E n \in Seqs : SdReplay(n))
        \/ ReplayStart \/ ReplayRead \/ ReplaySucceeds \/ ReplayRemove
        \/ (\E taken \in BOOLEAN : ReplayFails(taken)) \/ ReplayCompact \/ ReplaySave
Net == NetDispatch \/ NetDrain \/ WriteEntry("net") \/ SaveCount("net")
Sender == \/ SenderTake \/ SenderDefer \/ SenderOffline
          \/ (\E taken \in BOOLEAN : SenderFails(taken))
          \/ SenderSucceeds \/ SenderMark
          \/ WriteEntry("sender") \/ SaveCount("sender")

Next == \/ \E stored \in {FALSE, BoardS3} : SendFullUpdate(stored)
        \/ AutoTask \/ Net \/ Sender \/ Environment
        \/ \E m \in {meta, 0} : Reset(m)

Spec == Init /\ [][Next]_vars

(* Every task runs; a server that is reached again and again answers well   *)
(* in the end, and SdLogger walks the whole directory.                      *)
FairSpec == /\ Spec
            /\ WF_vars(Net) /\ WF_vars(SenderTake \/ SenderDefer \/ SenderOffline)
            /\ WF_vars(SenderMark \/ WriteEntry("sender") \/ SaveCount("sender"))
            /\ SF_vars(SenderSucceeds)
            /\ WF_vars(ReplayRead \/ ReplayRemove \/ ReplayCompact
                       \/ (\E taken \in BOOLEAN : ReplayFails(taken)) \/ ReplaySave)
            /\ \A n \in Seqs : SF_vars(SdReplay(n))

-------------------------------------------------------------------------------
(* A measurement logged on the SD card is never lost before the server has  *)
(* it: its file stays until an HTTP success of that very measurement,       *)
(* through resets, OTAs, full queues and overlapping NVS operations, as     *)
(* long as no reset falls into saveMeta.                                    *)
Filed == {sd[n] : n \in Seqs} \ {None}
SdKeepsUndelivered == ~torn => logged \subseteq delivered \cup Filed

(* Without two overlapping operations on the NVS queue, a measurement only  *)
(* disappears undelivered where a stage drops it by design: it is queued,   *)
(* in the hands of a task, or stored under a counted key.                   *)
NothingVanishes ==
    ~raced => 1 .. produced \subseteq
        delivered \cup lost \cup Volatile \cup Counted

(* Every measurement logged on the card reaches the server in the end if    *)
(* the network and the OTA leave the device in peace.                       *)
SdDelivers ==
    <>[](online /\ ~ota) =>
        \A i \in Posts : (i \in logged) ~> (i \in delivered \/ torn)

===============================================================================
