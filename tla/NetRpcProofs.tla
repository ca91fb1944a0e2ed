----------------------------- MODULE NetRpcProofs -----------------------------
(***************************************************************************)
(* Proofs about NetRpc for every pool size, every set of tasks and every   *)
(* bound on the number of requests.                                        *)
(***************************************************************************)
EXTENDS NetRpc, TLAPS

(* Control facts: only RpcTask ever waits for an answer, a task holds a     *)
(* slot exactly while it is not idle, netTask exactly while it is working.  *)
ControlInv ==
    /\ \A t \in Tasks : pc[t] \in {"wait", "late"} => t = RpcTask
    /\ \A t \in Tasks : job[t].type = "Fetch" => t = RpcTask
    /\ \A t \in Tasks : pc[t] = "alloc" => job[t].type # "None"
    /\ \A t \in Tasks : pc[t] # "idle" => outcome[t] = "none"
    /\ netPc \in {"loop", "drain"} <=> netSlot = NoSlot
    /\ \A s \in Slots : req[s].type = "Fetch" => req[s].requester = RpcTask
    /\ \A s \in Slots : req[s].type # "Fetch" => req[s].requester = NoTask

(* Who still answers for a used slot, by what its record says.              *)
Allocated(s) == \E t \in Tasks : pc[t] = "alloc" /\ slot[t] = s
BeingFreed(s) == netSlot = s /\ netPc \in {"free", "drainFree"}
Unanswered(s) == netSlot = s /\ netPc \in {"work", "reply"}

Held(s) ==
    /\ req[s].type = "None" => Allocated(s)
    /\ req[s].type \in {"Post", "Ota"} => s \in Queued \/ BeingFreed(s)
    /\ req[s].type = "Fetch" /\ ~req[s].cancelled =>
         /\ pc[RpcTask] = "wait" /\ slot[RpcTask] = s
         /\ s \in Queued \/ notif[RpcTask] \/ BeingFreed(s) \/ Unanswered(s)
    /\ req[s].type = "Fetch" /\ req[s].cancelled =>
         \/ s \in Queued \/ netSlot = s
         \/ slot[RpcTask] = s /\ notif[RpcTask]

HolderInv == \A s \in Slots : used[s] => Held(s)

LeakInv == TypeOK /\ ControlInv /\ HolderInv

(* What makes an answer fresh: a success flag in the slot RpcTask waits on  *)
(* was written after it submitted.                                          *)
FreshInv ==
    /\ FreshSuccess
    /\ pc[RpcTask] \in {"wait", "late"} /\ req[slot[RpcTask]].success => fresh

FullInv == LeakInv /\ FreshInv

(* The dedicated slots of the pool are slots.                               *)
LEMMA SlotFacts ==
    /\ Shared \cup {FetchSlot} \subseteq Slots
    /\ \A cat \in Categories : Shared \cup {PostSlot(cat)} \subseteq Slots
    /\ (0 .. FetchSlot) \cup {OtaSlot} \subseteq Slots
    /\ NoSlot \notin Slots
BY PoolAssumption DEF Shared, FetchSlot, OtaSlot, Slots, NoSlot, Categories,
   PostSlot

(* The state and every step of the layer are well-typed.                    *)
LEMMA InitType == Init => TypeOK
<1> SUFFICES ASSUME Init PROVE TypeOK
  OBVIOUS
<1>1. Blank \in Requests /\ req \in [Slots -> Requests]
  BY DEF Init, Blank, Requests, Types
<1>2. nextId \in 1 .. MaxRequests + 1
  BY BoundAssumption DEF Init
<1>3. job \in [Tasks -> [type : Types, id : Ids \cup {0}]]
  BY DEF Init, Types
<1>4. /\ used \in [Slots -> BOOLEAN] /\ notif \in [Tasks -> BOOLEAN]
      /\ otaExclusive \in BOOLEAN /\ fresh \in BOOLEAN /\ disturbed \in BOOLEAN
  BY DEF Init
<1>5. /\ netQueue \in Seq(Slots)
      /\ handed \in [Ids -> 0 .. 2]
      /\ accepted \subseteq Ids \cup {0} /\ drained \subseteq Ids \cup {0}
  BY DEF Init
<1>6. /\ pc \in [Tasks -> {"idle", "alloc", "wait", "late"}]
      /\ slot \in [Tasks -> Slots \cup {NoSlot}]
      /\ \A t \in Tasks : pc[t] = "idle" <=> slot[t] = NoSlot
      /\ outcome \in [Tasks -> {"none", "success", "failure", "abandoned"}]
  BY DEF Init
<1>7. /\ netPc \in {"loop", "work", "reply", "replied", "free", "drain",
                    "drainFree"}
      /\ netSlot \in Slots \cup {NoSlot} /\ netId \in Ids \cup {0}
  BY DEF Init
<1> QED BY <1>1, <1>2, <1>3, <1>4, <1>5, <1>6, <1>7 DEF TypeOK

(* What netTask takes out of the queue is a slot.                           *)
LEMMA PopType == ASSUME TypeOK, netQueue # <<>>
                 PROVE  Head(netQueue) \in Slots /\ Tail(netQueue) \in Seq(Slots)
BY DEF TypeOK

(* Writing one flag of one request keeps the pool well-typed.              *)
LEMMA FlagType ==
    ASSUME NEW f \in [Slots -> Requests], NEW s, NEW b \in BOOLEAN
    PROVE  /\ [f EXCEPT ![s].cancelled = b] \in [Slots -> Requests]
           /\ [f EXCEPT ![s].success = b] \in [Slots -> Requests]
<1>1. \A r \in Requests : /\ [r EXCEPT !.cancelled = b] \in Requests
                         /\ [r EXCEPT !.success = b] \in Requests
  BY DEF Requests
<1> QED BY <1>1

(* Every step of the layer is well-typed.                                   *)
THEOREM TypeStep == TypeOK /\ [Next]_vars => TypeOK'
<1> SUFFICES ASSUME TypeOK, [Next]_vars PROVE TypeOK'
  OBVIOUS
<1> USE TaskAssumption, BoundAssumption
<1>alloc. ASSUME NEW t \in Tasks, NEW type \in Types, NEW d, NEW o,
                 o \cup {d} \subseteq Slots, TryAlloc(t, type, d, o)
          PROVE  TypeOK'
  <2> PICK s \in o \cup {d} : /\ used' = [used EXCEPT ![s] = TRUE]
                            /\ req' = [req EXCEPT ![s] = Blank]
                            /\ slot' = [slot EXCEPT ![t] = s]
    BY <1>alloc DEF TryAlloc
  <2>1. Blank \in Requests
    BY DEF Blank, Requests, Types
  <2>2. /\ nextId' \in 1 .. MaxRequests + 1
        /\ job' \in [Tasks -> [type : Types, id : Ids \cup {0}]]
    BY <1>alloc DEF TryAlloc, TypeOK, Ids
  <2>3. /\ used' \in [Slots -> BOOLEAN]
        /\ req' \in [Slots -> Requests]
        /\ slot' \in [Tasks -> Slots \cup {NoSlot}]
        /\ \A u \in Tasks : pc'[u] = "idle" <=> slot'[u] = NoSlot
    BY <1>alloc, <2>1, SlotFacts DEF TryAlloc, TypeOK
  <2> QED BY <1>alloc, <2>2, <2>3 DEF TryAlloc, TypeOK, net
<1>1. CASE AllocFetch
  BY <1>1, <1>alloc, SlotFacts DEF AllocFetch, Types
<1>2. ASSUME NEW t \in Tasks, NEW cat \in Categories, AllocPost(t, cat)
      PROVE  TypeOK'
  BY <1>2, <1>alloc, SlotFacts DEF AllocPost, Types
<1>3. ASSUME NEW t \in Tasks, AllocOta(t) PROVE TypeOK'
  BY <1>3, <1>alloc, SlotFacts DEF AllocOta, Types
<1>4. ASSUME NEW t \in Tasks, CallerStep(t) PROVE TypeOK'
  <2>1. Filled(t, NoTask) \in Requests /\ Filled(t, t) \in Requests
    BY DEF Filled, Requests, TypeOK
  <2> DEFINE S == Slots \cup {NoSlot}
  <2>free. /\ [used EXCEPT ![slot[t]] = FALSE] \in [Slots -> BOOLEAN]
           /\ [notif EXCEPT ![t] = FALSE] \in [Tasks -> BOOLEAN]
    BY DEF TypeOK
  <2>append. pc[t] = "alloc" => Append(netQueue, slot[t]) \in Seq(Slots)
    BY DEF TypeOK
  <2>release. ASSUME NEW r \in {"none", "success", "failure", "abandoned"},
                     Release(t, r)
              PROVE  /\ pc' \in [Tasks -> {"idle", "alloc", "wait", "late"}]
                     /\ slot' \in [Tasks -> S]
                     /\ \A u \in Tasks : pc'[u] = "idle" <=> slot'[u] = NoSlot
                     /\ job' \in [Tasks -> [type : Types, id : Ids \cup {0}]]
                     /\ outcome' \in [Tasks -> {"none", "success", "failure",
                                               "abandoned"}]
    BY <2>release DEF Release, TypeOK
  <2>2. CASE SubmitOneWay(t)
    <3>1. req' \in [Slots -> Requests]
      BY <2>1, <2>2 DEF SubmitOneWay, TypeOK
    <3>2. netQueue' \in Seq(Slots) /\ used' \in [Slots -> BOOLEAN]
      BY <2>free, <2>append, <2>2 DEF SubmitOneWay, TypeOK
    <3>3. accepted' \subseteq Ids \cup {0}
      BY <2>2 DEF SubmitOneWay, TypeOK
    <3> QED BY <2>2, <2>release, <3>1, <3>2, <3>3 DEF SubmitOneWay, TypeOK, net
  <2>3. CASE SubmitRpc(t)
    <3>1. req' \in [Slots -> Requests] /\ notif' \in [Tasks -> BOOLEAN]
      BY <2>1, <2>3, <2>free DEF SubmitRpc, TypeOK
    <3>2. netQueue' \in Seq(Slots) /\ used' \in [Slots -> BOOLEAN]
      BY <2>free, <2>append, <2>3 DEF SubmitRpc, TypeOK
    <3>3. /\ pc' \in [Tasks -> {"idle", "alloc", "wait", "late"}]
          /\ slot' \in [Tasks -> S]
          /\ \A u \in Tasks : pc'[u] = "idle" <=> slot'[u] = NoSlot
          /\ job' \in [Tasks -> [type : Types, id : Ids \cup {0}]]
          /\ outcome' \in [Tasks -> {"none", "success", "failure", "abandoned"}]
      <4>1. CASE Len(netQueue) < PoolSize
        BY <2>3, <4>1 DEF SubmitRpc, TypeOK
      <4>2. CASE ~(Len(netQueue) < PoolSize)
        BY <2>3, <4>2, <2>release DEF SubmitRpc
      <4> QED BY <4>1, <4>2
    <3> QED BY <2>3, <3>1, <3>2, <3>3 DEF SubmitRpc, TypeOK, net
  <2>4. CASE RpcDone(t)
    BY <2>4, <2>free, <2>release DEF RpcDone, TypeOK, net, history
  <2>5. CASE RpcTimeout(t)
    <3>1. req' \in [Slots -> Requests]
      BY <2>5, FlagType DEF RpcTimeout, TypeOK
    <3> QED BY <2>5, <3>1 DEF RpcTimeout, TypeOK, net
  <2>6. CASE RpcLateNotified(t)
    BY <2>6, <2>free, <2>release DEF RpcLateNotified, TypeOK, net, history
  <2>7. CASE RpcGiveUp(t)
    BY <2>7, <2>release DEF RpcGiveUp, TypeOK, net, history
  <2> QED BY <1>4, <2>2, <2>3, <2>4, <2>5, <2>6, <2>7 DEF CallerStep
<1>5. CASE NetStep
  <2>1. CASE NetDropCancelled
    BY <2>1, PopType
       DEF NetDropCancelled, Pop, TypeOK, pool, callers, history, Notified,
           Requests
  <2>2. CASE NetPost
    <3>1. handed' \in [Ids -> 0 .. 2]
      <4>1. (IF handed[netId'] = 0 THEN 1 ELSE 2) \in 0 .. 2
        OBVIOUS
      <4> QED BY <2>2, <4>1 DEF NetPost, TypeOK
    <3> QED BY <2>2, <3>1, PopType
            DEF NetPost, Pop, TypeOK, pool, callers, Requests
  <2>3. CASE NetOtaCheck
    BY <2>3, PopType
       DEF NetOtaCheck, Pop, TypeOK, pool, callers, history, Requests
  <2>4. CASE NetStart
    BY <2>4, PopType
       DEF NetStart, Pop, TypeOK, pool, callers, history, Requests
  <2>5. ASSUME NEW ok \in BOOLEAN, NetResult(ok) PROVE TypeOK'
    <3>1. req' \in [Slots -> Requests]
      BY <2>5, FlagType DEF NetResult, TypeOK
    <3> QED BY <2>5, <3>1 DEF NetResult, TypeOK, callers
  <2>6. CASE NetReply
    BY <2>6 DEF NetReply, TypeOK, pool, callers, history, Notified, Requests
  <2>7. CASE NetFinish
    BY <2>7, PoolAssumption
       DEF NetFinish, NetIdle, TypeOK, callers, history, Requests
  <2>8. CASE NetFree
    BY <2>8 DEF NetFree, NetIdle, TypeOK, callers, history
  <2>9. CASE NetDrain
    <3>1. netQueue # <<>> /\ Head(netQueue) \in Slots
      BY <2>9, PopType DEF NetDrain
    <3>2. req' \in [Slots -> Requests] /\ notif' \in [Tasks -> BOOLEAN]
      BY <2>9, FlagType DEF NetDrain, Notified, TypeOK
    <3>3. drained' \subseteq Ids \cup {0} /\ disturbed' \in BOOLEAN
      BY <2>9, <3>1 DEF NetDrain, TypeOK, Requests
    <3>4. netSlot' \in Slots /\ netId' \in Ids \cup {0} /\ netQueue' \in Seq(Slots)
      BY <2>9, <3>1, PopType DEF NetDrain, TypeOK, Requests
    <3> QED BY <2>9, <3>2, <3>3, <3>4 DEF NetDrain, TypeOK, callers
  <2>10. CASE NetDrainEnd
    BY <2>10 DEF NetDrainEnd, NetIdle, TypeOK, pool, callers, history
  <2> QED BY <1>5, <2>1, <2>2, <2>3, <2>4, <2>5, <2>6, <2>7, <2>8, <2>9, <2>10
          DEF NetStep
<1>6. CASE OtaToggle
  BY <1>6 DEF OtaToggle, TypeOK, pool, callers, net, history
<1>7. CASE UNCHANGED vars
  BY <1>7 DEF vars, TypeOK
<1> QED BY <1>1, <1>2, <1>3, <1>4, <1>5, <1>6, <1>7 DEF Next

(* The RPC layer is well-typed in every reachable state.                    *)
THEOREM TypeCorrect == Spec => []TypeOK
<1>1. TypeOK /\ [Next]_vars => TypeOK'
  BY TypeStep
<1> QED BY InitType, <1>1, PTL DEF Spec

(***************************************************************************)
(* No slot is leaked, and no old answer is passed off as new.              *)
(***************************************************************************)

(* Nothing is held and nothing leaks at the start.                          *)
LEMMA InitInv == Init => FullInv
<1> SUFFICES ASSUME Init PROVE FullInv
  OBVIOUS
<1>1. TypeOK
  BY InitType
<1>2. ControlInv
  BY TaskAssumption DEF Init, ControlInv, Blank
<1>3. HolderInv
  BY DEF Init, HolderInv
<1>4. FreshInv
  BY TaskAssumption DEF Init, FreshInv, FreshSuccess
<1> QED BY <1>1, <1>2, <1>3, <1>4 DEF FullInv, LeakInv

(* Every step keeps the control state of callers and netTask consistent with *)
(* the slots they hold.                                                     *)
THEOREM ControlStep == LeakInv /\ [Next]_vars => ControlInv'
<1> SUFFICES ASSUME LeakInv, [Next]_vars PROVE ControlInv'
  OBVIOUS
<1> USE TaskAssumption DEF LeakInv
<1>alloc. ASSUME NEW t \in Tasks, NEW type \in Types \ {"None"},
                 type = "Fetch" => t = RpcTask,
                 NEW d, NEW o, TryAlloc(t, type, d, o)
          PROVE  ControlInv'
  <2>1. Blank.type = "None" /\ Blank.requester = NoTask
    BY DEF Blank
  <2> QED BY <1>alloc, <2>1 DEF TryAlloc, TypeOK, ControlInv, net
<1>1. CASE AllocFetch
  BY <1>1, <1>alloc DEF AllocFetch, Types
<1>2. ASSUME NEW t \in Tasks, NEW cat \in Categories, AllocPost(t, cat)
      PROVE  ControlInv'
  BY <1>2, <1>alloc DEF AllocPost, Types
<1>3. ASSUME NEW t \in Tasks, AllocOta(t) PROVE ControlInv'
  BY <1>3, <1>alloc DEF AllocOta, Types
<1>4. ASSUME NEW t \in Tasks, CallerStep(t) PROVE ControlInv'
  <2>1. CASE SubmitOneWay(t)
    BY <2>1 DEF SubmitOneWay, Release, Filled, TypeOK, ControlInv, net
  <2>2. CASE SubmitRpc(t)
    <3>1. Filled(t, t).type = "Fetch" /\ Filled(t, t).requester = t /\ t = RpcTask
      BY <2>2 DEF SubmitRpc, Filled, ControlInv
    <3>2. CASE Len(netQueue) < PoolSize
      BY <2>2, <3>1, <3>2 DEF SubmitRpc, TypeOK, ControlInv, net
    <3>3. CASE ~(Len(netQueue) < PoolSize)
      BY <2>2, <3>1, <3>3 DEF SubmitRpc, Release, TypeOK, ControlInv, net
    <3> QED BY <3>2, <3>3
  <2>3. CASE RpcDone(t)
    BY <2>3 DEF RpcDone, Release, TypeOK, ControlInv, net
  <2>4. CASE RpcTimeout(t)
    BY <2>4 DEF RpcTimeout, TypeOK, ControlInv, net, Requests
  <2>5. CASE RpcLateNotified(t)
    BY <2>5 DEF RpcLateNotified, Release, TypeOK, ControlInv, net
  <2>6. CASE RpcGiveUp(t)
    BY <2>6 DEF RpcGiveUp, Release, TypeOK, ControlInv, net
  <2> QED BY <1>4, <2>1, <2>2, <2>3, <2>4, <2>5, <2>6 DEF CallerStep
<1>5. CASE NetStep
  <2>1. ASSUME NEW n \in {"work", "free"}, Pop(n),
               UNCHANGED <<pool, callers>>
        PROVE  ControlInv'
    BY <2>1, PopType, SlotFacts DEF Pop, pool, callers, TypeOK, ControlInv
  <2>2. CASE NetDropCancelled
    BY <2>1, <2>2 DEF NetDropCancelled
  <2>3. CASE NetPost
    BY <2>1, <2>3 DEF NetPost
  <2>4. CASE NetOtaCheck
    BY <2>1, <2>4 DEF NetOtaCheck
  <2>5. CASE NetStart
    BY <2>1, <2>5 DEF NetStart
  <2>6. ASSUME NEW ok \in BOOLEAN, NetResult(ok) PROVE ControlInv'
    BY <2>6 DEF NetResult, callers, TypeOK, ControlInv, Requests
  <2>7. CASE NetReply
    BY <2>7 DEF NetReply, pool, callers, TypeOK, ControlInv
  <2>8. CASE NetFinish
    BY <2>8 DEF NetFinish, NetIdle, callers, TypeOK, ControlInv
  <2>9. CASE NetFree
    BY <2>9 DEF NetFree, NetIdle, callers, TypeOK, ControlInv
  <2>10. CASE NetDrain
    <3>1. netQueue # <<>>
      BY <2>10 DEF NetDrain
    <3> QED BY <2>10, <3>1, PopType, SlotFacts
            DEF NetDrain, callers, TypeOK, ControlInv, Requests
  <2>11. CASE NetDrainEnd
    BY <2>11 DEF NetDrainEnd, NetIdle, pool, callers, TypeOK, ControlInv
  <2> QED BY <1>5, <2>2, <2>3, <2>4, <2>5, <2>6, <2>7, <2>8, <2>9, <2>10, <2>11
          DEF NetStep
<1>6. CASE OtaToggle
  BY <1>6 DEF OtaToggle, pool, callers, net, ControlInv
<1>7. CASE UNCHANGED vars
  BY <1>7 DEF vars, ControlInv
<1> QED BY <1>1, <1>2, <1>3, <1>4, <1>5, <1>6, <1>7 DEF Next

(* A slot sent to g_netQueue is among the queued ones.                      *)
LEMMA AppendQueued ==
    ASSUME TypeOK, NEW x \in Slots, netQueue' = Append(netQueue, x)
    PROVE  Queued' = Queued \cup {x}
<1>1. netQueue \in Seq(Slots)
  BY DEF TypeOK
<1>2. /\ Len(netQueue') = Len(netQueue) + 1
      /\ \A i \in 1 .. Len(netQueue) : netQueue'[i] = netQueue[i]
      /\ netQueue'[Len(netQueue) + 1] = x
  BY <1>1
<1>3. Len(netQueue) \in Nat
  BY <1>1
<1> QED BY <1>2, <1>3 DEF Queued

(* Receiving from g_netQueue removes at most the received slot.             *)
LEMMA TailQueued ==
    ASSUME TypeOK, netQueue # <<>>, netQueue' = Tail(netQueue)
    PROVE  Queued \subseteq Queued' \cup {Head(netQueue)}
<1>1. netQueue \in Seq(Slots) /\ Len(netQueue) \in Nat \ {0}
  BY DEF TypeOK
<1>2. /\ Len(netQueue') = Len(netQueue) - 1
      /\ \A i \in 1 .. Len(netQueue) - 1 : netQueue'[i] = netQueue[i + 1]
      /\ Head(netQueue) = netQueue[1]
  BY <1>1
<1> SUFFICES ASSUME NEW i \in 1 .. Len(netQueue), i # 1
             PROVE  netQueue[i] \in Queued'
  BY <1>2 DEF Queued
<1>3. i - 1 \in 1 .. Len(netQueue') /\ netQueue'[i - 1] = netQueue[i]
  BY <1>1, <1>2
<1> QED BY <1>3 DEF Queued

(* No step leaves a used slot without a holder.                             *)
THEOREM HolderStep == LeakInv /\ [Next]_vars => HolderInv'
<1> SUFFICES ASSUME LeakInv, [Next]_vars PROVE HolderInv'
  OBVIOUS
<1> USE TaskAssumption DEF LeakInv, Allocated, BeingFreed, Unanswered
<1>idle. ASSUME NEW t \in Tasks, pc[t] # "idle" PROVE slot[t] \in Slots
  BY <1>idle DEF TypeOK
<1>alloc. ASSUME NEW t \in Tasks, NEW type, NEW d, NEW o,
                 o \cup {d} \subseteq Slots, TryAlloc(t, type, d, o)
          PROVE  HolderInv'
  <2> PICK x \in o \cup {d} : /\ used' = [used EXCEPT ![x] = TRUE]
                            /\ req' = [req EXCEPT ![x] = Blank]
                            /\ slot' = [slot EXCEPT ![t] = x]
                            /\ ~used[x]
    BY <1>alloc DEF TryAlloc, FirstFree
  <2> SUFFICES ASSUME NEW s \in Slots, used'[s] PROVE Held(s)'
    BY DEF HolderInv
  <2>1. pc'[t] = "alloc" /\ slot'[t] = x
    BY <1>alloc DEF TryAlloc, TypeOK
  <2>2. CASE s = x
    BY <2>1, <2>2 DEF TypeOK, Held, Blank
  <2>3. CASE s # x
    <3>1. used[s] /\ req'[s] = req[s] /\ Queued' = Queued
      BY <1>alloc, <2>3 DEF TryAlloc, TypeOK, Queued
    <3>2. Held(s)
      BY <3>1 DEF HolderInv
    <3>3. \A u \in Tasks : pc[u] # "idle" => pc'[u] = pc[u] /\ slot'[u] = slot[u]
      BY <1>alloc DEF TryAlloc, TypeOK
    <3>4. UNCHANGED <<netSlot, netPc, notif>>
      BY <1>alloc DEF TryAlloc, net
    <3>5. slot[RpcTask] = s => pc[RpcTask] # "idle"
      BY SlotFacts DEF TypeOK
    <3> QED BY <3>1, <3>2, <3>3, <3>4, <3>5 DEF Held
  <2> QED BY <2>2, <2>3
<1>1. CASE AllocFetch
  BY <1>1, <1>alloc, SlotFacts DEF AllocFetch
<1>2. ASSUME NEW t \in Tasks, NEW cat \in Categories, AllocPost(t, cat)
      PROVE  HolderInv'
  BY <1>2, <1>alloc, SlotFacts DEF AllocPost
<1>3. ASSUME NEW t \in Tasks, AllocOta(t) PROVE HolderInv'
  BY <1>3, <1>alloc, SlotFacts DEF AllocOta
<1>4. ASSUME NEW t \in Tasks, CallerStep(t) PROVE HolderInv'
  <2> SUFFICES ASSUME NEW s \in Slots, used'[s] PROVE Held(s)'
    BY DEF HolderInv
  <2>held. used[s] => Held(s)
    BY DEF HolderInv
  <2>wait. pc[t] \in {"wait", "late"} => t = RpcTask
    BY DEF ControlInv
  <2>1. CASE SubmitOneWay(t)
    <3>1. slot[t] \in Slots /\ job[t].type \in {"Post", "Ota"}
      BY <2>1, <1>idle DEF SubmitOneWay, TypeOK, ControlInv, Types
    <3>2. CASE s = slot[t]
      <4>1. netQueue' = Append(netQueue, s)
        BY <2>1, <3>2 DEF SubmitOneWay, TypeOK
      <4> QED BY <2>1, <3>1, <3>2, <4>1, AppendQueued
              DEF SubmitOneWay, Filled, TypeOK, Held
    <3>3. CASE s # slot[t]
      <4>1. used[s] /\ req'[s] = req[s]
        BY <2>1, <3>3 DEF SubmitOneWay, TypeOK
      <4>2. Queued \subseteq Queued'
        BY <2>1, <3>1, AppendQueued DEF SubmitOneWay, Queued
      <4> QED BY <2>1, <2>held, <3>3, <4>1, <4>2
              DEF SubmitOneWay, Release, TypeOK, Held, net
    <3> QED BY <3>2, <3>3
  <2>2. CASE SubmitRpc(t)
    <3>1. slot[t] \in Slots /\ t = RpcTask
      BY <2>2, <1>idle DEF SubmitRpc, ControlInv
    <3>2. CASE s = slot[t]
      <4>1. Len(netQueue) < PoolSize /\ netQueue' = Append(netQueue, s)
        BY <2>2, <3>2 DEF SubmitRpc, TypeOK
      <4> QED BY <2>2, <3>1, <3>2, <4>1, AppendQueued
              DEF SubmitRpc, Filled, TypeOK, Held
    <3>3. CASE s # slot[t]
      <4>1. used[s] /\ req'[s] = req[s]
        BY <2>2, <3>3 DEF SubmitRpc, TypeOK
      <4>2. Queued \subseteq Queued'
        BY <2>2, <3>1, AppendQueued DEF SubmitRpc, Queued
      <4>3. \A u \in Tasks : u # t => pc'[u] = pc[u] /\ slot'[u] = slot[u]
        BY <2>2 DEF SubmitRpc, Release, TypeOK
      <4> QED BY <2>2, <2>held, <3>1, <3>3, <4>1, <4>2, <4>3
              DEF SubmitRpc, Held, net
    <3> QED BY <3>2, <3>3
  <2>3. CASE RpcDone(t) \/ RpcLateNotified(t)
    <3>1. s # slot[t] /\ used[s] /\ t = RpcTask
      BY <2>3, <2>wait DEF RpcDone, RpcLateNotified, TypeOK
    <3> QED BY <2>3, <2>held, <3>1
            DEF RpcDone, RpcLateNotified, Release, TypeOK, Held, net, Queued
  <2>4. CASE RpcTimeout(t)
    <3>1. used[s] /\ Queued' = Queued /\ t = RpcTask
      BY <2>4, <2>wait DEF RpcTimeout, Queued
    <3>2. /\ req'[s].type = req[s].type
          /\ s # slot[t] => req'[s].cancelled = req[s].cancelled
          /\ req'[s].cancelled \/ ~req[s].cancelled
      <4>1. /\ s = slot[t] => req'[s] = [req[s] EXCEPT !.cancelled = TRUE]
            /\ s # slot[t] => req'[s] = req[s]
        BY <2>4 DEF RpcTimeout, TypeOK
      <4>2. req[s] \in Requests
        BY DEF TypeOK
      <4> QED BY <4>1, <4>2 DEF Requests
    <3>3. s = slot[t] => req'[s].cancelled
      BY <2>4 DEF RpcTimeout, TypeOK, Requests
    <3>4. \A u \in Tasks : u # t => pc'[u] = pc[u]
      BY <2>4 DEF RpcTimeout, TypeOK
    <3> QED BY <2>4, <2>held, <3>1, <3>2, <3>3, <3>4
            DEF RpcTimeout, Held, net
  <2>5. CASE RpcGiveUp(t)
    <3>1. used[s] /\ t = RpcTask
      BY <2>5, <2>wait DEF RpcGiveUp
    <3> QED BY <2>5, <2>held, <3>1
            DEF RpcGiveUp, Release, TypeOK, Held, net, Queued
  <2> QED BY <1>4, <2>1, <2>2, <2>3, <2>4, <2>5 DEF CallerStep
<1>5. CASE NetStep
  <2> SUFFICES ASSUME NEW s \in Slots, used'[s] PROVE Held(s)'
    BY DEF HolderInv
  <2>held. used[s] => Held(s)
    BY DEF HolderInv
  <2>1. ASSUME NEW n \in {"work", "free"}, Pop(n),
               UNCHANGED <<pool, callers>>,
               notif'[RpcTask] \/ ~notif[RpcTask],
               n = "work" => req[netSlot'].type \in {"Fetch", "None"}
        PROVE  Held(s)'
    <3>1. used[s] /\ req'[s] = req[s] /\ Held(s)
      BY <2>1, <2>held DEF pool
    <3>2. netSlot # s /\ netSlot' = Head(netQueue)
      BY <2>1, SlotFacts DEF Pop, ControlInv
    <3>3. Queued \subseteq Queued' \cup {netSlot'}
      BY <2>1, <3>2, TailQueued DEF Pop
    <3> QED BY <2>1, <3>1, <3>2, <3>3 DEF Pop, Held, callers
  <2>2. CASE NetDropCancelled
    <3>1. notif'[RpcTask] \/ ~notif[RpcTask]
      BY <2>2 DEF NetDropCancelled, Notified, TypeOK
    <3> QED BY <2>1, <2>2, <3>1 DEF NetDropCancelled
  <2>3. CASE NetPost
    BY <2>1, <2>3 DEF NetPost
  <2>4. CASE NetOtaCheck
    BY <2>1, <2>4 DEF NetOtaCheck
  <2>5. CASE NetStart
    BY <2>1, <2>5 DEF NetStart
  <2>6. ASSUME NEW ok \in BOOLEAN, NetResult(ok) PROVE Held(s)'
    <3>1. /\ used[s] /\ Queued' = Queued
          /\ req'[s].type = req[s].type /\ req'[s].cancelled = req[s].cancelled
      BY <2>6 DEF NetResult, TypeOK, Requests, Queued
    <3> QED BY <2>6, <2>held, <3>1 DEF NetResult, Held, callers
  <2>7. CASE NetReply
    <3>1. used[s] /\ req'[s] = req[s] /\ Queued' = Queued
      BY <2>7 DEF NetReply, pool, Queued
    <3>2. notif[RpcTask] => notif'[RpcTask]
      BY <2>7 DEF NetReply, Notified, TypeOK
    <3>3. netSlot = s /\ req[s].type = "Fetch" => notif'[RpcTask]
      BY <2>7 DEF NetReply, Notified, TypeOK, ControlInv
    <3> QED BY <2>7, <2>held, <3>1, <3>2, <3>3 DEF NetReply, Held, callers
  <2>8. CASE NetFinish
    <3>1. /\ used[s] /\ req'[s] = req[s] /\ Queued' = Queued
          /\ s = netSlot => ~req[s].cancelled
      <4>1. s = netSlot => used'[s] = (used[s] /\ ~req[s].cancelled)
        BY <2>8 DEF NetFinish, TypeOK
      <4>2. s # netSlot => used'[s] = used[s]
        BY <2>8 DEF NetFinish, TypeOK
      <4> QED BY <2>8, <4>1, <4>2 DEF NetFinish, Queued
    <3> QED BY <2>8, <2>held, <3>1 DEF NetFinish, NetIdle, Held, callers
  <2>9. CASE NetFree
    <3>1. used[s] /\ s # netSlot /\ req'[s] = req[s] /\ Queued' = Queued
      BY <2>9 DEF NetFree, TypeOK, Queued
    <3> QED BY <2>9, <2>held, <3>1 DEF NetFree, NetIdle, Held, callers
  <2>10. CASE NetDrain
    <3>1. /\ used[s] /\ netSlot # s /\ netSlot' = Head(netQueue)
          /\ netQueue # <<>> /\ netQueue' = Tail(netQueue)
      BY <2>10, SlotFacts DEF NetDrain, ControlInv
    <3>2. /\ req'[s].type = req[s].type
          /\ s # netSlot' => req'[s].cancelled = req[s].cancelled
          /\ s = netSlot' => req'[s].cancelled
      <4>1. /\ s = netSlot' => req'[s] = [req[s] EXCEPT !.cancelled = TRUE]
            /\ s # netSlot' => req'[s] = req[s]
        BY <2>10, <3>1 DEF NetDrain, TypeOK
      <4>2. req[s] \in Requests
        BY DEF TypeOK
      <4> QED BY <4>1, <4>2 DEF Requests
    <3>3. notif[RpcTask] => notif'[RpcTask]
      BY <2>10 DEF NetDrain, Notified, TypeOK
    <3>4. Queued \subseteq Queued' \cup {netSlot'}
      BY <3>1, TailQueued
    <3> QED BY <2>10, <2>held, <3>1, <3>2, <3>3, <3>4 DEF NetDrain, Held, callers
  <2>11. CASE NetDrainEnd
    BY <2>11, <2>held DEF NetDrainEnd, NetIdle, pool, callers, Held, Queued,
       ControlInv
  <2> QED BY <1>5, <2>2, <2>3, <2>4, <2>5, <2>6, <2>7, <2>8, <2>9, <2>10, <2>11
          DEF NetStep
<1>6. CASE OtaToggle
  BY <1>6 DEF OtaToggle, pool, callers, net, HolderInv, Held, Queued
<1>7. CASE UNCHANGED vars
  BY <1>7 DEF vars, HolderInv, Held, Queued
<1> QED BY <1>1, <1>2, <1>3, <1>4, <1>5, <1>6, <1>7 DEF Next

(* A notification or slot left over from an abandoned fetch never makes an  *)
(* old answer pass for a new one.                                           *)
THEOREM FreshStep == LeakInv /\ FreshInv /\ [Next]_vars => FreshInv'
<1> SUFFICES ASSUME LeakInv, FreshInv, [Next]_vars PROVE FreshInv'
  OBVIOUS
<1> USE TaskAssumption DEF LeakInv, FreshInv, FreshSuccess
<1>alloc. ASSUME NEW t \in Tasks, NEW type, NEW d, NEW o,
                 o \cup {d} \subseteq Slots, TryAlloc(t, type, d, o)
          PROVE  FreshInv'
  <2> PICK x \in Slots : /\ req' = [req EXCEPT ![x] = Blank]
                         /\ slot' = [slot EXCEPT ![t] = x]
    BY <1>alloc DEF TryAlloc
  <2>1. pc'[RpcTask] \in {"wait", "late"} => t # RpcTask
    BY <1>alloc DEF TryAlloc, TypeOK
  <2>2. t # RpcTask => /\ pc'[RpcTask] = pc[RpcTask]
                       /\ slot'[RpcTask] = slot[RpcTask]
                       /\ outcome'[RpcTask] = outcome[RpcTask]
    BY <1>alloc DEF TryAlloc, TypeOK
  <2>3. t = RpcTask => outcome'[RpcTask] = "none"
    BY <1>alloc DEF TryAlloc, TypeOK
  <2>4. \A s \in Slots : req'[s].success => req[s].success
    BY DEF Blank, TypeOK
  <2>5. pc[RpcTask] # "idle" => slot[RpcTask] \in Slots
    BY DEF TypeOK
  <2> QED BY <1>alloc, <2>1, <2>2, <2>3, <2>4, <2>5 DEF TryAlloc
<1>1. CASE AllocFetch
  BY <1>1, <1>alloc, SlotFacts DEF AllocFetch
<1>2. ASSUME NEW t \in Tasks, NEW cat \in Categories, AllocPost(t, cat)
      PROVE  FreshInv'
  BY <1>2, <1>alloc, SlotFacts DEF AllocPost
<1>3. ASSUME NEW t \in Tasks, AllocOta(t) PROVE FreshInv'
  BY <1>3, <1>alloc, SlotFacts DEF AllocOta
<1>held. pc[RpcTask] # "idle" => slot[RpcTask] \in Slots
  BY DEF TypeOK
<1>4. ASSUME NEW t \in Tasks, CallerStep(t) PROVE FreshInv'
  <2>wait. pc[t] \in {"wait", "late"} => t = RpcTask
    BY DEF ControlInv
  <2>1. CASE SubmitOneWay(t)
    <3>1. \A s \in Slots : req'[s].success => req[s].success
      BY <2>1 DEF SubmitOneWay, Filled, TypeOK
    <3> QED BY <2>1, <1>held, <3>1 DEF SubmitOneWay, Release, TypeOK
  <2>2. CASE SubmitRpc(t)
    <3>1. t = RpcTask /\ slot[t] \in Slots /\ outcome[t] = "none"
      BY <2>2, <1>held DEF SubmitRpc, ControlInv
    <3>2. ~req'[slot[t]].success
      BY <2>2, <3>1 DEF SubmitRpc, Filled, TypeOK
    <3>3. outcome'[t] # "success" /\ (pc'[t] = "wait" => slot'[t] = slot[t])
      BY <2>2, <3>1 DEF SubmitRpc, Release, TypeOK
    <3>4. pc'[t] \in {"wait", "idle"}
      BY <2>2 DEF SubmitRpc, Release, TypeOK
    <3> QED BY <3>1, <3>2, <3>3, <3>4
  <2>3. CASE RpcDone(t)
    BY <2>3, <2>wait DEF RpcDone, Release, TypeOK, history
  <2>4. CASE RpcTimeout(t)
    <3>1. \A s \in Slots : req'[s].success = req[s].success
      <4> SUFFICES ASSUME NEW s \in Slots PROVE req'[s].success = req[s].success
        OBVIOUS
      <4>1. req[s] \in Requests
        BY DEF TypeOK
      <4>2. req'[s] = req[s] \/ req'[s] = [req[s] EXCEPT !.cancelled = TRUE]
        BY <2>4 DEF RpcTimeout, TypeOK
      <4> QED BY <4>1, <4>2 DEF Requests
    <3> QED BY <2>4, <2>wait, <1>held, <3>1 DEF RpcTimeout, TypeOK
  <2>5. CASE RpcLateNotified(t) \/ RpcGiveUp(t)
    BY <2>5, <2>wait DEF RpcLateNotified, RpcGiveUp, Release, TypeOK, history
  <2> QED BY <1>4, <2>1, <2>2, <2>3, <2>4, <2>5 DEF CallerStep
<1>5. CASE NetStep
  <2>1. ASSUME UNCHANGED <<req, callers, fresh>> PROVE FreshInv'
    BY <2>1 DEF callers
  <2>2. CASE NetDropCancelled \/ NetPost \/ NetOtaCheck \/ NetStart
    BY <2>1, <2>2
       DEF NetDropCancelled, NetPost, NetOtaCheck, NetStart, pool, history
  <2>3. ASSUME NEW ok \in BOOLEAN, NetResult(ok) PROVE FreshInv'
    <3>1. CASE ok
      BY <2>3, <3>1 DEF NetResult
    <3>2. CASE ~ok
      <4>1. \A s \in Slots : req'[s].success => req[s].success
        BY <2>3, <3>2 DEF NetResult, TypeOK, Requests
      <4> QED BY <2>3, <1>held, <4>1 DEF NetResult, callers
    <3> QED BY <3>1, <3>2
  <2>4. CASE NetReply \/ NetFinish \/ NetFree \/ NetDrainEnd
    BY <2>1, <2>4 DEF NetReply, NetFinish, NetFree, NetDrainEnd, pool, history
  <2>5. CASE NetDrain
    <3>1. \A s \in Slots : req'[s].success = req[s].success
      <4> SUFFICES ASSUME NEW s \in Slots PROVE req'[s].success = req[s].success
        OBVIOUS
      <4>1. req[s] \in Requests
        BY DEF TypeOK
      <4>2. req'[s] = req[s] \/ req'[s] = [req[s] EXCEPT !.cancelled = TRUE]
        BY <2>5 DEF NetDrain, TypeOK
      <4> QED BY <4>1, <4>2 DEF Requests
    <3> QED BY <2>5, <1>held, <3>1 DEF NetDrain, callers
  <2> QED BY <1>5, <2>2, <2>3, <2>4, <2>5 DEF NetStep
<1>6. CASE OtaToggle
  BY <1>6 DEF OtaToggle, pool, callers, history
<1>7. CASE UNCHANGED vars
  BY <1>7 DEF vars
<1> QED BY <1>1, <1>2, <1>3, <1>4, <1>5, <1>6, <1>7 DEF Next

(* The inductive invariant holds in every reachable state.                  *)
THEOREM InvCorrect == Spec => []FullInv
<1>1. FullInv /\ [Next]_vars => FullInv'
  BY TypeStep, ControlStep, HolderStep, FreshStep DEF FullInv, LeakInv
<1> QED BY InitInv, <1>1, PTL DEF Spec

(* Whatever the interleaving of timeouts, late answers and OTA drains, a    *)
(* slot of the pool that is marked used is held by somebody who will free   *)
(* it: the pool never shrinks.                                              *)
THEOREM NoLeakCorrect == Spec => []NoSlotLeak
<1>1. FullInv => NoSlotLeak
  <2> SUFFICES ASSUME FullInv, NEW s \in Slots, used[s]
               PROVE  s \in Queued \cup {netSlot} \cup {slot[t] : t \in Tasks}
    BY DEF NoSlotLeak
  <2>1. Held(s) /\ req[s].type \in Types /\ RpcTask \in Tasks
    BY TaskAssumption DEF FullInv, LeakInv, HolderInv, TypeOK, Requests
  <2> QED BY <2>1 DEF Held, Allocated, BeingFreed, Types
<1> QED BY InvCorrect, <1>1, PTL

(* A successful fetch hands over a configuration obtained after the call    *)
(* was submitted.                                                           *)
THEOREM FreshCorrect == Spec => []FreshSuccess
<1>1. FullInv => FreshSuccess
  BY DEF FullInv, FreshInv
<1> QED BY InvCorrect, <1>1, PTL

-----------------------------------------------------------------------------
(* Until a caller gives up, a slot of the pool has one owner and a POST is  *)
(* in one place.                                                            *)

Distinct == \A i, j \in 1 .. Len(netQueue) : netQueue[i] = netQueue[j] => i = j

(* What the queue and netTask hold: a cancelled flag is raised only by a    *)
(* caller that gives up or by the drain on the slot it is about to free.    *)
QueueOwned ==
    /\ Distinct
    /\ \A s \in Queued \cup NetHeld : used[s]
    /\ Queued \cap NetHeld = {}
    /\ \A s \in Queued : ~req[s].cancelled

NetOwned ==
    /\ netPc \in {"work", "reply", "replied"} => ~req[netSlot].cancelled
    /\ netPc \in {"work", "reply"} => req[netSlot].type = "Fetch"
    /\ netPc \in {"free", "drainFree"} => req[netSlot].type # "Fetch"

(* What a task holds: while it fills a slot in, and once it was notified of *)
(* its answer, nobody else holds it.                                        *)
CallerOwned ==
    /\ \A t \in Tasks : pc[t] # "idle" => used[slot[t]]
    /\ \A t, u \in Tasks : slot[t] = slot[u] => t = u \/ slot[t] = NoSlot
    /\ \A t \in Tasks : pc[t] = "alloc" => slot[t] \notin Queued \cup NetHeld
    /\ \A t \in Tasks : pc[t] # "late"
    /\ \A t \in Tasks : pc[t] = "wait" => req[slot[t]].type = "Fetch"
    /\ \A t \in Tasks : pc[t] = "wait" /\ notif[t] => slot[t] \notin Queued \cup NetHeld

Owned == QueueOwned /\ NetOwned /\ CallerOwned
OwnerInv == ~disturbed => Owned

(* Sending to the queue and receiving from it keep its entries distinct.    *)
LEMMA AppendOnce ==
    ASSUME TypeOK, Distinct, NEW x \in Slots \ Queued,
           netQueue' = Append(netQueue, x)
    PROVE  Distinct' /\ Queued' = Queued \cup {x}
<1>1. netQueue \in Seq(Slots)
  BY DEF TypeOK
<1>2. /\ Len(netQueue') = Len(netQueue) + 1
      /\ \A i \in 1 .. Len(netQueue) : netQueue'[i] = netQueue[i]
      /\ netQueue'[Len(netQueue) + 1] = x
      /\ Len(netQueue) \in Nat
  BY <1>1
<1>3. \A i \in 1 .. Len(netQueue') : i \in 1 .. Len(netQueue) \/ i = Len(netQueue) + 1
  BY <1>2
<1>4. \A i \in 1 .. Len(netQueue) : netQueue[i] # x
  BY DEF Queued
<1>5. Distinct'
  BY <1>2, <1>3, <1>4 DEF Distinct
<1> QED BY <1>5, AppendQueued

LEMMA TailOnce ==
    ASSUME TypeOK, Distinct, netQueue # <<>>, netQueue' = Tail(netQueue)
    PROVE  /\ Distinct' /\ Queued' = Queued \ {Head(netQueue)}
           /\ Head(netQueue) \in Queued
<1>1. netQueue \in Seq(Slots) /\ Len(netQueue) \in Nat \ {0}
  BY DEF TypeOK
<1>2. /\ Len(netQueue') = Len(netQueue) - 1
      /\ \A i \in 1 .. Len(netQueue) - 1 : netQueue'[i] = netQueue[i + 1]
      /\ Head(netQueue) = netQueue[1]
  BY <1>1
<1>3. Distinct'
  <2> SUFFICES ASSUME NEW i \in 1 .. Len(netQueue'), NEW j \in 1 .. Len(netQueue'),
                      netQueue'[i] = netQueue'[j]
               PROVE  i = j
    BY DEF Distinct
  <2>1. i + 1 \in 1 .. Len(netQueue) /\ j + 1 \in 1 .. Len(netQueue)
    BY <1>1, <1>2
  <2>2. netQueue[i + 1] = netQueue[j + 1]
    BY <1>1, <1>2
  <2>3. i + 1 = j + 1
    BY <2>1, <2>2 DEF Distinct
  <2> QED BY <2>3
<1>4. Queued' \subseteq Queued \ {Head(netQueue)}
  <2> SUFFICES ASSUME NEW i \in 1 .. Len(netQueue')
               PROVE  netQueue'[i] \in Queued \ {Head(netQueue)}
    BY DEF Queued
  <2>1. i + 1 \in 1 .. Len(netQueue) /\ netQueue'[i] = netQueue[i + 1] /\ i + 1 # 1
        /\ 1 \in 1 .. Len(netQueue)
    BY <1>1, <1>2
  <2>2. netQueue[i + 1] # netQueue[1]
    BY <2>1 DEF Distinct
  <2> QED BY <1>2, <2>1, <2>2 DEF Queued
<1>5. Queued \subseteq Queued' \cup {Head(netQueue)}
  BY TailQueued
<1>6. Head(netQueue) \in Queued
  BY <1>1, <1>2 DEF Queued
<1> QED BY <1>3, <1>4, <1>5, <1>6

(* What nobody touches stays owned. *)
LEMMA AllocOwned ==
    ASSUME LeakInv, Owned, NEW t \in Tasks, NEW type, NEW d, NEW o,
           o \cup {d} \subseteq Slots, TryAlloc(t, type, d, o)
    PROVE  Owned'
<1> USE DEF LeakInv
<1> PICK x \in o \cup {d} : /\ used' = [used EXCEPT ![x] = TRUE]
                          /\ req' = [req EXCEPT ![x] = Blank]
                          /\ slot' = [slot EXCEPT ![t] = x]
                          /\ ~used[x]
  BY DEF TryAlloc, FirstFree
<1>1. /\ Queued' = Queued /\ NetHeld' = NetHeld /\ Distinct' = Distinct
      /\ UNCHANGED <<netPc, netSlot, notif>>
  BY DEF TryAlloc, net, Queued, NetHeld, Distinct
<1>2. Queued \subseteq Slots
  BY DEF TypeOK, Queued
<1>3. x \notin Queued \cup NetHeld /\ x \in Slots
  BY DEF Owned, QueueOwned
<1>4. \A s \in Slots : s # x => req'[s] = req[s] /\ (used[s] => used'[s])
  BY DEF TypeOK
<1>5. netPc \in {"work", "reply", "replied", "free", "drainFree"} => netSlot \in Slots
  BY DEF TypeOK, ControlInv
<1>6. QueueOwned'
  BY <1>1, <1>2, <1>3, <1>4, <1>5 DEF Owned, QueueOwned, NetHeld
<1>7. NetOwned'
  <2>1. req'[x].cancelled = FALSE /\ req'[x].type = "None"
    BY <1>3 DEF TypeOK, Blank
  <2>2. netPc \in {"work", "reply", "free", "drainFree"} => netSlot # x
    BY <1>3 DEF NetHeld
  <2> QED BY <1>1, <1>4, <1>5, <2>1, <2>2 DEF Owned, NetOwned
<1>8. CallerOwned'
  <2>1. pc'[t] = "alloc" /\ slot'[t] = x /\ used'[x]
    BY <1>3 DEF TryAlloc, TypeOK
  <2>2. \A u \in Tasks : u # t => pc'[u] = pc[u] /\ slot'[u] = slot[u]
    BY DEF TryAlloc, TypeOK
  <2>3. \A u \in Tasks : pc[u] # "idle" => slot[u] \in Slots /\ slot[u] # x
    BY DEF TypeOK, Owned, CallerOwned
  <2>4. \A u \in Tasks : pc[u] = "idle" => slot[u] = NoSlot
    BY DEF TypeOK
  <2>5. x # NoSlot
    BY <1>3, SlotFacts
  <2>6. \A u \in Tasks : pc'[u] # "idle" => used'[slot'[u]]
    BY <1>4, <2>1, <2>2, <2>3 DEF Owned, CallerOwned
  <2>7. \A u, v \in Tasks : slot'[u] = slot'[v] => u = v \/ slot'[u] = NoSlot
    BY <2>1, <2>2, <2>3, <2>4, <2>5 DEF Owned, CallerOwned
  <2>8. \A u \in Tasks : pc'[u] = "alloc" => slot'[u] \notin Queued' \cup NetHeld'
    BY <1>1, <1>3, <2>1, <2>2 DEF Owned, CallerOwned
  <2>9. \A u \in Tasks : pc'[u] # "late"
    BY <2>1, <2>2 DEF Owned, CallerOwned
  <2>10. \A u \in Tasks : pc'[u] = "wait" =>
            /\ req'[slot'[u]].type = "Fetch"
            /\ notif'[u] => slot'[u] \notin Queued' \cup NetHeld'
    BY <1>1, <1>4, <2>1, <2>2, <2>3 DEF Owned, CallerOwned
  <2> QED BY <2>6, <2>7, <2>8, <2>9, <2>10 DEF CallerOwned
<1> QED BY <1>6, <1>7, <1>8 DEF Owned

(* A caller queues the slot it fills in, which nobody else holds, and frees *)
(* a slot that netTask has finished with.                                   *)
LEMMA CallerOwnedStep ==
    ASSUME LeakInv, Owned, NEW t \in Tasks, CallerStep(t), ~disturbed'
    PROVE  Owned'
<1> USE TaskAssumption DEF LeakInv
<1>slot. \A u \in Tasks : pc[u] # "idle" => slot[u] \in Slots
  BY DEF TypeOK
<1>held. netPc \in {"work", "reply", "replied", "free", "drainFree"} => netSlot \in Slots
  BY DEF TypeOK, ControlInv
<1>queued. Queued \subseteq Slots
  BY DEF TypeOK, Queued
<1>apart. \A u \in Tasks : pc[u] # "idle" /\ pc[t] # "idle" /\ slot[u] = slot[t] => u = t
  BY <1>slot, SlotFacts DEF Owned, CallerOwned
<1>send. ASSUME pc[t] = "alloc", NEW r \in Requests, ~r.cancelled,
                r.type = job[t].type,
                req' = [req EXCEPT ![slot[t]] = r],
                netQueue' = Append(netQueue, slot[t]),
                UNCHANGED <<used, net>>
         PROVE  /\ QueueOwned' /\ NetOwned'
                /\ Queued' = Queued \cup {slot[t]} /\ NetHeld' = NetHeld
                /\ \A s \in Slots : s # slot[t] => req'[s] = req[s]
                /\ req'[slot[t]] = r /\ slot[t] \notin Queued \cup NetHeld
  <2>1. slot[t] \in Slots /\ slot[t] \notin Queued \cup NetHeld
    BY <1>send, <1>slot DEF Owned, CallerOwned
  <2>2. Distinct' /\ Queued' = Queued \cup {slot[t]}
    BY <1>send, <2>1, AppendOnce DEF Owned, QueueOwned
  <2>3. NetHeld' = NetHeld /\ UNCHANGED <<netPc, netSlot>>
    BY <1>send DEF NetHeld, net
  <2>4. /\ \A s \in Slots : s # slot[t] => req'[s] = req[s]
        /\ req'[slot[t]] = r
    BY <1>send, <2>1 DEF TypeOK
  <2>5. QueueOwned'
    BY <1>send, <1>queued, <2>1, <2>2, <2>3, <2>4 DEF Owned, QueueOwned, CallerOwned
  <2>6. netPc \in {"work", "reply", "free", "drainFree"} => netSlot # slot[t]
    BY <2>1 DEF NetHeld
  <2>7. NetOwned'
    BY <1>send, <1>held, <2>3, <2>4, <2>6 DEF Owned, NetOwned
  <2> QED BY <2>1, <2>2, <2>3, <2>4, <2>5, <2>7
<1>free. ASSUME pc[t] # "idle", NEW r, Release(t, r),
                slot[t] \notin Queued \cup NetHeld,
                used' = [used EXCEPT ![slot[t]] = FALSE],
                \A s \in Slots : s # slot[t] => req'[s] = req[s],
                pc[t] = "wait" => req' = req,
                pc[t] = "alloc" => ~req'[slot[t]].cancelled,
                \A u \in Tasks : notif'[u] => notif[u] \/ u = t,
                UNCHANGED <<netQueue, net>>
         PROVE  Owned'
  <2>1. /\ Queued' = Queued /\ NetHeld' = NetHeld /\ Distinct' = Distinct
        /\ UNCHANGED <<netPc, netSlot>>
    BY <1>free DEF Queued, NetHeld, Distinct, net
  <2>2. \A s \in Slots : s # slot[t] => used'[s] = used[s]
    BY <1>free DEF TypeOK
  <2>3. QueueOwned'
    BY <1>free, <1>queued, <1>held, <2>1, <2>2 DEF Owned, QueueOwned, NetHeld
  <2>4. netPc \in {"work", "reply", "free", "drainFree"} => netSlot # slot[t]
    BY <1>free DEF NetHeld
  <2>5. pc[t] \in {"wait", "alloc"}
    BY <1>free DEF TypeOK, Owned, CallerOwned
  <2>6. NetOwned'
    BY <1>free, <1>held, <2>1, <2>4, <2>5 DEF Owned, NetOwned
  <2>7. /\ pc'[t] = "idle" /\ slot'[t] = NoSlot
        /\ \A u \in Tasks : u # t => pc'[u] = pc[u] /\ slot'[u] = slot[u]
    BY <1>free DEF Release, TypeOK
  <2>8. \A u \in Tasks : u # t /\ pc[u] # "idle" => slot[u] # slot[t]
    BY <1>free, <1>apart
  <2>9. \A u \in Tasks : pc'[u] # "idle" =>
           /\ pc[u] = pc'[u] /\ slot'[u] = slot[u] /\ u # t /\ slot[u] \in Slots
           /\ slot[u] # slot[t]
    BY <1>slot, <2>7, <2>8
  <2>10. \A u, v \in Tasks : slot'[u] = slot'[v] => u = v \/ slot'[u] = NoSlot
    BY <2>7 DEF Owned, CallerOwned
  <2>11. \A u \in Tasks : pc'[u] # "idle" => used'[slot'[u]]
    BY <2>2, <2>9 DEF Owned, CallerOwned
  <2>12. \A u \in Tasks : /\ pc'[u] = "alloc" => slot'[u] \notin Queued' \cup NetHeld'
                          /\ pc'[u] # "late"
    BY <2>1, <2>7, <2>9 DEF Owned, CallerOwned
  <2>13. \A u \in Tasks : pc'[u] = "wait" =>
            /\ req'[slot'[u]].type = "Fetch"
            /\ notif'[u] => slot'[u] \notin Queued' \cup NetHeld'
    BY <1>free, <2>1, <2>9 DEF Owned, CallerOwned
  <2>14. CallerOwned'
    BY <2>10, <2>11, <2>12, <2>13 DEF CallerOwned
  <2> QED BY <2>3, <2>6, <2>14 DEF Owned
<1>filled. ASSUME NEW q \in {NoTask, t}
           PROVE  /\ Filled(t, q) \in Requests /\ ~Filled(t, q).cancelled
                  /\ Filled(t, q).type = job[t].type
  BY DEF Filled, Requests, TypeOK
<1>1. CASE SubmitOneWay(t)
  <2>1. pc[t] = "alloc" /\ slot[t] \in Slots
    BY <1>1, <1>slot DEF SubmitOneWay
  <2>2. CASE Len(netQueue) < PoolSize
    <3>1. /\ req' = [req EXCEPT ![slot[t]] = Filled(t, NoTask)]
          /\ netQueue' = Append(netQueue, slot[t]) /\ UNCHANGED <<used, net, notif>>
          /\ Release(t, "none")
      BY <1>1, <2>2 DEF SubmitOneWay
    <3>2. /\ QueueOwned' /\ NetOwned'
          /\ Queued' = Queued \cup {slot[t]} /\ NetHeld' = NetHeld
          /\ \A s \in Slots : s # slot[t] => req'[s] = req[s]
      BY <1>send, <1>filled, <2>1, <3>1
    <3>3. /\ pc'[t] = "idle" /\ slot'[t] = NoSlot
          /\ \A u \in Tasks : u # t => pc'[u] = pc[u] /\ slot'[u] = slot[u]
      BY <3>1 DEF Release, TypeOK
    <3>4. \A u \in Tasks : pc'[u] # "idle" =>
             /\ pc[u] = pc'[u] /\ slot'[u] = slot[u] /\ u # t /\ slot[u] \in Slots
             /\ slot[u] # slot[t]
      BY <1>slot, <1>apart, <2>1, <3>3
    <3>5. CallerOwned'
      BY <3>1, <3>2, <3>3, <3>4 DEF Owned, CallerOwned
    <3> QED BY <3>2, <3>5 DEF Owned
  <2>3. CASE ~(Len(netQueue) < PoolSize)
    <3>1. /\ req' = [req EXCEPT ![slot[t]] = Filled(t, NoTask)]
          /\ used' = [used EXCEPT ![slot[t]] = FALSE]
          /\ UNCHANGED <<netQueue, net, notif>>
          /\ Release(t, "none")
      BY <1>1, <2>3 DEF SubmitOneWay
    <3>2. /\ \A s \in Slots : s # slot[t] => req'[s] = req[s]
          /\ ~req'[slot[t]].cancelled
      BY <1>filled, <2>1, <3>1 DEF TypeOK
    <3>3. slot[t] \notin Queued \cup NetHeld
      BY <2>1 DEF Owned, CallerOwned
    <3> QED BY <1>free, <2>1, <3>1, <3>2, <3>3
  <2> QED BY <2>2, <2>3
<1>2. CASE SubmitRpc(t)
  <2>1. pc[t] = "alloc" /\ slot[t] \in Slots /\ job[t].type = "Fetch"
    BY <1>2, <1>slot DEF SubmitRpc
  <2>2. CASE Len(netQueue) < PoolSize
    <3>1. /\ req' = [req EXCEPT ![slot[t]] = Filled(t, t)]
          /\ netQueue' = Append(netQueue, slot[t]) /\ UNCHANGED <<used, net, slot>>
          /\ pc' = [pc EXCEPT ![t] = "wait"] /\ notif' = [notif EXCEPT ![t] = FALSE]
      BY <1>2, <2>2 DEF SubmitRpc
    <3>2. /\ QueueOwned' /\ NetOwned'
          /\ Queued' = Queued \cup {slot[t]} /\ NetHeld' = NetHeld
          /\ \A s \in Slots : s # slot[t] => req'[s] = req[s]
          /\ req'[slot[t]] = Filled(t, t)
      BY <1>send, <1>filled, <2>1, <3>1
    <3>3. /\ pc'[t] = "wait" /\ ~notif'[t]
          /\ \A u \in Tasks : u # t => pc'[u] = pc[u] /\ notif'[u] = notif[u]
      BY <3>1 DEF TypeOK
    <3>4. \A u \in Tasks : u # t /\ pc[u] # "idle" =>
             slot[u] # slot[t] /\ slot[u] \in Slots
      BY <1>slot, <1>apart, <2>1
    <3>5. req'[slot[t]].type = "Fetch"
      BY <1>filled, <2>1, <3>2
    <3>6. \A u \in Tasks : pc'[u] # "idle" => used'[slot'[u]]
      BY <2>1, <3>1, <3>3 DEF Owned, CallerOwned
    <3>7. \A u, v \in Tasks : slot'[u] = slot'[v] => u = v \/ slot'[u] = NoSlot
      BY <3>1 DEF Owned, CallerOwned
    <3>8. \A u \in Tasks : /\ pc'[u] = "alloc" => slot'[u] \notin Queued' \cup NetHeld'
                           /\ pc'[u] # "late"
      BY <3>1, <3>2, <3>3, <3>4 DEF Owned, CallerOwned
    <3>9. \A u \in Tasks : pc'[u] = "wait" =>
             /\ req'[slot'[u]].type = "Fetch"
             /\ notif'[u] => slot'[u] \notin Queued' \cup NetHeld'
      BY <3>1, <3>2, <3>3, <3>4, <3>5 DEF Owned, CallerOwned
    <3>10. CallerOwned'
      BY <3>6, <3>7, <3>8, <3>9 DEF CallerOwned
    <3> QED BY <3>2, <3>10 DEF Owned
  <2>3. CASE ~(Len(netQueue) < PoolSize)
    <3>1. /\ req' = [req EXCEPT ![slot[t]] = Filled(t, t)]
          /\ used' = [used EXCEPT ![slot[t]] = FALSE]
          /\ UNCHANGED <<netQueue, net>> /\ notif' = [notif EXCEPT ![t] = FALSE]
          /\ Release(t, "abandoned")
      BY <1>2, <2>3 DEF SubmitRpc
    <3>2. /\ \A s \in Slots : s # slot[t] => req'[s] = req[s]
          /\ ~req'[slot[t]].cancelled
      BY <1>filled, <2>1, <3>1 DEF TypeOK
    <3>3. slot[t] \notin Queued \cup NetHeld
      BY <2>1 DEF Owned, CallerOwned
    <3>4. \A u \in Tasks : notif'[u] => notif[u] \/ u = t
      BY <3>1 DEF TypeOK
    <3> QED BY <1>free, <2>1, <3>1, <3>2, <3>3, <3>4
  <2> QED BY <2>2, <2>3
<1>3. CASE RpcDone(t)
  <2>1. /\ pc[t] = "wait" /\ notif[t] /\ UNCHANGED <<req, netQueue, net>>
        /\ notif' = [notif EXCEPT ![t] = FALSE]
        /\ used' = [used EXCEPT ![slot[t]] = FALSE]
    BY <1>3 DEF RpcDone
  <2>2. PICK r : Release(t, r)
    BY <1>3 DEF RpcDone
  <2>3. slot[t] \notin Queued \cup NetHeld
    BY <2>1 DEF Owned, CallerOwned
  <2>4. \A u \in Tasks : notif'[u] => notif[u] \/ u = t
    BY <2>1 DEF TypeOK
  <2> QED BY <1>free, <2>1, <2>2, <2>3, <2>4
<1>4. CASE RpcTimeout(t)
  BY <1>4 DEF RpcTimeout
<1>5. CASE RpcLateNotified(t) \/ RpcGiveUp(t)
  BY <1>5 DEF RpcLateNotified, RpcGiveUp, Owned, CallerOwned
<1> QED BY <1>1, <1>2, <1>3, <1>4, <1>5 DEF CallerStep

(* netTask takes a slot over from the queue, hands the slot of a fetch back *)
(* to the waiting caller and frees the others.                              *)
LEMMA NetOwnedStep ==
    ASSUME LeakInv, Owned, NetStep, ~disturbed'
    PROVE  Owned'
<1> USE TaskAssumption DEF LeakInv
<1>slot. \A u \in Tasks : pc[u] # "idle" => slot[u] \in Slots
  BY DEF TypeOK
<1>held. netPc \in {"work", "reply", "replied", "free", "drainFree"} => netSlot \in Slots
  BY DEF TypeOK, ControlInv
<1>queued. Queued \subseteq Slots
  BY DEF TypeOK, Queued
<1>head. ASSUME netQueue # <<>>, netQueue' = Tail(netQueue), NetHeld = {}
         PROVE  /\ Distinct' /\ Queued' = Queued \ {Head(netQueue)}
                /\ Head(netQueue) \in Slots /\ used[Head(netQueue)]
                /\ ~req[Head(netQueue)].cancelled
                /\ req[Head(netQueue)].type # "None"
                /\ \A u \in Tasks : pc[u] = "alloc" => slot[u] # Head(netQueue)
                /\ \A u \in Tasks : pc[u] = "wait" /\ notif[u] => slot[u] # Head(netQueue)
  <2> DEFINE h == Head(netQueue)
  <2>1. Distinct' /\ Queued' = Queued \ {h} /\ h \in Queued
    BY <1>head, TailOnce DEF Owned, QueueOwned
  <2>2. h \in Slots /\ used[h] /\ ~req[h].cancelled
    BY <2>1, <1>queued DEF Owned, QueueOwned
  <2>3. \A u \in Tasks : pc[u] = "alloc" => slot[u] # h
    BY <2>1 DEF Owned, CallerOwned
  <2>4. req[h].type # "None"
    BY <2>2, <2>3 DEF HolderInv, Held, Allocated
  <2>5. \A u \in Tasks : pc[u] = "wait" /\ notif[u] => slot[u] # h
    BY <2>1 DEF Owned, CallerOwned
  <2> QED BY <2>1, <2>2, <2>3, <2>4, <2>5
<1>taken. ASSUME netQueue # <<>>, netQueue' = Tail(netQueue), NetHeld = {},
                 netSlot' = Head(netQueue), NEW b \in BOOLEAN,
                 \/ netPc' = "work" /\ ~b /\ req[Head(netQueue)].type = "Fetch"
                 \/ netPc' \in {"free", "drainFree"} /\ req[Head(netQueue)].type # "Fetch",
                 req' = IF b THEN [req EXCEPT ![Head(netQueue)].cancelled = TRUE] ELSE req,
                 UNCHANGED <<used, callers, notif>>
          PROVE  Owned'
  <2> DEFINE h == Head(netQueue)
  <2>1. /\ Distinct' /\ Queued' = Queued \ {h}
        /\ h \in Slots /\ used[h] /\ ~req[h].cancelled
        /\ \A u \in Tasks : pc[u] = "alloc" => slot[u] # h
        /\ \A u \in Tasks : pc[u] = "wait" /\ notif[u] => slot[u] # h
    BY <1>taken, <1>head
  <2>2. NetHeld' = {h}
    BY <1>taken DEF NetHeld
  <2>3. /\ \A s \in Slots : req'[s].type = req[s].type
        /\ \A s \in Slots : s # h => req'[s] = req[s]
        /\ ~b => req'[h] = req[h]
    BY <1>taken, <2>1 DEF TypeOK, Requests
  <2>4. QueueOwned'
    BY <1>taken, <1>queued, <2>1, <2>2, <2>3 DEF Owned, QueueOwned
  <2>5. NetOwned'
    BY <1>taken, <2>1, <2>3 DEF NetOwned
  <2>6. CallerOwned'
    BY <1>taken, <1>slot, <2>1, <2>2, <2>3 DEF Owned, CallerOwned, callers
  <2> QED BY <2>4, <2>5, <2>6 DEF Owned
<1>pop. ASSUME NEW n \in {"work", "free"}, Pop(n), UNCHANGED <<pool, callers, notif>>,
               n = "work" <=> req[Head(netQueue)].type = "Fetch"
        PROVE  Owned'
  <2>1. NetHeld = {} /\ netQueue # <<>> /\ netQueue' = Tail(netQueue)
        /\ netSlot' = Head(netQueue) /\ netPc' = n
    BY <1>pop DEF Pop, NetHeld
  <2>2. req' = (IF FALSE THEN [req EXCEPT ![Head(netQueue)].cancelled = TRUE] ELSE req)
        /\ UNCHANGED <<used, callers, notif>>
    BY <1>pop DEF pool
  <2> QED BY <1>pop, <1>taken, <2>1, <2>2
<1>same. ASSUME UNCHANGED <<netQueue, callers>>,
                netPc' \in {"loop", "drain", "replied"} \/ UNCHANGED netSlot,
                NetHeld' \subseteq NetHeld,
                \A s \in Slots : used[s] /\ s \notin NetHeld \ NetHeld' => used'[s],
                \A s \in Slots : req'[s].type = req[s].type
                                 /\ req'[s].cancelled = req[s].cancelled
         PROVE  /\ QueueOwned'
                /\ Queued' = Queued
  <2>1. Queued' = Queued /\ Distinct' = Distinct
    BY <1>same DEF Queued, Distinct
  <2>2. \A s \in Queued' \cup NetHeld' : s \in Slots
    BY <1>same, <1>queued, <1>held, <2>1 DEF NetHeld
  <2> QED BY <1>same, <2>1, <2>2 DEF Owned, QueueOwned
<1>1. CASE NetDropCancelled
  <2>1. NetHeld = {} /\ netQueue # <<>> /\ netQueue' = Tail(netQueue)
    BY <1>1 DEF NetDropCancelled, Pop, NetHeld
  <2> QED BY <1>1, <2>1, <1>head DEF NetDropCancelled
<1>2. CASE NetPost
  <2>1. Pop("free") /\ UNCHANGED <<pool, callers, notif>>
        /\ req[Head(netQueue)].type = "Post"
    BY <1>2 DEF NetPost, Pop
  <2> QED BY <2>1, <1>pop
<1>3. CASE NetOtaCheck
  <2>1. Pop("free") /\ UNCHANGED <<pool, callers, notif>>
        /\ req[Head(netQueue)].type = "Ota"
    BY <1>3 DEF NetOtaCheck, Pop
  <2> QED BY <2>1, <1>pop
<1>4. CASE NetStart
  <2>1. Pop("work") /\ UNCHANGED <<pool, callers, notif>>
        /\ req[Head(netQueue)].type \in {"Fetch", "None"}
    BY <1>4 DEF NetStart, Pop
  <2>2. req[Head(netQueue)].type # "None"
    BY <2>1, <1>head DEF Pop, NetHeld
  <2> QED BY <2>1, <2>2, <1>pop
<1>5. ASSUME NEW ok \in BOOLEAN, NetResult(ok) PROVE Owned'
  <2>1. /\ netPc = "work" /\ netPc' = "reply" /\ NetHeld' = NetHeld
        /\ UNCHANGED <<used, netQueue, callers, notif, netSlot>>
    BY <1>5 DEF NetResult, NetHeld
  <2>2. \A s \in Slots : req'[s].type = req[s].type /\ req'[s].cancelled = req[s].cancelled
    BY <1>5, <1>held, <2>1 DEF NetResult, TypeOK, Requests
  <2>3. QueueOwned' /\ Queued' = Queued
    BY <1>same, <2>1, <2>2
  <2>4. NetOwned'
    BY <1>held, <2>1, <2>2 DEF Owned, NetOwned
  <2>5. CallerOwned'
    BY <1>slot, <2>1, <2>2, <2>3 DEF Owned, CallerOwned, callers
  <2> QED BY <2>3, <2>4, <2>5 DEF Owned
<1>6. CASE NetReply
  <2>1. /\ netPc = "reply" /\ netPc' = "replied" /\ NetHeld = {netSlot} /\ NetHeld' = {}
        /\ UNCHANGED <<used, req, netQueue, callers, netSlot>> /\ notif' = Notified(netSlot)
    BY <1>6 DEF NetReply, NetHeld, pool
  <2>2. netSlot \in Slots /\ used[netSlot] /\ req[netSlot].type = "Fetch"
        /\ ~req[netSlot].cancelled /\ netSlot \notin Queued
    BY <1>held, <2>1 DEF Owned, QueueOwned, NetOwned
  <2>3. pc[RpcTask] = "wait" /\ slot[RpcTask] = netSlot /\ req[netSlot].requester = RpcTask
    BY <2>2 DEF HolderInv, Held, ControlInv
  <2>4. notif' = [notif EXCEPT ![RpcTask] = TRUE]
    BY <2>1, <2>3 DEF Notified
  <2>5. QueueOwned' /\ Queued' = Queued
    BY <1>same, <2>1
  <2>6. NetOwned'
    BY <2>1, <2>2 DEF NetOwned
  <2>7. \A u \in Tasks : pc'[u] = "wait" /\ notif'[u] => slot'[u] \notin Queued'
    BY <2>1, <2>2, <2>3, <2>4, <2>5 DEF Owned, CallerOwned, callers, TypeOK
  <2>8. CallerOwned'
    BY <2>1, <2>5, <2>7 DEF Owned, CallerOwned, callers
  <2> QED BY <2>5, <2>6, <2>8 DEF Owned
<1>7. CASE NetFinish
  <2>1. /\ netPc = "replied" /\ netPc' = "loop" /\ NetHeld = {} /\ NetHeld' = {}
        /\ UNCHANGED <<req, netQueue, callers, notif>>
        /\ used' = [used EXCEPT ![netSlot] = @ /\ ~req[netSlot].cancelled]
    BY <1>7 DEF NetFinish, NetIdle, NetHeld
  <2>2. ~req[netSlot].cancelled /\ netSlot \in Slots
    BY <1>held, <2>1 DEF Owned, NetOwned
  <2>3. \A s \in Slots : used'[s] = used[s]
    BY <2>1, <2>2 DEF TypeOK
  <2>4. QueueOwned' /\ Queued' = Queued
    BY <1>same, <2>1, <2>3
  <2>5. NetOwned'
    BY <2>1 DEF NetOwned
  <2>6. CallerOwned'
    BY <1>slot, <2>1, <2>3, <2>4 DEF Owned, CallerOwned, callers
  <2> QED BY <2>4, <2>5, <2>6 DEF Owned
<1>8. CASE NetFree
  <2>1. /\ netPc \in {"free", "drainFree"} /\ netPc' \in {"loop", "drain"}
        /\ NetHeld = {netSlot} /\ NetHeld' = {}
        /\ UNCHANGED <<req, netQueue, callers, notif>>
        /\ used' = [used EXCEPT ![netSlot] = FALSE]
    BY <1>8 DEF NetFree, NetIdle, NetHeld
  <2>2. \A s \in Slots : used[s] /\ s # netSlot => used'[s]
    BY <2>1 DEF TypeOK
  <2>3. QueueOwned' /\ Queued' = Queued
    BY <1>same, <2>1, <2>2
  <2>4. NetOwned'
    BY <2>1 DEF NetOwned
  <2>5. \A u \in Tasks : pc[u] # "idle" => slot[u] # netSlot
    BY <2>1 DEF Owned, NetOwned, CallerOwned, TypeOK
  <2>6. CallerOwned'
    BY <1>slot, <2>1, <2>2, <2>3, <2>5 DEF Owned, CallerOwned, callers
  <2> QED BY <2>3, <2>4, <2>6 DEF Owned
<1>9. CASE NetDrain
  <2>1. /\ NetHeld = {} /\ netQueue # <<>> /\ netQueue' = Tail(netQueue)
        /\ netSlot' = Head(netQueue) /\ netPc' = "drainFree"
        /\ UNCHANGED <<used, callers>>
        /\ req' = [req EXCEPT ![Head(netQueue)].cancelled = TRUE]
        /\ notif' = Notified(Head(netQueue))
        /\ disturbed' = (disturbed \/ req[Head(netQueue)].requester # NoTask)
    BY <1>9 DEF NetDrain, NetHeld
  <2>2. req[Head(netQueue)].requester = NoTask
    BY <2>1
  <2>3. req[Head(netQueue)].type # "Fetch" /\ notif' = notif
    BY <2>1, <2>2, <1>head DEF ControlInv, Notified
  <2>4. req' = IF TRUE THEN [req EXCEPT ![Head(netQueue)].cancelled = TRUE] ELSE req
    BY <2>1
  <2> QED BY <1>taken, <2>1, <2>3, <2>4
<1>10. CASE NetDrainEnd
  <2>1. /\ netPc' = "loop" /\ NetHeld = {} /\ NetHeld' = {}
        /\ UNCHANGED <<used, req, netQueue, callers, notif>>
    BY <1>10 DEF NetDrainEnd, NetIdle, NetHeld, pool
  <2>2. QueueOwned' /\ Queued' = Queued
    BY <1>same, <2>1
  <2>3. NetOwned' /\ CallerOwned'
    BY <2>1, <2>2 DEF Owned, NetOwned, CallerOwned, callers
  <2> QED BY <2>2, <2>3 DEF Owned
<1> QED BY <1>1, <1>2, <1>3, <1>4, <1>5, <1>6, <1>7, <1>8, <1>9, <1>10 DEF NetStep

(* A disturbance is for ever. *)
LEMMA Undisturbed ==
    ASSUME TypeOK, [Next]_vars, ~disturbed'
    PROVE  ~disturbed
<1>1. \A t, type, d, o : TryAlloc(t, type, d, o) => ~disturbed
  BY DEF TryAlloc
<1>2. ASSUME NEW t \in Tasks, CallerStep(t) PROVE ~disturbed
  BY <1>2 DEF CallerStep, SubmitOneWay, SubmitRpc, RpcDone, RpcTimeout,
              RpcLateNotified, RpcGiveUp, history
<1>3. CASE NetStep
  BY <1>3 DEF NetStep, NetDropCancelled, NetPost, NetOtaCheck, NetStart, NetResult,
              NetReply, NetFinish, NetFree, NetDrain, NetDrainEnd, history
<1>4. CASE OtaToggle
  BY <1>4 DEF OtaToggle, history
<1>5. CASE UNCHANGED vars
  BY <1>5 DEF vars
<1> QED BY <1>1, <1>2, <1>3, <1>4, <1>5, TaskAssumption
        DEF Next, AllocFetch, AllocPost, AllocOta

LEMMA OwnerInit == Init => OwnerInv
<1> SUFFICES ASSUME Init PROVE Owned
  BY DEF OwnerInv
<1>1. Queued = {} /\ NetHeld = {} /\ Distinct
  BY DEF Init, Queued, NetHeld, Distinct
<1> QED BY <1>1 DEF Init, Owned, QueueOwned, NetOwned, CallerOwned

LEMMA OwnerStep == LeakInv /\ OwnerInv /\ [Next]_vars => OwnerInv'
<1> SUFFICES ASSUME LeakInv, OwnerInv, [Next]_vars, ~disturbed' PROVE Owned'
  BY DEF OwnerInv
<1>1. Owned
  BY Undisturbed DEF LeakInv, OwnerInv
<1>2. CASE AllocFetch
  BY <1>1, <1>2, AllocOwned, SlotFacts, TaskAssumption DEF AllocFetch
<1>3. ASSUME NEW t \in Tasks, NEW cat \in Categories, AllocPost(t, cat) PROVE Owned'
  BY <1>1, <1>3, AllocOwned, SlotFacts DEF AllocPost
<1>4. ASSUME NEW t \in Tasks, AllocOta(t) PROVE Owned'
  BY <1>1, <1>4, AllocOwned, SlotFacts DEF AllocOta
<1>5. ASSUME NEW t \in Tasks, CallerStep(t) PROVE Owned'
  BY <1>1, <1>5, CallerOwnedStep
<1>6. CASE NetStep
  BY <1>1, <1>6, NetOwnedStep
<1>7. CASE UNCHANGED <<pool, netQueue, callers, notif, net>>
  BY <1>1, <1>7 DEF Owned, QueueOwned, NetOwned, CallerOwned, Queued, NetHeld, Distinct,
     pool, callers, net
<1>8. CASE OtaToggle
  BY <1>7, <1>8 DEF OtaToggle
<1>9. CASE UNCHANGED vars
  BY <1>7, <1>9 DEF vars, pool, callers, net
<1> QED BY <1>2, <1>3, <1>4, <1>5, <1>6, <1>8, <1>9 DEF Next

THEOREM OwnerCorrect == Spec => [](LeakInv /\ OwnerInv)
<1>1. FullInv => LeakInv
  BY DEF FullInv
<1> QED BY <1>1, OwnerInit, OwnerStep, InvCorrect, PTL DEF Spec

(* Until a caller gives up on a fetch, or an OTA drains one, nobody frees,  *)
(* fills in or queues a slot of the request pool that another task holds    *)
(* (net_request_pool.cpp, app_tasks.cpp, app_tasks_net.cpp).                *)
THEOREM SingleOwnerCorrect == Spec => []SingleOwner
<1>1. OwnerInv => SingleOwner
  BY DEF OwnerInv, Owned, QueueOwned, CallerOwned, Distinct, SingleOwner
<1> QED BY <1>1, OwnerCorrect, PTL

(***************************************************************************)
(* A POST is in one place.                                                 *)
(***************************************************************************)

Unsent(i) == i \notin accepted /\ handed[i] = 0 /\ i \notin drained
Waiting(i) == \E s \in Queued : req[s].id = i
NewId(i) == i \in 1 .. nextId - 1 /\ Unsent(i) /\ ~Waiting(i)

(* An id not given yet, or of a request that is being filled in, has been   *)
(* nowhere; the ids in the queue are of different requests, and those of    *)
(* the POSTs are the accepted ones.                                         *)
IdInv ==
    /\ \A i \in Ids : i >= nextId => Unsent(i)
    /\ \A t \in Tasks, i \in Ids \cup {0} :
          pc[t] = "alloc" /\ job[t].id = i =>
             /\ NewId(i)
             /\ \A u \in Tasks : pc[u] = "alloc" /\ job[u].id = i => u = t
    /\ \A s \in Queued :
          /\ req[s].id \in 1 .. nextId - 1
          /\ \A r \in Queued : req[r].id = req[s].id => r = s
          /\ req[s].type = "Post" <=> req[s].id \in accepted

Placed ==
    /\ accepted \subseteq Ids
    /\ \A i \in accepted :
          /\ handed[i] < 2
          /\ Waiting(i) <=> handed[i] = 0 /\ i \notin drained
          /\ ~(handed[i] = 1 /\ i \in drained)

PostInv == ~disturbed => IdInv /\ Placed

LEMMA PostInit == Init => PostInv
<1> SUFFICES ASSUME Init PROVE IdInv /\ Placed
  BY DEF PostInv
<1>1. Queued = {}
  BY DEF Init, Queued
<1> QED BY <1>1 DEF Init, IdInv, Placed, Unsent

(* Steps that move no request leave every POST where it was. *)
LEMMA PostSame ==
    ASSUME TypeOK, IdInv, Placed, UNCHANGED <<netQueue, nextId, accepted, handed, drained>>,
           \A s \in Queued : req'[s].id = req[s].id /\ req'[s].type = req[s].type,
           \A t \in Tasks : pc'[t] = "alloc" => pc[t] = "alloc" /\ job'[t] = job[t]
    PROVE  IdInv' /\ Placed'
<1>1. Queued' = Queued
  BY DEF Queued
<1>2. \A i : Waiting(i)' <=> Waiting(i)
  BY <1>1 DEF Waiting
<1>3. \A i : Unsent(i)' <=> Unsent(i)
  BY DEF Unsent
<1>4. IdInv'
  BY <1>1, <1>2, <1>3 DEF IdInv, NewId
<1> QED BY <1>2, <1>4 DEF Placed

(* A new request takes the next id. *)
LEMMA PostAlloc ==
    ASSUME TypeOK, Owned, IdInv, Placed, NEW t \in Tasks, NEW type, NEW d, NEW o,
           o \cup {d} \subseteq Slots, TryAlloc(t, type, d, o)
    PROVE  IdInv' /\ Placed'
<1> PICK x \in o \cup {d} : req' = [req EXCEPT ![x] = Blank] /\ ~used[x]
  BY DEF TryAlloc, FirstFree
<1>1. Queued' = Queued /\ x \notin Queued /\ Queued \subseteq Slots
  BY DEF TryAlloc, Queued, Owned, QueueOwned, TypeOK
<1>2. \A s \in Queued : req'[s] = req[s]
  BY <1>1 DEF TypeOK
<1>3. /\ nextId \in Ids /\ nextId' = nextId + 1 /\ nextId \in Nat
      /\ UNCHANGED <<accepted, handed, drained>>
  BY DEF TryAlloc, Ids
<1>4. /\ pc'[t] = "alloc" /\ job'[t].id = nextId
      /\ \A u \in Tasks : u # t => pc'[u] = pc[u] /\ job'[u] = job[u]
  BY DEF TryAlloc, TypeOK
<1>5. \A i : (Waiting(i)' <=> Waiting(i)) /\ (Unsent(i)' <=> Unsent(i))
  BY <1>1, <1>2, <1>3 DEF Waiting, Unsent
<1>6. Unsent(nextId) /\ ~Waiting(nextId)
  BY <1>3 DEF IdInv, Waiting
<1>7. \A i \in Ids : i >= nextId' => Unsent(i)'
  BY <1>3, <1>5 DEF IdInv, Ids
<1>8. \A u \in Tasks, i \in Ids \cup {0} : pc'[u] = "alloc" /\ job'[u].id = i => NewId(i)'
  <2> SUFFICES ASSUME NEW u \in Tasks, NEW i \in Ids \cup {0},
                      pc'[u] = "alloc", job'[u].id = i
               PROVE  i \in 1 .. nextId' - 1 /\ Unsent(i) /\ ~Waiting(i)
    BY <1>5 DEF NewId
  <2>1. CASE u = t
    BY <1>3, <1>4, <1>6, <2>1 DEF Ids
  <2>2. CASE u # t
    BY <1>3, <1>4, <2>2 DEF IdInv, NewId
  <2> QED BY <2>1, <2>2
<1>9. \A u, v \in Tasks : pc'[u] = "alloc" /\ pc'[v] = "alloc" /\ job'[u].id = job'[v].id
                             => u = v
  <2>1. \A u \in Tasks : u # t /\ pc[u] = "alloc" => job[u].id # nextId
    BY <1>3 DEF IdInv, NewId
  <2>2. \A u \in Tasks : job[u].id \in Ids \cup {0}
    BY DEF TypeOK
  <2>3. \A u, v \in Tasks : pc[u] = "alloc" /\ pc[v] = "alloc" /\ job[u].id = job[v].id
                               => u = v
    BY <2>2 DEF IdInv
  <2> QED BY <1>4, <2>1, <2>3
<1>10. \A s \in Queued' :
         /\ req'[s].id \in 1 .. nextId' - 1
         /\ \A r \in Queued' : req'[r].id = req'[s].id => r = s
         /\ req'[s].type = "Post" <=> req'[s].id \in accepted'
  BY <1>1, <1>2, <1>3 DEF IdInv
<1>11. IdInv'
  BY <1>7, <1>8, <1>9, <1>10 DEF IdInv
<1> QED BY <1>3, <1>5, <1>11 DEF Placed

(* A caller queues its request under the id it was given, and a POST that   *)
(* is queued is accepted.                                                   *)
LEMMA PostSend ==
    ASSUME LeakInv, Owned, IdInv, Placed, NEW t \in Tasks, pc[t] = "alloc",
           NEW r \in Requests, r.id = job[t].id, r.type = job[t].type,
           req' = [req EXCEPT ![slot[t]] = r], netQueue' = Append(netQueue, slot[t]),
           accepted' = IF r.type = "Post" THEN accepted \cup {r.id} ELSE accepted,
           pc'[t] # "alloc", \A u \in Tasks : u # t => pc'[u] = pc[u],
           UNCHANGED <<job, nextId, handed, drained>>
    PROVE  IdInv' /\ Placed'
<1> USE DEF LeakInv
<1>1. slot[t] \in Slots \ Queued
  BY DEF TypeOK, Owned, CallerOwned
<1>2. Queued' = Queued \cup {slot[t]} /\ Queued \subseteq Slots
  BY <1>1, AppendOnce DEF Owned, QueueOwned, Queued, TypeOK
<1>3. req'[slot[t]] = r /\ \A s \in Queued : req'[s] = req[s]
  BY <1>1, <1>2 DEF TypeOK
<1>4. /\ r.id \in 1 .. nextId - 1 /\ r.id \in Ids /\ Unsent(r.id) /\ ~Waiting(r.id)
      /\ \A u \in Tasks : u # t /\ pc[u] = "alloc" => job[u].id # r.id
      /\ nextId \in Nat
  <2>1. r.id \in Ids \cup {0} /\ nextId \in Nat /\ nextId - 1 <= MaxRequests
    BY BoundAssumption DEF TypeOK, Requests
  <2>2. NewId(r.id) /\ \A u \in Tasks : pc[u] = "alloc" /\ job[u].id = r.id => u = t
    BY <2>1 DEF IdInv
  <2> QED BY <2>1, <2>2, BoundAssumption DEF NewId, Ids
<1>5. \A i : Waiting(i)' <=> Waiting(i) \/ i = r.id
  BY <1>2, <1>3 DEF Waiting
<1>6. \A i : i # r.id => (Unsent(i)' <=> Unsent(i))
  BY DEF Unsent
<1>7. \A i \in Ids : i >= nextId' => Unsent(i)'
  BY <1>4, <1>6 DEF IdInv
<1>8. \A u \in Tasks, i \in Ids \cup {0} :
         pc'[u] = "alloc" /\ job'[u].id = i =>
            /\ NewId(i)'
            /\ \A v \in Tasks : pc'[v] = "alloc" /\ job'[v].id = i => v = u
  <2> SUFFICES ASSUME NEW u \in Tasks, NEW i \in Ids \cup {0},
                      pc'[u] = "alloc", job'[u].id = i
               PROVE  /\ NewId(i)'
                      /\ \A v \in Tasks : pc'[v] = "alloc" /\ job'[v].id = i => v = u
    OBVIOUS
  <2>1. u # t /\ pc[u] = "alloc" /\ job[u].id = i /\ i # r.id
    BY <1>4
  <2>2. NewId(i) /\ \A v \in Tasks : pc[v] = "alloc" /\ job[v].id = i => v = u
    BY <2>1 DEF IdInv
  <2>3. NewId(i)'
    BY <1>5, <1>6, <2>1, <2>2 DEF NewId
  <2>4. \A v \in Tasks : pc'[v] = "alloc" => pc[v] = "alloc" /\ job'[v] = job[v]
    OBVIOUS
  <2> QED BY <2>2, <2>3, <2>4
<1>9. \A s \in Queued' :
         /\ req'[s].id \in 1 .. nextId' - 1
         /\ \A q \in Queued' : req'[q].id = req'[s].id => q = s
         /\ req'[s].type = "Post" <=> req'[s].id \in accepted'
  <2> SUFFICES ASSUME NEW s \in Queued'
               PROVE  /\ req'[s].id \in 1 .. nextId - 1
                      /\ \A q \in Queued' : req'[q].id = req'[s].id => q = s
                      /\ req'[s].type = "Post" <=> req'[s].id \in accepted'
    OBVIOUS
  <2>1. \A q \in Queued : req[q].id # r.id
    BY <1>4 DEF Waiting
  <2>2. CASE s = slot[t]
    BY <1>2, <1>3, <1>4, <2>1, <2>2 DEF Unsent
  <2>3. CASE s \in Queued
    BY <1>1, <1>2, <1>3, <1>4, <2>1, <2>3 DEF IdInv
  <2> QED BY <1>2, <2>2, <2>3
<1>10. IdInv'
  BY <1>7, <1>8, <1>9 DEF IdInv
<1>11. Placed'
  <2>1. accepted' \subseteq Ids
    BY <1>4 DEF Placed
  <2>2. \A i \in accepted' : (i \in accepted /\ i # r.id) \/ i = r.id
    BY <1>4 DEF Unsent
  <2> QED BY <1>4, <1>5, <2>1, <2>2 DEF Placed, Unsent
<1> QED BY <1>10, <1>11

(* netTask takes a request out of the queue: a POST is handed on once, or   *)
(* thrown away by the drain.                                                *)
LEMMA PostTaken ==
    ASSUME LeakInv, Owned, IdInv, Placed, netQueue # <<>>, netQueue' = Tail(netQueue),
           NEW h, h = Head(netQueue),
           \A s \in Slots : req'[s].id = req[s].id /\ req'[s].type = req[s].type,
           IF req[h].type = "Post"
           THEN \/ handed' = [handed EXCEPT ![req[h].id] = IF @ = 0 THEN 1 ELSE 2]
                   /\ UNCHANGED drained
                \/ drained' = drained \cup {req[h].id} /\ UNCHANGED handed
           ELSE UNCHANGED <<handed, drained>>,
           UNCHANGED <<callers, nextId, accepted>>
    PROVE  IdInv' /\ Placed'
<1> USE DEF LeakInv
<1>1. Queued' = Queued \ {h} /\ h \in Queued /\ Queued \subseteq Slots
  <2>1. Queued' = Queued \ {h} /\ h \in Queued
    BY TailOnce DEF Owned, QueueOwned
  <2>2. netQueue \in Seq(Slots)
    BY DEF TypeOK
  <2>3. Queued \subseteq Slots
    BY <2>2 DEF Queued
  <2> QED BY <2>1, <2>3
<1>2. \A i : Waiting(i)' <=> Waiting(i) /\ i # req[h].id
  BY <1>1 DEF Waiting, IdInv
<1>3. /\ Waiting(req[h].id) /\ (req[h].type = "Post" <=> req[h].id \in accepted)
      /\ req[h].id \in 1 .. nextId - 1 /\ nextId \in 1 .. MaxRequests + 1
      /\ req[h].id \in Ids
  BY <1>1, BoundAssumption DEF Waiting, IdInv, TypeOK, Ids
<1>4. \A i \in Ids : i # req[h].id =>
         handed'[i] = handed[i] /\ (i \in drained' <=> i \in drained)
  <2> SUFFICES ASSUME NEW i \in Ids, i # req[h].id
               PROVE  handed'[i] = handed[i] /\ (i \in drained' <=> i \in drained)
    OBVIOUS
  <2>1. CASE handed' = [handed EXCEPT ![req[h].id] = IF @ = 0 THEN 1 ELSE 2]
             /\ UNCHANGED drained
    BY <2>1 DEF TypeOK
  <2>2. CASE drained' = drained \cup {req[h].id} /\ UNCHANGED handed
    BY <2>2
  <2>3. CASE UNCHANGED <<handed, drained>>
    BY <2>3
  <2> QED BY <2>1, <2>2, <2>3
<1>5. IdInv'
  <2>1. \A i \in Ids : i >= nextId' => Unsent(i)'
    BY <1>3, <1>4 DEF IdInv, Unsent, Ids
  <2>2. \A u \in Tasks, i \in Ids \cup {0} :
           pc'[u] = "alloc" /\ job'[u].id = i =>
              /\ NewId(i)'
              /\ \A v \in Tasks : pc'[v] = "alloc" /\ job'[v].id = i => v = u
    <3> SUFFICES ASSUME NEW u \in Tasks, NEW i \in Ids \cup {0},
                        pc[u] = "alloc", job[u].id = i
                 PROVE  /\ NewId(i)'
                        /\ \A v \in Tasks : pc[v] = "alloc" /\ job[v].id = i => v = u
      BY DEF callers
    <3>1. NewId(i) /\ \A v \in Tasks : pc[v] = "alloc" /\ job[v].id = i => v = u
      BY DEF IdInv
    <3>2. i # req[h].id
      BY <1>3, <3>1 DEF NewId
    <3>3. i \in Ids
      BY <3>1, <1>3, BoundAssumption DEF NewId, Ids
    <3> QED BY <1>2, <1>4, <3>1, <3>2, <3>3 DEF NewId, Unsent
  <2>3. \A s \in Queued' :
           /\ req'[s].id \in 1 .. nextId' - 1
           /\ \A q \in Queued' : req'[q].id = req'[s].id => q = s
           /\ req'[s].type = "Post" <=> req'[s].id \in accepted'
    BY <1>1 DEF IdInv
  <2> QED BY <2>1, <2>2, <2>3 DEF IdInv
<1>6. \A i \in accepted' :
         /\ handed'[i] < 2
         /\ Waiting(i)' <=> handed'[i] = 0 /\ i \notin drained'
         /\ ~(handed'[i] = 1 /\ i \in drained')
  <2> SUFFICES ASSUME NEW i \in accepted
               PROVE  /\ handed'[i] < 2
                      /\ Waiting(i)' <=> handed'[i] = 0 /\ i \notin drained'
                      /\ ~(handed'[i] = 1 /\ i \in drained')
    OBVIOUS
  <2>1. /\ handed[i] < 2 /\ ~(handed[i] = 1 /\ i \in drained)
        /\ Waiting(i) <=> handed[i] = 0 /\ i \notin drained
    BY DEF Placed
  <2>2. CASE i = req[h].id
    <3>1. handed[i] = 0 /\ i \notin drained /\ req[h].type = "Post" /\ ~Waiting(i)'
      BY <1>2, <1>3, <2>1, <2>2
    <3>2. \/ handed'[i] = 1 /\ drained' = drained
          \/ handed'[i] = 0 /\ i \in drained'
      BY <1>3, <2>2, <3>1 DEF TypeOK
    <3> QED BY <3>1, <3>2
  <2>3. CASE i # req[h].id
    <3>1. handed'[i] = handed[i] /\ (i \in drained' <=> i \in drained)
      BY <1>4, <2>3 DEF Placed
    <3> QED BY <1>2, <2>1, <2>3, <3>1
  <2> QED BY <2>2, <2>3
<1> QED BY <1>5, <1>6 DEF Placed

(* A caller's step leaves every POST where it is, or queues a new one.      *)
LEMMA PostCaller ==
    ASSUME LeakInv, Owned, IdInv, Placed, NEW t \in Tasks, CallerStep(t), ~disturbed'
    PROVE  IdInv' /\ Placed'
<1> USE DEF LeakInv
<1>1. pc[t] = "alloc" => slot[t] \in Slots \ Queued
  BY DEF TypeOK, Owned, CallerOwned
<1>2. ASSUME NEW who \in {t, NoTask}
      PROVE  /\ Filled(t, who) \in Requests
             /\ Filled(t, who).id = job[t].id /\ Filled(t, who).type = job[t].type
  BY <1>2 DEF Filled, TypeOK, Requests
<1>3. ASSUME pc[t] = "alloc", NEW r, req' = [req EXCEPT ![slot[t]] = r]
      PROVE  \A s \in Queued : req'[s].id = req[s].id /\ req'[s].type = req[s].type
  BY <1>1, <1>3 DEF TypeOK
<1>4. CASE SubmitOneWay(t)
  <2> DEFINE r == Filled(t, NoTask)
  <2>1. /\ pc[t] = "alloc" /\ req' = [req EXCEPT ![slot[t]] = r]
        /\ pc' = [pc EXCEPT ![t] = "idle"]
        /\ UNCHANGED <<job, nextId, handed, drained>>
    BY <1>4 DEF SubmitOneWay, Release
  <2>2. pc'[t] # "alloc" /\ \A u \in Tasks : u # t => pc'[u] = pc[u]
    BY <2>1 DEF TypeOK
  <2>3. r \in Requests /\ r.id = job[t].id /\ r.type = job[t].type
    BY <1>2
  <2>4. CASE netQueue' = Append(netQueue, slot[t])
             /\ accepted' = IF job[t].type = "Post"
                            THEN accepted \cup {job[t].id} ELSE accepted
    <3>1. accepted' = IF r.type = "Post" THEN accepted \cup {r.id} ELSE accepted
      BY <2>3, <2>4
    <3> HIDE DEF r
    <3> QED BY <2>1, <2>2, <2>3, <2>4, <3>1, PostSend
  <2>5. CASE UNCHANGED <<netQueue, accepted>>
    <3>1. \A s \in Queued : req'[s].id = req[s].id /\ req'[s].type = req[s].type
      BY <1>3, <2>1
    <3>2. \A u \in Tasks : pc'[u] = "alloc" => pc[u] = "alloc" /\ job'[u] = job[u]
      BY <2>1, <2>2
    <3> QED BY <2>1, <2>5, <3>1, <3>2, PostSame
  <2> QED BY <1>4, <2>4, <2>5 DEF SubmitOneWay
<1>5. CASE SubmitRpc(t)
  <2> DEFINE r == Filled(t, t)
  <2>1. /\ pc[t] = "alloc" /\ job[t].type = "Fetch" /\ req' = [req EXCEPT ![slot[t]] = r]
        /\ pc' = [pc EXCEPT ![t] = "wait"] \/ pc' = [pc EXCEPT ![t] = "idle"]
        /\ UNCHANGED <<job, nextId, accepted, handed, drained>>
    BY <1>5 DEF SubmitRpc, Release
  <2>2. pc'[t] # "alloc" /\ \A u \in Tasks : u # t => pc'[u] = pc[u]
    BY <2>1 DEF TypeOK
  <2>3. r \in Requests /\ r.id = job[t].id /\ r.type = job[t].type
    BY <1>2
  <2>4. CASE netQueue' = Append(netQueue, slot[t])
    <3>1. accepted' = IF r.type = "Post" THEN accepted \cup {r.id} ELSE accepted
      BY <2>1, <2>3
    <3> HIDE DEF r
    <3> QED BY <2>1, <2>2, <2>3, <2>4, <3>1, PostSend
  <2>5. CASE UNCHANGED netQueue
    <3>1. \A s \in Queued : req'[s].id = req[s].id /\ req'[s].type = req[s].type
      BY <1>3, <2>1
    <3>2. \A u \in Tasks : pc'[u] = "alloc" => pc[u] = "alloc" /\ job'[u] = job[u]
      BY <2>1, <2>2
    <3> QED BY <2>1, <2>5, <3>1, <3>2, PostSame
  <2> QED BY <1>5, <2>4, <2>5 DEF SubmitRpc
<1>6. CASE RpcDone(t) \/ RpcLateNotified(t) \/ RpcGiveUp(t)
  <2>1. pc' = [pc EXCEPT ![t] = "idle"]
        /\ UNCHANGED <<req, netQueue, job, nextId, accepted, handed, drained>>
    BY <1>6 DEF RpcDone, RpcLateNotified, RpcGiveUp, Release, history
  <2>2. \A u \in Tasks : pc'[u] = "alloc" => pc[u] = "alloc" /\ job'[u] = job[u]
    BY <2>1 DEF TypeOK
  <2> QED BY <2>1, <2>2, PostSame
<1>7. CASE RpcTimeout(t)
  BY <1>7 DEF RpcTimeout
<1> QED BY <1>4, <1>5, <1>6, <1>7 DEF CallerStep

(* netTask takes one request or none. *)
LEMMA PostNet ==
    ASSUME LeakInv, Owned, IdInv, Placed, NetStep
    PROVE  IdInv' /\ Placed'
<1> USE DEF LeakInv
<1> DEFINE h == Head(netQueue)
<1>1. ASSUME netQueue # <<>>
      PROVE  h \in Slots /\ ~req[h].cancelled
  <2>1. netQueue \in Seq(Slots) /\ h = netQueue[1] /\ 1 \in 1 .. Len(netQueue)
    BY <1>1 DEF TypeOK
  <2>2. h \in Queued
    BY <2>1 DEF Queued
  <2> QED BY <2>1, <2>2 DEF Owned, QueueOwned
<1>2. ASSUME Pop("free") \/ Pop("work"), UNCHANGED <<pool, callers, nextId, accepted>>,
             req[h].type = "Post" =>
                /\ handed' = [handed EXCEPT ![req[h].id] = IF @ = 0 THEN 1 ELSE 2]
                /\ UNCHANGED drained,
             req[h].type # "Post" => UNCHANGED <<handed, drained>>
      PROVE  IdInv' /\ Placed'
  <2>1. netQueue # <<>> /\ netQueue' = Tail(netQueue) /\ UNCHANGED req
    BY <1>2 DEF Pop, pool
  <2> QED BY <1>2, <2>1, PostTaken
<1>3. ASSUME UNCHANGED <<netQueue, callers, nextId, accepted, handed, drained>>,
             \A s \in Slots : req'[s].id = req[s].id /\ req'[s].type = req[s].type
      PROVE  IdInv' /\ Placed'
  <2>1. Queued \subseteq Slots
    <3>1. netQueue \in Seq(Slots)
      BY DEF TypeOK
    <3> QED BY <3>1 DEF Queued
  <2>2. \A u \in Tasks : pc'[u] = "alloc" => pc[u] = "alloc" /\ job'[u] = job[u]
    BY <1>3 DEF callers
  <2> QED BY <1>3, <2>1, <2>2, PostSame
<1>4. CASE NetDropCancelled
  BY <1>1, <1>4 DEF NetDropCancelled, Pop
<1>5. CASE NetPost
  BY <1>2, <1>5 DEF NetPost, Pop
<1>6. CASE NetOtaCheck
  BY <1>2, <1>6 DEF NetOtaCheck, Pop, history
<1>7. CASE NetStart
  BY <1>2, <1>7 DEF NetStart, Pop, history
<1>8. ASSUME NEW ok \in BOOLEAN, NetResult(ok) PROVE IdInv' /\ Placed'
  <2>1. netSlot \in Slots
    BY <1>8 DEF NetResult, ControlInv, TypeOK
  <2>2. \A s \in Slots : req'[s].id = req[s].id /\ req'[s].type = req[s].type
    BY <1>8, <2>1 DEF NetResult, TypeOK, Requests
  <2> QED BY <1>3, <1>8, <2>2 DEF NetResult
<1>9. CASE NetReply \/ NetFinish \/ NetFree \/ NetDrainEnd
  BY <1>3, <1>9 DEF NetReply, NetFinish, NetFree, NetDrainEnd, pool, history
<1>10. CASE NetDrain
  <2>1. /\ netQueue # <<>> /\ netQueue' = Tail(netQueue)
        /\ req' = [req EXCEPT ![h].cancelled = TRUE]
        /\ drained' = IF req[h].type = "Post" THEN drained \cup {req[h].id} ELSE drained
        /\ UNCHANGED <<callers, nextId, accepted, handed>>
    BY <1>10 DEF NetDrain
  <2>2. \A s \in Slots : req'[s].id = req[s].id /\ req'[s].type = req[s].type
    BY <1>1, <2>1 DEF TypeOK, Requests
  <2> HIDE DEF h
  <2>3. IF req[h].type = "Post"
        THEN drained' = drained \cup {req[h].id} /\ UNCHANGED handed
        ELSE UNCHANGED <<handed, drained>>
    BY <2>1
  <2> QED BY <2>1, <2>2, <2>3, PostTaken DEF h
<1> QED BY <1>4, <1>5, <1>6, <1>7, <1>8, <1>9, <1>10 DEF NetStep

LEMMA PostStep == LeakInv /\ OwnerInv /\ PostInv /\ [Next]_vars => PostInv'
<1> SUFFICES ASSUME LeakInv, OwnerInv, PostInv, [Next]_vars, ~disturbed'
             PROVE  IdInv' /\ Placed'
  BY DEF PostInv
<1>1. TypeOK /\ Owned /\ IdInv /\ Placed
  BY Undisturbed DEF LeakInv, OwnerInv, PostInv
<1>2. CASE AllocFetch
  BY <1>1, <1>2, PostAlloc, SlotFacts, TaskAssumption DEF AllocFetch
<1>3. ASSUME NEW t \in Tasks, NEW cat \in Categories, AllocPost(t, cat)
      PROVE  IdInv' /\ Placed'
  BY <1>1, <1>3, PostAlloc, SlotFacts DEF AllocPost
<1>4. ASSUME NEW t \in Tasks, AllocOta(t) PROVE IdInv' /\ Placed'
  BY <1>1, <1>4, PostAlloc, SlotFacts DEF AllocOta
<1>5. ASSUME NEW t \in Tasks, CallerStep(t) PROVE IdInv' /\ Placed'
  BY <1>1, <1>5, PostCaller
<1>6. CASE NetStep
  BY <1>1, <1>6, PostNet
<1>7. CASE UNCHANGED <<pool, netQueue, callers, history>>
  BY <1>1, <1>7, PostSame DEF pool, callers, history
<1>8. CASE OtaToggle
  BY <1>7, <1>8 DEF OtaToggle
<1>9. CASE UNCHANGED vars
  BY <1>7, <1>9 DEF vars, pool, callers, history
<1> QED BY <1>2, <1>3, <1>4, <1>5, <1>6, <1>8, <1>9 DEF Next

(* Until a caller gives up on a fetch, or an OTA drains one, a POST that    *)
(* netPostRaw accepted is in the queue, or went to postSender once, or was  *)
(* thrown away by an OTA drain, and never two of these (app_tasks_net.cpp). *)
THEOREM PostsHandedOnceCorrect == Spec => []PostsHandedOnce
<1>1. PostInv => PostsHandedOnce
  <2> SUFFICES ASSUME IdInv, Placed, NEW i \in accepted
               PROVE  /\ handed[i] < 2
                      /\ Pending(i) = (handed[i] = 0 /\ i \notin drained)
                      /\ ~(handed[i] = 1 /\ i \in drained)
    BY DEF PostInv, PostsHandedOnce
  <2>1. Pending(i) <=> Waiting(i)
    BY DEF Pending, Waiting, Queued
  <2>2. Pending(i) \in BOOLEAN
    BY DEF Pending
  <2> QED BY <2>1, <2>2 DEF Placed
<1> QED BY <1>1, PostInit, PostStep, OwnerCorrect, PTL DEF Spec
=============================================================================
