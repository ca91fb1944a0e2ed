------------------------------- MODULE DataQueue -------------------------------
(***************************************************************************)
(* The DataQueue class of the ffp5cs firmware, a ring of fixed storage in  *)
(* RAM, with the tasks that use it through AutomatismSync: sendFullUpdate  *)
(* pushes a payload that netTask refused, replayQueuedData peeks at the    *)
(* oldest, offers it to netPostRaw and pops it once it was accepted.  A    *)
(* method call is one step; netPostRaw, which may block for 200 ms, falls  *)
(* between the peek and the pop.                                           *)
(***************************************************************************)
EXTENDS Naturals, Sequences

CONSTANTS
    Payloads,   \* the payloads pushed, none empty or of 1024 bytes and more
    NoPayload,  \* the empty string of a cleared entry
    Requested,  \* the constructor's argument: QUEUE_MAX_ENTRIES
    Tasks       \* the tasks that call sendFullUpdate

ASSUME PayloadAssumption == NoPayload \notin Payloads
ASSUME SizeAssumption == Requested \in Nat

MaxEntries == IF Requested = 0 \/ Requested > 5 THEN 5 ELSE Requested

Indices == 0 .. MaxEntries - 1

VARIABLES
    storage, head, tail, count, \* _storage, _head, _tail, _count
    hand                        \* what each task's replay has peeked at

vars == <<storage, head, tail, count, hand>>

Init ==
    /\ storage = [i \in Indices |-> NoPayload]
    /\ head = 0 /\ tail = 0 /\ count = 0
    /\ hand = [t \in Tasks |-> NoPayload]

Successor(i) == (i + 1) % MaxEntries

(* Mutant: a full queue counts no further but keeps its tail.               *)
PushKeepingTail(t, p) ==
    /\ hand[t] = NoPayload
    /\ count' = IF count >= MaxEntries THEN count ELSE count + 1
    /\ storage' = [storage EXCEPT ![head] = p]
    /\ head' = Successor(head)
    /\ UNCHANGED <<tail, hand>>

(* A full queue gives up its oldest entry.                                  *)
Push(t, p) ==
    /\ hand[t] = NoPayload
    /\ IF count >= MaxEntries
       THEN tail' = Successor(tail) /\ count' = MaxEntries
       ELSE count' = count + 1 /\ UNCHANGED tail
    /\ storage' = [storage EXCEPT ![head] = p]
    /\ head' = Successor(head)
    /\ UNCHANGED hand

(* Mutant: the replay looks at the newest entry.                            *)
PeekNewest(t) ==
    /\ hand[t] = NoPayload /\ count > 0
    /\ hand' = [hand EXCEPT ![t] = storage[(tail + count - 1) % MaxEntries]]
    /\ UNCHANGED <<storage, head, tail, count>>

Peek(t) ==
    /\ hand[t] = NoPayload /\ count > 0
    /\ hand' = [hand EXCEPT ![t] = storage[tail]]
    /\ UNCHANGED <<storage, head, tail, count>>

(* netPostRaw refused: the entry stays.                                     *)
Refused(t) ==
    /\ hand[t] # NoPayload
    /\ hand' = [hand EXCEPT ![t] = NoPayload]
    /\ UNCHANGED <<storage, head, tail, count>>

(* netPostRaw accepted; pop() does nothing when the queue has been emptied. *)
Pop(t) ==
    /\ hand[t] # NoPayload
    /\ IF count > 0
       THEN /\ storage' = [storage EXCEPT ![tail] = NoPayload]
            /\ tail' = Successor(tail)
            /\ count' = count - 1
       ELSE UNCHANGED <<storage, tail, count>>
    /\ hand' = [hand EXCEPT ![t] = NoPayload]
    /\ UNCHANGED head

Next == \E t \in Tasks : \/ \E p \in Payloads : Push(t, p)
                         \/ Peek(t) \/ Refused(t) \/ Pop(t)

Spec == Init /\ [][Next]_vars

-------------------------------------------------------------------------------
(* The n-th oldest entry, n from 0.                                         *)
Entry(n) == storage[(tail + n) % MaxEntries]

(* The ring is coherent: the head is count entries past the tail, exactly   *)
(* those entries hold payloads, and the others are cleared.                 *)
RingOK ==
    /\ storage \in [Indices -> Payloads \cup {NoPayload}]
    /\ head \in Indices /\ tail \in Indices /\ count \in 0 .. MaxEntries
    /\ hand \in [Tasks -> Payloads \cup {NoPayload}]
    /\ head = (tail + count) % MaxEntries
    /\ \A n \in Indices : Entry(n) # NoPayload <=> n < count

(* The abstract queue this one implements.                                  *)
Contents == [n \in 1 .. count |-> Entry(n - 1)]
Fifo == INSTANCE DropFifo WITH contents <- Contents, Capacity <- MaxEntries
FifoSpec == Fifo!Spec

(* data_queue.h says that only automationTask uses the queue.  Then the     *)
(* entry that pop() removes is the one that netPostRaw accepted: nothing is *)
(* removed unsent, and nothing sent stays behind.                           *)
PoppedWasPosted ==
    \A t \in Tasks : hand[t] # NoPayload => count > 0 /\ hand[t] = Entry(0)

===============================================================================
