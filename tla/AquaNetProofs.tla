----------------------------- MODULE AquaNetProofs -----------------------------
(***************************************************************************)
(* What the parts of AquaNet do for every value of their bounds.  The ring *)
(* of DataQueue is coherent after any history of calls and implements the  *)
(* drop-oldest FIFO.  The updates never confirm an image that has not      *)
(* reached the server, or select a partition that is being rewritten.  A   *)
(* firmware is checked with its own digest, the list of networks keeps     *)
(* what was saved, and the heater's regulation switches as the water asks. *)
(***************************************************************************)
EXTENDS AquaNet, WellFoundedInduction, TLAPS

-----------------------------------------------------------------------------
(* The RAM queue (DataQueue).                                               *)


(* The constructor clamps the capacity.                                     *)
LEMMA EntriesRange == MaxEntries \in 1 .. 5
  BY SizeAssumption DEF MaxEntries

(* Walking the ring: the remainder stays in it, and steps of the walk add.  *)
LEMMA Ring ==
  ASSUME NEW i \in Indices, NEW n \in 0 .. MaxEntries
  PROVE  /\ Successor(i) \in Indices
         /\ (i + n) % MaxEntries \in Indices
         /\ (Successor(i) + n) % MaxEntries = (i + n + 1) % MaxEntries
         /\ Successor((i + n) % MaxEntries) = (i + n + 1) % MaxEntries
         /\ (i + MaxEntries) % MaxEntries = i
         /\ i % MaxEntries = i
         /\ n < MaxEntries /\ n > 0 => (i + n) % MaxEntries # i
<1> DEFINE M == MaxEntries
<1>1. M = 1 \/ M = 2 \/ M = 3 \/ M = 4 \/ M = 5
  BY EntriesRange
<1>2. i \in Nat /\ n \in Nat /\ i < M /\ n <= M
  BY EntriesRange DEF Indices
<1>3. CASE M = 1
  BY <1>2, <1>3 DEF Indices, Successor
<1>4. CASE M = 2
  BY <1>2, <1>4 DEF Indices, Successor
<1>5. CASE M = 3
  BY <1>2, <1>5 DEF Indices, Successor
<1>6. CASE M = 4
  BY <1>2, <1>6 DEF Indices, Successor
<1>7. CASE M = 5
  BY <1>2, <1>7 DEF Indices, Successor
<1> QED BY <1>1, <1>3, <1>4, <1>5, <1>6, <1>7


(* Two different steps from the same place end in different places.         *)
LEMMA RingInjective ==
  ASSUME NEW i \in Indices, NEW n \in Indices, NEW m \in Indices,
         (i + n) % MaxEntries = (i + m) % MaxEntries
  PROVE  n = m
<1> DEFINE M == MaxEntries
<1>1. M = 1 \/ M = 2 \/ M = 3 \/ M = 4 \/ M = 5
  BY EntriesRange
<1>2. /\ i \in Nat /\ n \in Nat /\ m \in Nat
      /\ i < M /\ n < M /\ m < M
  BY EntriesRange DEF Indices
<1>3. CASE M = 1
  BY <1>2, <1>3
<1>4. CASE M = 2
  BY <1>2, <1>4
<1>5. CASE M = 3
  BY <1>2, <1>5
<1>6. CASE M = 4
  BY <1>2, <1>6
<1>7. CASE M = 5
  BY <1>2, <1>7
<1> QED BY <1>1, <1>3, <1>4, <1>5, <1>6, <1>7

(* The new queue is empty and coherent.                                     *)
LEMMA InitRing == Init => RingOK
<1> SUFFICES ASSUME Init PROVE RingOK
  OBVIOUS
<1>1. 0 \in Indices /\ 0 \in 0 .. MaxEntries
  BY EntriesRange DEF Indices
<1>2. 0 % MaxEntries = 0
  BY <1>1, Ring
<1>3. ASSUME NEW n \in Indices PROVE Entry(n) = NoPayload /\ ~(n < count)
  <2>1. n \in 0 .. MaxEntries
    BY EntriesRange DEF Indices
  <2>2. (tail + n) % MaxEntries \in Indices
    BY <1>1, <2>1, Ring DEF Init
  <2> QED BY <2>1, <2>2 DEF Init, Entry
<1>4. 0 + 0 = 0
  OBVIOUS
<1> QED BY <1>1, <1>2, <1>3, <1>4 DEF Init, RingOK

(* What an accepted push does to the entries.                               *)
LEMMA PushEntries ==
  ASSUME RingOK, NEW t \in Tasks, NEW p \in Payloads, Push(t, p)
  PROVE  /\ RingOK'
         /\ count < MaxEntries =>
              /\ count' = count + 1
              /\ \A n \in 0 .. count : Entry(n)' = IF n = count THEN p
                                                   ELSE Entry(n)
         /\ count = MaxEntries =>
              /\ count' = MaxEntries
              /\ Entry(MaxEntries - 1)' = p
              /\ \A n \in 0 .. MaxEntries - 2 : Entry(n)' = Entry(n + 1)
<1> DEFINE At(n) == (tail + n) % MaxEntries
<1>1. /\ MaxEntries \in Nat \ {0}
      /\ \A n \in Indices : n \in Nat /\ n < MaxEntries
      /\ \A n \in Nat : n < MaxEntries => n \in Indices
  BY EntriesRange DEF Indices
<1>2. /\ storage \in [Indices -> Payloads \cup {NoPayload}]
      /\ head \in Indices /\ tail \in Indices
      /\ count \in Nat /\ count <= MaxEntries
      /\ head = At(count)
      /\ \A n \in Indices : Entry(n) # NoPayload <=> n < count
  BY <1>1 DEF RingOK
<1>3. /\ storage' = [storage EXCEPT ![head] = p]
      /\ head' = Successor(head) /\ hand' = hand
  BY DEF Push
<1>4. /\ head' \in Indices
      /\ storage' \in [Indices -> Payloads \cup {NoPayload}]
      /\ hand' \in [Tasks -> Payloads \cup {NoPayload}]
  <2>1. 0 \in 0 .. MaxEntries
    BY <1>1
  <2>2. head' \in Indices
    BY <1>2, <1>3, <2>1, Ring
  <2>3. storage' \in [Indices -> Payloads \cup {NoPayload}]
    BY <1>2, <1>3
  <2> QED BY <2>2, <2>3, <1>3 DEF RingOK
<1>5. ASSUME NEW n \in Indices
      PROVE  /\ At(n) \in Indices
             /\ storage'[At(n)] = IF At(n) = head THEN p ELSE storage[At(n)]
  <2>1. n \in 0 .. MaxEntries
    BY <1>1
  <2>2. At(n) \in Indices
    BY <1>2, <2>1, Ring
  <2> QED BY <1>2, <1>3, <2>2
<1>6. CASE count < MaxEntries
  <2>1. tail' = tail /\ count' = count + 1
    BY <1>6, <1>2, <1>1 DEF Push
  <2>2. ASSUME NEW n \in Indices, n # count PROVE At(n) # head
    BY <1>1, <1>2, <1>6, <2>2, RingInjective
  <2>3. ASSUME NEW n \in Indices
        PROVE  Entry(n)' = IF n = count THEN p ELSE Entry(n)
    BY <2>1, <2>2, <1>5, <1>2 DEF Entry
  <2>4. head' = (tail' + count') % MaxEntries
    <3>1. count \in 0 .. MaxEntries
      BY <1>1, <1>2
    <3>2. Successor(At(count)) = (tail + count + 1) % MaxEntries
      BY <3>1, <1>2, Ring
    <3>3. tail + count + 1 = tail + (count + 1)
      BY <1>1, <1>2
    <3> QED BY <3>2, <3>3, <2>1, <1>2, <1>3
  <2>5. \A n \in Indices : Entry(n)' # NoPayload <=> n < count'
    BY <2>1, <2>3, <1>1, <1>2, PayloadAssumption
  <2>6. RingOK'
    BY <2>1, <2>4, <2>5, <1>4, <1>2, <1>6, <1>1 DEF RingOK
  <2>7. \A n \in 0 .. count : n \in Indices
    BY <1>1, <1>2, <1>6
  <2> QED BY <2>1, <2>3, <2>6, <2>7, <1>6, <1>1, <1>2
<1>7. CASE count = MaxEntries
  <2>1. tail' = Successor(tail) /\ count' = MaxEntries
    BY <1>7, <1>1 DEF Push
  <2>2. head = tail
    <3>1. MaxEntries \in 0 .. MaxEntries
      BY <1>1
    <3> QED BY <1>2, <1>7, <3>1, Ring
  <2>3. ASSUME NEW n \in Indices
        PROVE  /\ (tail' + n) % MaxEntries = (tail + n + 1) % MaxEntries
               /\ tail + n + 1 = tail + (n + 1)
               /\ n + 1 < MaxEntries => n + 1 \in Indices /\ At(n + 1) # tail
               /\ n + 1 = MaxEntries => At(n + 1) = tail
    <3>1. n \in 0 .. MaxEntries /\ n + 1 \in 0 .. MaxEntries /\ n + 1 > 0
      BY <1>1
    <3>2. (tail' + n) % MaxEntries = (tail + n + 1) % MaxEntries
      BY <3>1, <2>1, <1>2, Ring
    <3>3. n + 1 < MaxEntries => At(n + 1) # tail
      BY <3>1, <1>2, Ring
    <3>4. n + 1 = MaxEntries => At(n + 1) = tail
      BY <3>1, <1>2, Ring
    <3>5. tail + n + 1 = tail + (n + 1)
      BY <1>1, <1>2
    <3> QED BY <3>2, <3>3, <3>4, <3>5, <3>1, <1>1
  <2>4. ASSUME NEW n \in Indices, n + 1 < MaxEntries
        PROVE  Entry(n)' = Entry(n + 1)
    BY <2>3, <2>4, <2>2, <1>5 DEF Entry
  <2>5. ASSUME NEW n \in Indices, n + 1 = MaxEntries PROVE Entry(n)' = p
    BY <2>3, <2>5, <2>2, <1>2, <1>3 DEF Entry
  <2>6. ASSUME NEW n \in Indices PROVE Entry(n)' # NoPayload
    <3>1. n + 1 < MaxEntries \/ n + 1 = MaxEntries
      BY <1>1
    <3> QED BY <3>1, <2>4, <2>5, <1>1, <1>2, <1>7, PayloadAssumption
  <2>7. tail' \in Indices /\ head' = (tail' + count') % MaxEntries
    <3>1. 0 \in 0 .. MaxEntries
      BY <1>1
    <3>2. tail' \in Indices
      BY <2>1, <1>2, <3>1, Ring
    <3>3. (tail' + MaxEntries) % MaxEntries = tail'
      BY <3>1, <3>2, Ring
    <3> QED BY <3>2, <3>3, <2>1, <2>2, <1>3
  <2>8. RingOK'
    BY <2>1, <2>6, <2>7, <1>1, <1>4 DEF RingOK
  <2>9. /\ MaxEntries - 1 \in Indices /\ (MaxEntries - 1) + 1 = MaxEntries
        /\ \A n \in 0 .. MaxEntries - 2 : n \in Indices /\ n + 1 < MaxEntries
    BY <1>1
  <2> QED BY <2>1, <2>4, <2>5, <2>8, <2>9, <1>7, <1>1
<1> QED BY <1>2, <1>6, <1>7, <1>1

(* What a pop does to the entries.                                          *)
LEMMA PopEntries ==
  ASSUME RingOK, NEW t \in Tasks, Pop(t)
  PROVE  /\ RingOK'
         /\ count > 0 =>
              /\ count' = count - 1
              /\ \A n \in 0 .. count - 2 : Entry(n)' = Entry(n + 1)
         /\ count = 0 => UNCHANGED <<storage, tail, count>>
<1> DEFINE At(n) == (tail + n) % MaxEntries
<1>1. /\ MaxEntries \in Nat \ {0}
      /\ \A n \in Indices : n \in Nat /\ n < MaxEntries
      /\ \A n \in Nat : n < MaxEntries => n \in Indices
  BY EntriesRange DEF Indices
<1>2. /\ storage \in [Indices -> Payloads \cup {NoPayload}]
      /\ head \in Indices /\ tail \in Indices
      /\ count \in Nat /\ count <= MaxEntries
      /\ head = At(count)
      /\ \A n \in Indices : Entry(n) # NoPayload <=> n < count
      /\ hand \in [Tasks -> Payloads \cup {NoPayload}]
  BY <1>1 DEF RingOK
<1>3. head' = head /\ hand' = [hand EXCEPT ![t] = NoPayload]
  BY DEF Pop
<1>4. hand' \in [Tasks -> Payloads \cup {NoPayload}]
  BY <1>2, <1>3
<1>5. CASE count > 0
  <2>1. /\ storage' = [storage EXCEPT ![tail] = NoPayload]
        /\ tail' = Successor(tail) /\ count' = count - 1
    BY <1>5 DEF Pop
  <2>2. storage' \in [Indices -> Payloads \cup {NoPayload}]
    BY <2>1, <1>2
  <2>3. tail' \in Indices
    <3>1. 0 \in 0 .. MaxEntries
      BY <1>1
    <3> QED BY <3>1, <2>1, <1>2, Ring
  <2>4. ASSUME NEW n \in Indices
        PROVE  /\ (tail' + n) % MaxEntries = At(n + 1)
               /\ At(n + 1) \in Indices
               /\ n + 1 < MaxEntries => At(n + 1) # tail
               /\ n + 1 = MaxEntries => At(n + 1) = tail
    <3>1. n \in 0 .. MaxEntries /\ n + 1 \in 0 .. MaxEntries /\ n + 1 > 0
      BY <1>1
    <3>2. (tail' + n) % MaxEntries = (tail + n + 1) % MaxEntries
      BY <3>1, <2>1, <1>2, Ring
    <3>3. tail + n + 1 = tail + (n + 1)
      BY <1>1, <1>2
    <3>4. At(n + 1) \in Indices /\ (n + 1 < MaxEntries => At(n + 1) # tail)
      BY <3>1, <1>2, Ring
    <3>5. n + 1 = MaxEntries => At(n + 1) = tail
      BY <3>1, <1>2, Ring
    <3> QED BY <3>2, <3>3, <3>4, <3>5
  <2>5. ASSUME NEW n \in Indices, n + 1 < MaxEntries
        PROVE  Entry(n)' = Entry(n + 1)
    BY <2>4, <2>5, <2>1, <1>2 DEF Entry
  <2>6. ASSUME NEW n \in Indices, n + 1 = MaxEntries PROVE Entry(n)' = NoPayload
    BY <2>4, <2>6, <2>1, <1>2 DEF Entry
  <2>7. ASSUME NEW n \in Indices PROVE Entry(n)' # NoPayload <=> n < count'
    <3>1. CASE n + 1 < MaxEntries
      BY <3>1, <2>5, <2>1, <1>1, <1>2
    <3>2. CASE n + 1 = MaxEntries
      BY <3>2, <2>6, <2>1, <1>1, <1>2
    <3> QED BY <3>1, <3>2, <1>1
  <2>8. head' = (tail' + count') % MaxEntries
    <3>1. count - 1 \in Indices /\ (count - 1) + 1 = count
      BY <1>1, <1>2, <1>5
    <3> QED BY <3>1, <2>1, <2>4, <1>2, <1>3
  <2>9. RingOK'
    BY <2>1, <2>2, <2>3, <2>7, <2>8, <1>1, <1>2, <1>3, <1>4, <1>5 DEF RingOK
  <2>10. \A n \in 0 .. count - 2 : n \in Indices /\ n + 1 < MaxEntries
    BY <1>1, <1>2
  <2> QED BY <2>1, <2>5, <2>9, <2>10, <1>5
<1>6. CASE count = 0
  <2>1. UNCHANGED <<storage, tail, count>>
    BY <1>6 DEF Pop
  <2>2. RingOK'
    BY <2>1, <1>3, <1>4 DEF RingOK, Entry
  <2> QED BY <2>1, <2>2, <1>6
<1> QED BY <1>2, <1>5, <1>6


(* Every step of the tasks keeps the ring coherent.                         *)
LEMMA StepRing == RingOK /\ [Next]_vars => RingOK'
<1> SUFFICES ASSUME RingOK, [Next]_vars PROVE RingOK'
  OBVIOUS
<1>1. CASE UNCHANGED vars
  BY <1>1 DEF vars, RingOK, Entry
<1>2. ASSUME NEW t \in Tasks, NEW p \in Payloads, Push(t, p) PROVE RingOK'
  BY <1>2, PushEntries
<1>3. ASSUME NEW t \in Tasks, Peek(t) PROVE RingOK'
  <2>1. tail \in Indices /\ storage[tail] \in Payloads \cup {NoPayload}
    BY DEF RingOK
  <2>2. hand' \in [Tasks -> Payloads \cup {NoPayload}]
    BY <1>3, <2>1 DEF Peek, RingOK
  <2>3. UNCHANGED <<storage, head, tail, count>>
    BY <1>3 DEF Peek
  <2> QED BY <2>2, <2>3 DEF RingOK, Entry
<1>4. ASSUME NEW t \in Tasks, Refused(t) PROVE RingOK'
  <2>1. hand' \in [Tasks -> Payloads \cup {NoPayload}]
    BY <1>4 DEF Refused, RingOK
  <2>2. UNCHANGED <<storage, head, tail, count>>
    BY <1>4 DEF Refused
  <2> QED BY <2>1, <2>2 DEF RingOK, Entry
<1>5. ASSUME NEW t \in Tasks, Pop(t) PROVE RingOK'
  BY <1>5, PopEntries
<1> QED BY <1>1, <1>2, <1>3, <1>4, <1>5 DEF Next

(* After any calls of any tasks, each call taken as one step, the ring is   *)
(* coherent: data_queue.cpp never counts a cleared entry or skips a stored  *)
(* one.                                                                     *)
THEOREM RingCorrect == Spec => []RingOK
<1>1. Init => RingOK
  BY InitRing
<1>2. RingOK /\ [Next]_vars => RingOK'
  BY StepRing
<1> QED BY <1>1, <1>2, PTL DEF Spec

-----------------------------------------------------------------------------
ContentsOK ==
  /\ Contents \in Seq(Payloads) /\ Len(Contents) = count
  /\ \A n \in 1 .. count : Contents[n] = Entry(n - 1)

(* The abstract queue is a sequence of count payloads.                      *)
LEMMA ContentsFacts == RingOK => ContentsOK
<1> SUFFICES ASSUME RingOK PROVE ContentsOK
  OBVIOUS
<1>1. MaxEntries \in Nat \ {0} /\ count \in Nat /\ count <= MaxEntries
  BY EntriesRange DEF RingOK
<1>2. ASSUME NEW n \in 1 .. count PROVE Entry(n - 1) \in Payloads
  <2>1. n - 1 \in Indices /\ n - 1 < count /\ n - 1 \in 0 .. MaxEntries
    BY <1>1 DEF Indices
  <2>2. Entry(n - 1) # NoPayload
    BY <2>1 DEF RingOK
  <2>3. (tail + (n - 1)) % MaxEntries \in Indices
    BY <2>1, Ring DEF RingOK
  <2>4. Entry(n - 1) \in Payloads \cup {NoPayload}
    BY <2>3 DEF RingOK, Entry
  <2> QED BY <2>2, <2>4
<1>3. Contents \in [1 .. count -> Payloads]
  BY <1>2 DEF Contents
<1> QED BY <1>1, <1>3 DEF Contents, ContentsOK

(* Two sequences with the same entries are the same.                        *)
LEMMA SameEntries ==
  ASSUME NEW s \in Seq(Payloads), NEW r \in Seq(Payloads), Len(s) = Len(r),
         \A n \in 1 .. Len(s) : s[n] = r[n]
  PROVE  s = r
OBVIOUS

(* A push on the ring is a push on the FIFO.                                *)
LEMMA PushRefines ==
  ASSUME RingOK, NEW t \in Tasks, NEW p \in Payloads, Push(t, p)
  PROVE  Fifo!Push(p)
<1>1. RingOK' /\ ContentsOK /\ ContentsOK'
  <2>1. RingOK'
    BY PushEntries
  <2>2. ContentsOK
    BY ContentsFacts
  <2>3. ContentsOK'
    BY <2>1, ContentsFacts, PTL
  <2> QED BY <2>1, <2>2, <2>3
<1>2. MaxEntries \in Nat \ {0} /\ count \in Nat /\ count <= MaxEntries
  BY EntriesRange DEF RingOK
<1> DEFINE new == Append(IF Len(Contents) < MaxEntries THEN Contents
                         ELSE Tail(Contents), p)
<1>3. Contents' \in Seq(Payloads) /\ Len(Contents') = count'
  BY <1>1 DEF ContentsOK
<1>4. Contents' = new
  <2>1. CASE count < MaxEntries
    <3>1. new = Append(Contents, p) /\ new \in Seq(Payloads)
          /\ Len(new) = count + 1 /\ count' = count + 1
      BY <2>1, <1>1, PushEntries DEF ContentsOK
    <3>2. ASSUME NEW n \in 1 .. count + 1 PROVE Contents'[n] = new[n]
      <4>1. Contents'[n] = Entry(n - 1)'
        BY <3>1, <1>1 DEF ContentsOK
      <4>2. n - 1 \in 0 .. count
        BY <1>2
      <4>3. Entry(n - 1)' = IF n - 1 = count THEN p ELSE Entry(n - 1)
        BY <2>1, <4>2, PushEntries
      <4>4. n = count + 1 => new[n] = p
        BY <3>1, <1>1 DEF ContentsOK
      <4>5. n # count + 1 => new[n] = Contents[n] /\ Contents[n] = Entry(n - 1)
        BY <3>1, <1>1, <1>2 DEF ContentsOK
      <4> HIDE DEF new
      <4>6. CASE n = count + 1
        <5>1. n - 1 = count
          BY <4>6, <1>2
        <5> QED BY <5>1, <4>6, <4>1, <4>3, <4>4
      <4>7. CASE n # count + 1
        <5>1. n - 1 # count
          BY <4>7, <1>2
        <5> QED BY <5>1, <4>7, <4>1, <4>3, <4>5
      <4> QED BY <4>6, <4>7
    <3> HIDE DEF new
    <3> QED BY <3>1, <3>2, <1>3, SameEntries
  <2>2. CASE count = MaxEntries
    <3>1. /\ new = Append(Tail(Contents), p) /\ new \in Seq(Payloads)
          /\ Tail(Contents) \in Seq(Payloads)
          /\ Len(Tail(Contents)) = MaxEntries - 1
          /\ Len(new) = MaxEntries /\ count' = MaxEntries
      BY <2>2, <1>1, <1>2, PushEntries DEF ContentsOK
    <3>2. ASSUME NEW n \in 1 .. MaxEntries PROVE Contents'[n] = new[n]
      <4>1. Contents'[n] = Entry(n - 1)'
        BY <3>1, <1>1 DEF ContentsOK
      <4>2. CASE n = MaxEntries
        <5>1. new[n] = p
          BY <3>1, <4>2
        <5>2. Entry(n - 1)' = p
          BY <4>2, <2>2, PushEntries
        <5> QED BY <4>1, <5>1, <5>2
      <4>3. CASE n < MaxEntries
        <5>1. new[n] = Contents[n + 1]
          BY <3>1, <4>3, <1>1, <1>2, <2>2 DEF ContentsOK
        <5>2. n - 1 \in 0 .. MaxEntries - 2 /\ n + 1 \in 1 .. count
              /\ (n - 1) + 1 = (n + 1) - 1
          BY <4>3, <1>2, <2>2
        <5>3. Entry(n - 1)' = Entry((n - 1) + 1)
          BY <5>2, <2>2, PushEntries
        <5>4. Contents[n + 1] = Entry((n + 1) - 1)
          BY <5>2, <1>1 DEF ContentsOK
        <5> QED BY <4>1, <5>1, <5>2, <5>3, <5>4
      <4> HIDE DEF new
      <4>4. n = MaxEntries \/ n < MaxEntries
        BY <1>2
      <4> QED BY <4>2, <4>3, <4>4
    <3> HIDE DEF new
    <3> QED BY <3>1, <3>2, <1>3, SameEntries
  <2> QED BY <2>1, <2>2, <1>2
<1> QED BY <1>4 DEF Fifo!Push

(* A pop is a pop of the FIFO, or nothing when the ring is empty.           *)
LEMMA PopRefines ==
  ASSUME RingOK, NEW t \in Tasks, Pop(t)
  PROVE  Fifo!Pop \/ UNCHANGED Contents
<1>1. ContentsOK /\ ContentsOK'
  <2>1. RingOK'
    BY PopEntries
  <2>2. ContentsOK
    BY ContentsFacts
  <2>3. ContentsOK'
    BY <2>1, ContentsFacts, PTL
  <2> QED BY <2>2, <2>3
<1>2. MaxEntries \in Nat \ {0} /\ count \in Nat /\ count <= MaxEntries
  BY EntriesRange DEF RingOK
<1>3. CASE count > 0
  <2> DEFINE rest == Tail(Contents)
  <2>1. /\ rest \in Seq(Payloads) /\ Len(rest) = count - 1
        /\ count' = count - 1
        /\ Contents' \in Seq(Payloads) /\ Len(Contents') = count - 1
        /\ Contents # <<>>
    BY <1>1, <1>2, <1>3, PopEntries DEF ContentsOK
  <2>2. ASSUME NEW n \in 1 .. count - 1 PROVE Contents'[n] = rest[n]
    <3>1. Contents'[n] = Entry(n - 1)'
      BY <2>1, <1>1 DEF ContentsOK
    <3>2. n - 1 \in 0 .. count - 2 /\ n + 1 \in 1 .. count
          /\ (n - 1) + 1 = (n + 1) - 1
      BY <1>2
    <3>3. Entry(n - 1)' = Entry((n - 1) + 1)
      BY <3>2, <1>3, PopEntries
    <3>4. Contents[n + 1] = Entry((n + 1) - 1)
      BY <3>2, <1>1 DEF ContentsOK
    <3>5. rest[n] = Contents[n + 1]
      BY <3>2, <1>1, <1>2 DEF ContentsOK
    <3> QED BY <3>1, <3>2, <3>3, <3>4, <3>5
  <2>3. Contents' = rest
    <3> HIDE DEF rest
    <3> QED BY <2>1, <2>2, SameEntries
  <2> QED BY <2>1, <2>3 DEF Fifo!Pop
<1>4. CASE count = 0
  BY <1>4, PopEntries DEF Contents, Entry
<1> QED BY <1>2, <1>3, <1>4

(* The ring implements the drop-oldest FIFO of data_queue.h, whatever the   *)
(* tasks do between its calls.                                              *)
THEOREM RingRefinesFifo == Spec => FifoSpec
<1>1. Init => Fifo!Init
  <2> SUFFICES ASSUME Init PROVE Contents = <<>>
    BY DEF Fifo!Init
  <2>1. ContentsOK
    BY InitRing, ContentsFacts
  <2> QED BY <2>1 DEF Init, ContentsOK
<1>2. RingOK /\ [Next]_vars => [Fifo!Next]_Contents
  <2> SUFFICES ASSUME RingOK, [Next]_vars PROVE Fifo!Next \/ UNCHANGED Contents
    OBVIOUS
  <2>1. CASE UNCHANGED vars
    BY <2>1 DEF vars, Contents, Entry
  <2>2. ASSUME NEW t \in Tasks, NEW p \in Payloads, Push(t, p) PROVE Fifo!Next
    BY <2>2, PushRefines DEF Fifo!Next
  <2>3. ASSUME NEW t \in Tasks, Peek(t) \/ Refused(t) PROVE UNCHANGED Contents
    BY <2>3 DEF Peek, Refused, Contents, Entry
  <2>4. ASSUME NEW t \in Tasks, Pop(t) PROVE Fifo!Next \/ UNCHANGED Contents
    BY <2>4, PopRefines DEF Fifo!Next
  <2> QED BY <2>1, <2>2, <2>3, <2>4 DEF Next
<1> QED BY <1>1, <1>2, RingCorrect, PTL DEF Spec, FifoSpec, Fifo!Spec


-----------------------------------------------------------------------------
(* When one task alone uses the queue, as data_queue.h requires, nothing    *)
(* comes between its peek and its pop: it pops the entry that netPostRaw    *)
(* accepted.                                                                *)
THEOREM PoppedWasPostedCorrect ==
  ASSUME \A t, u \in Tasks : t = u
  PROVE  Spec => []PoppedWasPosted
<1>1. Init => PoppedWasPosted
  BY DEF Init, PoppedWasPosted
<1>2. RingOK /\ PoppedWasPosted /\ [Next]_vars => PoppedWasPosted'
  <2> SUFFICES ASSUME RingOK, PoppedWasPosted, [Next]_vars
               PROVE  PoppedWasPosted'
    OBVIOUS
  <2>1. CASE UNCHANGED vars
    BY <2>1 DEF vars, PoppedWasPosted, Entry
  <2>2. ASSUME NEW t \in Tasks, NEW p \in Payloads, Push(t, p)
        PROVE  PoppedWasPosted'
    BY <2>2 DEF Push, PoppedWasPosted
  <2>3. ASSUME NEW t \in Tasks, Peek(t) PROVE PoppedWasPosted'
    <3>1. \A u \in Tasks : hand'[u] = storage[tail]
      BY <2>3 DEF Peek, RingOK
    <3>2. tail \in Indices /\ 0 \in 0 .. MaxEntries /\ count \in Nat
      BY EntriesRange DEF RingOK
    <3>3. tail \in Nat /\ tail + 0 = tail
      BY <3>2, EntriesRange DEF Indices
    <3>4. (tail + 0) % MaxEntries = tail
      BY <3>2, <3>3, Ring
    <3>5. UNCHANGED <<storage, tail, count>> /\ count > 0
      BY <2>3 DEF Peek
    <3> QED BY <3>1, <3>4, <3>5 DEF PoppedWasPosted, Entry
  <2>4. ASSUME NEW t \in Tasks, Refused(t) \/ Pop(t) PROVE PoppedWasPosted'
    BY <2>4 DEF Refused, Pop, PoppedWasPosted, RingOK
  <2> QED BY <2>1, <2>2, <2>3, <2>4 DEF Next
<1> QED BY <1>1, <1>2, RingCorrect, PTL DEF Spec

-----------------------------------------------------------------------------
(* The updates (Ota): what holds of the image, the contact and the task.   *)


ImageStates == {"valid", "invalid", "new", "pending", "aborted"}
ImageContents == [ver : Nat, st : ImageStates]
CheckerPlaces == {"idle", "checking", "perform", "waiting"}
UpdateStates == {"none", "download", "writing", "written", "verified", "flashed", "fs",
                 "done", "failed"}
ImageRams == [lock : BOOLEAN, upd : UpdateStates,
              pc : [Image!Checkers -> CheckerPlaces], trig : Nat, found : Nat,
         pend : BOOLEAN, healthy : BOOLEAN, safe : BOOLEAN]

OtaType ==
    /\ img \in [Image!Part -> ImageContents]
    /\ bootp \in Image!Part /\ run \in Image!Part
    /\ ram \in ImageRams
    /\ offered \in Nat \ {0}

(* A contact of this boot is one of the version that runs.                  *)
Proven ==
    /\ Image!ValidReached
    /\ ram.healthy => Image!Ver(run) \in good

(* The task rewrites the partition that is not selected, until it has       *)
(* selected it; the version it writes is one the server offered.            *)
Targeted ==
    \/ \E c \in Image!Checkers : ram.pc[c] = "perform"
    \/ ram.upd \in {"download", "writing", "written", "verified"}
Whole ==
    /\ Image!Ver(run) # 0 /\ Image!Ver(bootp) # 0
    /\ bootp = run \/ ram.upd \in {"flashed", "fs", "done"}
    /\ Targeted => ram.found # 0

OtaInv == OtaType /\ Proven /\ Whole

LEMMA OtherPart ==
    ASSUME NEW p \in Image!Part
    PROVE  /\ Image!Other(p) \in Image!Part /\ Image!Other(p) # p
           /\ \A q \in Image!Part : q = p \/ q = Image!Other(p)
BY DEF Image!Part, Image!Other

LEMMA RamStart ==
    ASSUME NEW p \in BOOLEAN, NEW f
    PROVE  /\ Image!Ram(p, f) \in ImageRams
           /\ ~Image!Ram(p, f).healthy /\ Image!Ram(p, f).upd = "none"
           /\ \A c \in Image!Checkers : Image!Ram(p, f).pc[c] = "idle"
<1> DEFINE late == f >= SafeAfter
           idle == [c \in Image!Checkers |-> "idle"]
<1>1. late \in BOOLEAN
  OBVIOUS
<1>2. idle \in [Image!Checkers -> CheckerPlaces] /\ \A c \in Image!Checkers : idle[c] = "idle"
  BY DEF CheckerPlaces
<1>3. Image!Ram(p, f) = [lock |-> FALSE, upd |-> "none", pc |-> idle, trig |-> 0, found |-> 0,
                   pend |-> p, healthy |-> FALSE, safe |-> late]
  BY DEF Image!Ram
<1> HIDE DEF late, idle
<1>4. Image!Ram(p, f) \in ImageRams
  BY <1>1, <1>2, <1>3 DEF ImageRams, UpdateStates
<1> QED BY <1>2, <1>3, <1>4

LEMMA OtaInit == ASSUME MaxVer \in Nat PROVE Image!Init => OtaInv
<1> SUFFICES ASSUME Image!Init PROVE OtaInv
  OBVIOUS
<1>1. /\ ram = Image!Ram(FALSE, 1) /\ bootp = "ota_0" /\ run = "ota_0" /\ 1 \in good
      /\ offered \in 1 .. MaxVer
      /\ img = [p \in Image!Part |-> IF p = "ota_0" THEN [ver |-> 1, st |-> "valid"]
                               ELSE [ver |-> 0, st |-> "invalid"]]
  BY DEF Image!Init
<1>2. offered \in Nat \ {0}
  BY <1>1
<1>3. OtaType
  BY <1>1, <1>2, RamStart DEF OtaType, ImageContents, ImageStates, Image!Part
<1>4. Proven
  BY <1>1, RamStart DEF Proven, Image!ValidReached, Image!Ver, Image!Part
<1>5. Whole
  <2>1. Image!Ver(run) = 1 /\ bootp = run
    BY <1>1 DEF Image!Ver, Image!Part
  <2>2. ram.upd = "none" /\ \A c \in Image!Checkers : ram.pc[c] = "idle"
    BY <1>1, RamStart
  <2>3. ~Targeted
    BY <2>2 DEF Targeted
  <2> QED BY <2>1, <2>3 DEF Whole
<1> QED BY <1>3, <1>4, <1>5 DEF OtaInv

(* A reset confirms nothing and starts a whole image. *)
LEMMA BootKeeps ==
    ASSUME OtaInv, NEW i \in [Image!Part -> ImageContents], Image!Boot(i), UNCHANGED good,
           offered' \in Nat \ {0},
           \A p \in Image!Part :
              i[p].ver = Image!Ver(p) /\ (i[p].st = "valid" => Image!Ver(p) \in good)
    PROVE  OtaInv'
<1> DEFINE p == Image!Started(i)
<1>1. /\ run' = p /\ bootp' = p
      /\ img' = [q \in Image!Part |->
                   IF q \in {p, bootp} THEN [i[q] EXCEPT !.st = Image!Seen(@)] ELSE i[q]]
      /\ \E b \in BOOLEAN : \E f : ram' = Image!Ram(b, f)
  BY Zenon DEF Image!Boot
<1>2. p \in Image!Part /\ i[p].ver # 0
  BY OtherPart DEF Image!Started, OtaInv, OtaType, Whole
<1> HIDE DEF p
<1>3. \A s \in ImageStates : Image!Seen(s) \in ImageStates /\ (Image!Seen(s) = "valid" => s = "valid")
  BY DEF Image!Seen, ImageStates
<1>4. /\ img' \in [Image!Part -> ImageContents]
      /\ \A q \in Image!Part : img'[q].ver = i[q].ver /\ (img'[q].st = "valid" => i[q].st = "valid")
  BY <1>1, <1>3 DEF ImageContents
<1>5. /\ ram' \in ImageRams /\ ~ram'.healthy /\ ram'.upd = "none"
      /\ \A c \in Image!Checkers : ram'.pc[c] = "idle"
  BY <1>1, RamStart
<1>6. OtaType'
  BY <1>1, <1>2, <1>4, <1>5 DEF OtaType
<1>7. Proven'
  BY <1>4, <1>5 DEF Proven, Image!ValidReached, Image!Ver
<1>8. Whole'
  BY <1>1, <1>2, <1>4, <1>5 DEF Whole, Targeted, Image!Ver
<1> QED BY <1>6, <1>7, <1>8 DEF OtaInv

(* Steps that leave the partitions alone and make nothing of a task. *)
LEMMA RamKeeps ==
    ASSUME OtaInv, ram' \in ImageRams, UNCHANGED <<img, bootp, run, good>>,
           offered' \in Nat \ {0},
           ram'.healthy => ram.healthy \/ Image!Ver(run) \in good,
           Targeted' => ram'.found # 0,
           ram.upd \in {"flashed", "fs", "done"} => ram'.upd \in {"flashed", "fs", "done"}
    PROVE  OtaInv'
BY DEF OtaInv, OtaType, Proven, Image!ValidReached, Whole, Image!Ver

LEMMA Confirming ==
    ASSUME OtaInv
    PROVE  /\ Image!Validated \in [Image!Part -> ImageContents]
           /\ \A p \in Image!Part : /\ Image!Validated[p].ver = Image!Ver(p)
                                    /\ Image!Validated[p].st = "valid" => Image!Ver(p) \in good
<1>1. img \in [Image!Part -> ImageContents] /\ run \in Image!Part
  BY DEF OtaInv, OtaType
<1>2. Image!Confirmed => Image!Ver(run) \in good
  BY DEF Image!Confirmed, OtaInv, Proven
<1>3. \A p \in Image!Part : img[p].st = "valid" => Image!Ver(p) \in good
  BY DEF OtaInv, Proven, Image!ValidReached
<1> QED BY <1>1, <1>2, <1>3 DEF Image!Validated, ImageContents, ImageStates, Image!Ver

(* The steps of a checker: a command that resets afterwards starts again.   *)
LEMMA CheckKeeps ==
    ASSUME OtaInv, NEW c \in Image!Checkers, Image!Check(c)
    PROVE  OtaInv'
<1>1. ram \in ImageRams /\ offered \in Nat \ {0} /\ (Targeted => ram.found # 0)
  BY DEF OtaInv, OtaType, Whole
<1>2. ASSUME Image!Boot(Image!Validated), UNCHANGED Image!world PROVE OtaInv'
  BY <1>1, <1>2, Confirming, BootKeeps DEF Image!world
<1>3. CASE Image!NoUpdate(c)
  <2>1. CASE ram' = [ram EXCEPT !.pc[c] = "idle"] /\ UNCHANGED <<Image!flash, Image!world>>
    <3>1. /\ ram' \in ImageRams /\ ram'.upd = ram.upd /\ ram'.found = ram.found
          /\ ram'.healthy = ram.healthy
          /\ \A d \in Image!Checkers : ram'.pc[d] \in {ram.pc[d], "idle"}
      BY <1>1, <2>1 DEF ImageRams, CheckerPlaces
    <3>2. Targeted' => Targeted
      BY <3>1 DEF Targeted
    <3> QED BY <1>1, <2>1, <3>1, <3>2, RamKeeps DEF Image!flash, Image!world
  <2> QED BY <1>2, <1>3, <2>1 DEF Image!NoUpdate
<1>4. CASE Image!Found(c)
  <2>1. /\ ram' = [ram EXCEPT !.lock = TRUE, !.found = offered, !.pc[c] = "perform"]
        /\ UNCHANGED <<Image!flash, Image!world>>
    BY <1>4 DEF Image!Found
  <2>2. /\ ram' \in ImageRams /\ ram'.upd = ram.upd /\ ram'.found = offered
        /\ ram'.healthy = ram.healthy
    BY <1>1, <2>1 DEF ImageRams, CheckerPlaces
  <2> QED BY <1>1, <2>1, <2>2, RamKeeps DEF Image!flash, Image!world
<1>5. CASE Image!PerformStarts(c)
  <2>1. /\ ram.pc[c] = "perform" /\ ram.upd = "none"
        /\ UNCHANGED <<Image!flash, Image!world>>
        /\ ram' = [ram EXCEPT !.upd = "download",
                              !.pc[c] = IF c = "gpio" THEN "idle" ELSE "waiting"]
    BY <1>5 DEF Image!PerformStarts, Image!Free
  <2>2. /\ ram' \in ImageRams /\ ram'.found = ram.found /\ ram'.healthy = ram.healthy
    BY <1>1, <2>1 DEF ImageRams, CheckerPlaces, UpdateStates
  <2>3. Targeted
    BY <2>1 DEF Targeted
  <2> QED BY <1>1, <2>1, <2>2, <2>3, RamKeeps DEF Image!flash, Image!world
<1>6. CASE Image!PerformRefused(c)
  <2>1. CASE /\ ram' = [ram EXCEPT !.lock = IF Image!Free THEN FALSE ELSE @, !.pc[c] = "waiting"]
             /\ UNCHANGED <<Image!flash, Image!world>>
    <3>1. /\ ram' \in ImageRams /\ ram'.upd = ram.upd /\ ram'.found = ram.found
          /\ ram'.healthy = ram.healthy
          /\ \A d \in Image!Checkers : ram'.pc[d] \in {ram.pc[d], "waiting"}
      BY <1>1, <2>1 DEF ImageRams, CheckerPlaces
    <3>2. Targeted' => Targeted
      BY <3>1 DEF Targeted
    <3> QED BY <1>1, <2>1, <3>1, <3>2, RamKeeps DEF Image!flash, Image!world
  <2> QED BY <1>2, <1>6, <2>1 DEF Image!PerformRefused
<1> QED BY <1>3, <1>4, <1>5, <1>6 DEF Image!Check

(* The other steps that only change what is in RAM. *)
LEMMA QuietKeeps ==
    ASSUME OtaInv,
           Image!Contact \/ Image!Trigger \/ Image!OtaWakes \/ Image!OtaWaited
                   \/ Image!Written \/ Image!Verified
                   \/ Image!Failed \/ Image!TaskEnds \/ Image!FsErased \/ Image!FsEnds
    PROVE  OtaInv'
<1>1. ram \in ImageRams /\ offered \in Nat \ {0} /\ (Targeted => ram.found # 0)
  BY DEF OtaInv, OtaType, Whole
<1>2. UNCHANGED <<img, bootp, run, good, offered>>
  BY DEF Image!Contact, Image!Trigger, Image!OtaWakes, Image!OtaWaited,
         Image!Written, Image!Verified, Image!Failed, Image!TaskEnds,
         Image!FsErased, Image!FsEnds, Image!flash, Image!world
<1>3. CASE Image!Contact
  <2>1. ram' \in ImageRams /\ ram'.upd = ram.upd /\ ram'.found = ram.found /\ ram'.pc = ram.pc
        /\ Image!Ver(run) \in good
    BY <1>1, <1>3 DEF Image!Contact, ImageRams
  <2> QED BY <1>1, <1>2, <2>1, RamKeeps DEF Targeted
<1>4. CASE Image!Trigger
  <2>1. ram' \in ImageRams /\ ram'.upd = ram.upd /\ ram'.found = ram.found /\ ram'.pc = ram.pc
        /\ ram'.healthy = ram.healthy
    BY <1>1, <1>4 DEF Image!Trigger, ImageRams
  <2> QED BY <1>1, <1>2, <2>1, RamKeeps DEF Targeted
<1>5. CASE Image!OtaWakes \/ Image!OtaWaited
  <2>1. /\ ram' \in ImageRams /\ ram'.upd = ram.upd /\ ram'.found = ram.found
        /\ ram'.healthy = ram.healthy
        /\ \A d \in Image!Checkers : ram'.pc[d] \in {ram.pc[d], "idle", "checking"}
    <3>1. CASE Image!OtaWakes
      <4>1. PICK open \in BOOLEAN :
               ram' = [ram EXCEPT !.trig = IF @ > 0 THEN @ - 1 ELSE 0,
                                  !.pc["ota"] = IF open THEN "checking" ELSE "idle"]
        BY <3>1 DEF Image!OtaWakes
      <4>2. PICK t \in Nat, place \in CheckerPlaces :
               /\ ram' = [ram EXCEPT !.trig = t, !.pc["ota"] = place]
               /\ place \in {"idle", "checking"}
        <5>1. (IF ram.trig > 0 THEN ram.trig - 1 ELSE 0) \in Nat
          BY <1>1 DEF ImageRams
        <5> QED BY <4>1, <5>1 DEF CheckerPlaces
      <4> QED BY <1>1, <4>2 DEF ImageRams, Image!Checkers
    <3>2. CASE Image!OtaWaited
      BY <1>1, <3>2 DEF Image!OtaWaited, ImageRams, CheckerPlaces, Image!Checkers
    <3> QED BY <1>5, <3>1, <3>2
  <2>2. Targeted' => Targeted
    BY <2>1 DEF Targeted
  <2> QED BY <1>1, <1>2, <2>1, <2>2, RamKeeps
<1>6. CASE Image!Written \/ Image!Verified \/ Image!Failed \/ Image!TaskEnds
  <2>1. /\ ram' \in ImageRams /\ ram'.found = ram.found /\ ram'.pc = ram.pc
        /\ ram'.healthy = ram.healthy
        /\ ram.upd \in {"download", "writing", "written", "verified", "failed"}
        /\ ram'.upd \in {"written", "verified"} =>
              ram.upd \in {"download", "writing", "written", "verified"}
        /\ ram'.upd \in {"written", "verified", "failed", "none"}
    BY <1>1, <1>6 DEF Image!Written, Image!Verified, Image!Failed, Image!TaskEnds,
       ImageRams, UpdateStates
  <2>2. Targeted' => Targeted
    BY <2>1 DEF Targeted
  <2> QED BY <1>1, <1>2, <2>1, <2>2, RamKeeps
<1>7. CASE Image!FsErased \/ Image!FsEnds
  <2>1. /\ ram' \in ImageRams /\ ram'.found = ram.found /\ ram'.pc = ram.pc
        /\ ram'.healthy = ram.healthy /\ ram'.upd \in {"fs", "done"}
    BY <1>1, <1>7 DEF Image!FsErased, Image!FsEnds, ImageRams, UpdateStates
  <2>2. Targeted' => Targeted
    BY <2>1 DEF Targeted
  <2> QED BY <1>1, <1>2, <2>1, <2>2, RamKeeps
<1> QED BY <1>3, <1>4, <1>5, <1>6, <1>7

(* Update.begin empties the partition that is not selected, and             *)
(* set_boot_partition selects it once it holds the version offered.         *)
LEMMA WriteKeeps ==
    ASSUME OtaInv, Image!Begin \/ Image!Flashed
    PROVE  OtaInv'
<1> DEFINE o == Image!Other(run)
<1>1. /\ ram \in ImageRams /\ offered \in Nat \ {0} /\ (Targeted => ram.found # 0)
      /\ img \in [Image!Part -> ImageContents] /\ run \in Image!Part /\ bootp \in Image!Part
      /\ Image!Ver(run) # 0 /\ Image!Ver(bootp) # 0 /\ Proven
  BY DEF OtaInv, OtaType, Whole
<1>2. o \in Image!Part /\ o # run
  BY <1>1, OtherPart
<1>3. Targeted /\ bootp = run
  BY DEF Image!Begin, Image!Flashed, Targeted, OtaInv, Whole
<1>4. /\ UNCHANGED <<run, good, offered>>
      /\ \/ /\ img' = [img EXCEPT ![o] = [ver |-> 0, st |-> "invalid"]]
            /\ ram' = [ram EXCEPT !.upd = "writing"] /\ bootp' = bootp
         \/ /\ img' = [img EXCEPT ![o] = [ver |-> ram.found, st |-> "new"]]
            /\ ram' = [ram EXCEPT !.upd = "flashed"] /\ bootp' = o
  BY DEF Image!Begin, Image!Flashed, Image!world
<1> HIDE DEF o
<1>5. /\ ram' \in ImageRams /\ ram'.found = ram.found /\ ram'.healthy = ram.healthy
      /\ ram.found \in Nat /\ ram.found # 0
  BY <1>1, <1>3, <1>4 DEF ImageRams, UpdateStates
<1>6. /\ img' \in [Image!Part -> ImageContents] /\ img'[run] = img[run] /\ img'[o].st # "valid"
      /\ \A p \in Image!Part : p # o => img'[p] = img[p]
  BY <1>1, <1>2, <1>4, <1>5 DEF ImageContents, ImageStates
<1>7. OtaType'
  BY <1>1, <1>2, <1>4, <1>5, <1>6 DEF OtaType
<1>8. Proven'
  BY <1>1, <1>4, <1>5, <1>6 DEF Proven, Image!ValidReached, Image!Ver
<1>9. Whole'
  <2>1. bootp' = run' \/ ram'.upd = "flashed"
    BY <1>1, <1>3, <1>4 DEF ImageRams
  <2>2. img'[bootp'].ver # 0
    BY <1>1, <1>2, <1>3, <1>4, <1>5, <1>6 DEF Image!Ver
  <2> QED BY <1>1, <1>4, <1>5, <1>6, <2>1, <2>2 DEF Whole, Image!Ver
<1> QED BY <1>7, <1>8, <1>9 DEF OtaInv

(* The probation: a contact confirms the image that runs, and the deadline  *)
(* gives it up only for one that was confirmed.                             *)
LEMMA TickKeeps ==
    ASSUME OtaInv, Image!Tick
    PROVE  OtaInv'
<1>1. /\ ram \in ImageRams /\ offered \in Nat \ {0} /\ (Targeted => ram.found # 0)
      /\ img \in [Image!Part -> ImageContents] /\ run \in Image!Part /\ bootp \in Image!Part
      /\ Image!Ver(run) # 0 /\ Image!Ver(bootp) # 0 /\ Proven
  BY DEF OtaInv, OtaType, Whole
<1>2. CASE ram' = [ram EXCEPT !.pend = FALSE] /\ UNCHANGED <<bootp, run, Image!world>>
           /\ img' \in {img, Image!Validated}
  <2>1. /\ ram' \in ImageRams /\ ram'.found = ram.found /\ ram'.pc = ram.pc
        /\ ram'.healthy = ram.healthy /\ ram'.upd = ram.upd
    BY <1>1, <1>2 DEF ImageRams
  <2>2. /\ img' \in [Image!Part -> ImageContents]
        /\ \A p \in Image!Part : /\ img'[p].ver = Image!Ver(p)
                                 /\ img'[p].st = "valid" => Image!Ver(p) \in good
    BY <1>1, <1>2, Confirming DEF Proven, Image!ValidReached, Image!Ver
  <2>3. OtaType'
    BY <1>1, <1>2, <2>1, <2>2 DEF OtaType, Image!world
  <2>4. Proven'
    BY <1>1, <1>2, <2>1, <2>2 DEF Proven, Image!ValidReached, Image!Ver, Image!world
  <2>5. Whole'
    BY <1>1, <1>2, <2>1, <2>2 DEF OtaInv, Whole, Targeted, Image!Ver
  <2> QED BY <2>3, <2>4, <2>5 DEF OtaInv
<1>3. ASSUME Image!Ver(Image!Other(run)) # 0, img' = [img EXCEPT ![run].st = "invalid"],
             run' = Image!Other(run), bootp' = Image!Other(run), UNCHANGED Image!world,
             NEW f, ram' = Image!Ram(FALSE, f)
      PROVE  OtaInv'
  <2>1. /\ Image!Other(run) \in Image!Part /\ Image!Other(run) # run
    BY <1>1, OtherPart
  <2>2. /\ img' \in [Image!Part -> ImageContents] /\ \A p \in Image!Part : img'[p].ver = Image!Ver(p)
        /\ \A p \in Image!Part : img'[p].st = "valid" => img[p].st = "valid"
    BY <1>1, <1>3 DEF ImageContents, ImageStates, Image!Ver
  <2>3. /\ ram' \in ImageRams /\ ~ram'.healthy /\ ram'.upd = "none"
        /\ \A c \in Image!Checkers : ram'.pc[c] = "idle"
    BY <1>3, RamStart
  <2>4. OtaType'
    BY <1>1, <1>3, <2>1, <2>2, <2>3 DEF OtaType, Image!world
  <2>5. Proven'
    <3>1. UNCHANGED good
      BY <1>3 DEF Image!world
    <3>2. \A p \in Image!Part : img[p].st = "valid" => img[p].ver \in good
      BY <1>1 DEF Proven, Image!ValidReached, Image!Ver
    <3> QED BY <2>2, <2>3, <3>1, <3>2 DEF Proven, Image!ValidReached, Image!Ver
  <2>6. Whole'
    BY <1>3, <2>1, <2>2, <2>3 DEF Whole, Targeted, Image!Ver
  <2> QED BY <2>4, <2>5, <2>6 DEF OtaInv
<1> QED BY <1>2, <1>3 DEF Image!Tick, Image!TickConfirm, Image!TickDeadline, Image!flash

LEMMA OtaStep == OtaInv /\ [Image!Next]_(Image!vars) => OtaInv'
<1> SUFFICES ASSUME OtaInv, [Image!Next]_(Image!vars) PROVE OtaInv'
  OBVIOUS
<1>1. /\ img \in [Image!Part -> ImageContents] /\ offered \in Nat \ {0} /\ ram \in ImageRams
      /\ \A p \in Image!Part :
            img[p].ver = Image!Ver(p) /\ (img[p].st = "valid" => Image!Ver(p) \in good)
      /\ Targeted => ram.found # 0
  BY DEF OtaInv, OtaType, Proven, Image!ValidReached, Whole, Image!Ver
<1>2. CASE Image!Crash
  BY <1>1, <1>2, BootKeeps DEF Image!Crash
<1>3. CASE Image!Contact \/ Image!Trigger \/ Image!OtaWakes \/ Image!OtaWaited
  BY <1>3, QuietKeeps
<1>4. CASE Image!Tick
  BY <1>4, TickKeeps
<1>5. CASE Image!ResetCommand
  <2>1. CASE Image!Boot(Image!Validated) /\ UNCHANGED <<good, offered, net>>
    BY <1>1, <2>1, Confirming, BootKeeps
  <2>2. CASE UNCHANGED <<Image!flash, ram, good, offered, net>>
    BY <1>1, <2>2, RamKeeps DEF Image!flash, Targeted
  <2>3. CASE ram' = [ram EXCEPT !.pc["gpio"] = "checking"]
             /\ UNCHANGED <<Image!flash, good, offered, net>>
    <3>1. /\ ram' \in ImageRams /\ ram'.upd = ram.upd /\ ram'.found = ram.found
          /\ ram'.healthy = ram.healthy
          /\ \A d \in Image!Checkers : ram'.pc[d] \in {ram.pc[d], "checking"}
      BY <1>1, <2>3 DEF ImageRams, CheckerPlaces, Image!Checkers
    <3>2. Targeted' => Targeted
      BY <3>1 DEF Targeted
    <3> QED BY <1>1, <2>3, <3>1, <3>2, RamKeeps DEF Image!flash
  <2> QED BY <1>5, <2>1, <2>2, <2>3 DEF Image!ResetCommand
<1>6. CASE Image!Update
  <2>1. CASE Image!RestartUpdated
    BY <1>1, <2>1, BootKeeps DEF Image!RestartUpdated, Image!world
  <2> QED BY <1>6, <2>1, QuietKeeps, WriteKeeps DEF Image!Update
<1>7. ASSUME NEW c \in Image!Checkers, Image!Check(c) PROVE OtaInv'
  BY <1>7, CheckKeeps
<1>8. CASE Image!Publish \/ Image!NetTurns
  <2>1. UNCHANGED <<Image!flash, ram, good>> /\ offered' \in Nat \ {0}
    BY <1>1, <1>8 DEF Image!Publish, Image!NetTurns
  <2> QED BY <1>1, <2>1, RamKeeps DEF Image!flash, Targeted
<1>9. CASE UNCHANGED Image!vars
  BY <1>1, <1>9, RamKeeps DEF Image!vars, Targeted
<1> QED BY <1>2, <1>3, <1>4, <1>5, <1>6, <1>7, <1>8, <1>9 DEF Image!Next

-----------------------------------------------------------------------------
(* The list of networks (SavedNets).                                        *)

(* What the web task is about to write.                                     *)
ListJob ==
    \/ job = List!Idle
    \/ \E n \in Names : /\ job = [do |-> "count", to |-> List!Clamped + 1, of |-> n]
                        /\ sNet[List!Clamped] = n
    \/ \E f \in 1 .. sCount : job = [do |-> "copy", from |-> f] /\ sNet[f - 1] = List!None
    \/ \E f \in 1 .. sCount - 1 : /\ job = [do |-> "erase", from |-> f, value |-> sNet[f]]
                                  /\ sNet[f - 1] = sNet[f]

ListInv ==
    /\ sNet \in [List!Slots -> Names \cup {List!None}] /\ sCount \in 0 .. Max + 1
    /\ ListJob
    /\ kept \subseteq Names /\ List!NetsKept

LEMMA ListConstants == Max \in Nat /\ List!None \notin Names
BY NetAssumption DEF List!None

LEMMA Listing ==
    \A n : n \in List!Listed <=> n # List!None /\ \E i \in 0 .. sCount - 1 : sNet[i] = n
BY DEF List!Listed

LEMMA ListingNext ==
    \A n : n \in List!Listed' <=> n # List!None /\ \E i \in 0 .. sCount' - 1 : sNet'[i] = n
BY DEF List!Listed, List!None

LEMMA ListClamped ==
    ASSUME ListInv
    PROVE  /\ List!Clamped \in 0 .. Max /\ List!Clamped <= sCount
           /\ sCount <= Max => List!Clamped = sCount
           /\ sCount > Max => List!Clamped = Max /\ sCount = Max + 1
BY ListConstants DEF ListInv, List!Clamped

LEMMA SaveKeeps ==
    ASSUME ListInv, NEW n \in Names, List!Save(n)
    PROVE  ListInv'
<1>1. /\ sNet \in [List!Slots -> Names \cup {List!None}] /\ sCount \in 0 .. Max + 1
      /\ kept \subseteq Names /\ kept \subseteq List!Listed
      /\ job = List!Idle /\ sCount' = sCount
  BY DEF ListInv, List!NetsKept, List!Save, List!Call
<1>2. /\ List!Clamped \in 0 .. Max /\ List!Clamped <= sCount
      /\ sCount <= Max => List!Clamped = sCount
      /\ sCount > Max => List!Clamped = Max /\ sCount = Max + 1
  BY ListClamped
<1>3. CASE List!Found(n, List!Clamped) # {}
  <2>1. kept' = kept \cup {n} /\ sNet' = sNet /\ job' = job
    BY <1>3 DEF List!Save
  <2>2. n \in List!Listed
    <3>1. \E i \in 0 .. List!Clamped - 1 : sNet[i] = n
      BY <1>3 DEF List!Found
    <3>2. \E i \in 0 .. sCount - 1 : sNet[i] = n
      BY <1>1, <1>2, <3>1, ListConstants
    <3> QED BY <3>2, Listing, ListConstants
  <2>3. List!Listed' = List!Listed
    BY <1>1, <2>1 DEF List!Listed, List!None
  <2>4. ListJob'
    BY <1>1, <2>1 DEF ListJob, List!Idle
  <2> QED BY <1>1, <2>1, <2>2, <2>3, <2>4 DEF ListInv, List!NetsKept, List!None, List!Slots
<1>4. CASE List!Found(n, List!Clamped) = {}
  <2> DEFINE k == List!Clamped
  <2>1. /\ sNet' = [sNet EXCEPT ![k] = n]
        /\ job' = [do |-> "count", to |-> k + 1, of |-> n]
        /\ kept' = kept \ List!PushedOut
    BY <1>4 DEF List!Save
  <2>2. List!Clamped' = k
    BY <1>1 DEF List!Clamped
  <2> HIDE DEF k
  <2>3. k \in List!Slots
    BY <1>2 DEF k, List!Slots
  <2>4. /\ sNet' \in [List!Slots -> Names \cup {List!None}] /\ sNet'[k] = n
        /\ \A i \in List!Slots : i # k => sNet'[i] = sNet[i]
    BY <1>1, <2>1, <2>3
  <2>5. kept' \subseteq List!Listed'
    <3> SUFFICES ASSUME NEW m \in kept' PROVE m \in List!Listed'
      OBVIOUS
    <3>1. m \in kept /\ m \notin List!PushedOut
      BY <2>1
    <3>2. PICK i \in 0 .. sCount - 1 : sNet[i] = m
      BY <1>1, <3>1, Listing
    <3>3. i \in List!Slots /\ i # k
      <4>1. CASE sCount <= Max
        BY <1>1, <1>2, <4>1, ListConstants DEF k, List!Slots
      <4>2. CASE sCount > Max
        <5>1. k = Max /\ i \in 0 .. Max
          BY <1>1, <1>2, <4>2, ListConstants DEF k
        <5>2. sNet[Max] # m
          BY <3>1, <4>2 DEF List!PushedOut
        <5> QED BY <3>2, <5>1, <5>2 DEF List!Slots
      <4> QED BY <1>1, <4>1, <4>2, ListConstants
    <3>4. sNet'[i] = m
      BY <2>4, <3>2, <3>3
    <3>5. m # List!None
      BY <1>1, <3>1, ListConstants
    <3> QED BY <1>1, <3>2, <3>4, <3>5, ListingNext
  <2>6. ListJob'
    <3>1. job' = [do |-> "count", to |-> List!Clamped' + 1, of |-> n] /\ sNet'[List!Clamped'] = n
      BY <2>1, <2>2, <2>4
    <3> QED BY <3>1 DEF ListJob
  <2> QED BY <1>1, <2>1, <2>4, <2>5, <2>6 DEF ListInv, List!NetsKept, List!None, List!Slots
<1> QED BY <1>3, <1>4

LEMMA SaveCountKeeps ==
    ASSUME ListInv, List!SaveCount
    PROVE  ListInv'
<1>1. /\ sNet \in [List!Slots -> Names \cup {List!None}] /\ sCount \in 0 .. Max + 1
      /\ kept \subseteq Names /\ kept \subseteq List!Listed
  BY DEF ListInv, List!NetsKept
<1>2. PICK n \in Names : /\ job = [do |-> "count", to |-> List!Clamped + 1, of |-> n]
                         /\ sNet[List!Clamped] = n
  BY DEF ListInv, ListJob, List!SaveCount, List!Idle
<1>3. /\ sCount' = List!Clamped + 1 /\ kept' = kept \cup {n} /\ job' = List!Idle /\ sNet' = sNet
  BY <1>2 DEF List!SaveCount
<1>4. List!Clamped \in 0 .. Max /\ sCount <= List!Clamped + 1
  BY <1>1, ListClamped, ListConstants
<1>5. kept' \subseteq List!Listed'
  <2> SUFFICES ASSUME NEW m \in kept' PROVE m \in List!Listed'
    OBVIOUS
  <2>1. m # List!None
    BY <1>1, <1>3, ListConstants
  <2>2. \E i \in 0 .. sCount' - 1 : sNet'[i] = m
    <3>1. CASE m = n
      <4>1. List!Clamped \in 0 .. sCount' - 1
        BY <1>3, <1>4, ListConstants
      <4> QED BY <1>2, <1>3, <3>1, <4>1
    <3>2. CASE m \in kept
      <4>1. PICK i \in 0 .. sCount - 1 : sNet[i] = m
        BY <1>1, <3>2, Listing
      <4>2. i \in 0 .. sCount' - 1
        BY <1>1, <1>3, <1>4, ListConstants
      <4> QED BY <1>3, <4>1, <4>2
    <3> QED BY <1>3, <3>1, <3>2
  <2> QED BY <2>1, <2>2, ListingNext
<1>6. sCount' \in 0 .. Max + 1
  BY <1>3, <1>4, ListConstants
<1>7. ListJob'
  BY <1>3 DEF ListJob, List!Idle
<1> QED BY <1>1, <1>3, <1>5, <1>6, <1>7 DEF ListInv, List!NetsKept, List!None, List!Slots

LEMMA LeastOf ==
    ASSUME NEW S \in SUBSET Nat, S # {}
    PROVE  \E m \in S : \A n \in S : m <= n
<1>1. PICK m \in S : \A n \in S : <<n, m>> \notin OpToRel(<, Nat)
  BY NatLessThanWellFounded, WFMin, Zenon
<1>2. \A n \in S : ~(n < m)
  BY <1>1 DEF OpToRel
<1> QED BY <1>2

(* The first of the entries of that name becomes a hole, at which the       *)
(* copying begins.                                                          *)
LEMMA RemoveKeeps ==
    ASSUME ListInv, NEW n \in Names, List!Remove(n)
    PROVE  ListInv'
<1> DEFINE hits == List!Found(n, sCount)
           i == List!First(hits)
<1>1. /\ sNet \in [List!Slots -> Names \cup {List!None}] /\ sCount \in 0 .. Max + 1
      /\ kept \subseteq Names /\ kept \subseteq List!Listed
  BY DEF ListInv, List!NetsKept
<1>2. /\ hits # {} /\ sNet' = [sNet EXCEPT ![i] = List!None]
      /\ job' = [do |-> "copy", from |-> i + 1]
      /\ kept' = kept \ {n} /\ sCount' = sCount
  BY DEF List!Remove
<1>3. i \in 0 .. sCount - 1 /\ sNet[i] = n
  <2>1. hits \subseteq Nat /\ hits # {} /\ \A h \in hits : h \in 0 .. sCount - 1 /\ sNet[h] = n
    BY <1>1, <1>2, ListConstants DEF List!Found
  <2>2. \E h \in hits : \A j \in hits : h <= j
    <3> HIDE DEF hits
    <3> QED BY <2>1, LeastOf
  <2>3. i \in hits
    <3> HIDE DEF hits
    <3> QED BY <2>2 DEF List!First
  <2> QED BY <2>1, <2>3
<1> HIDE DEF hits, i
<1>4. /\ i \in List!Slots /\ i + 1 \in 1 .. sCount /\ i + 1 - 1 = i
  BY <1>1, <1>3, ListConstants DEF List!Slots
<1>5. /\ sNet' \in [List!Slots -> Names \cup {List!None}] /\ sNet'[i] = List!None
      /\ \A j \in List!Slots : j # i => sNet'[j] = sNet[j]
  BY <1>1, <1>2, <1>4
<1>6. kept' \subseteq List!Listed'
  <2> SUFFICES ASSUME NEW m \in kept' PROVE m \in List!Listed'
    OBVIOUS
  <2>1. m \in kept /\ m # n /\ m # List!None
    BY <1>1, <1>2, ListConstants
  <2>2. PICK j \in 0 .. sCount - 1 : sNet[j] = m
    BY <1>1, <2>1, Listing
  <2>3. j \in List!Slots /\ j # i
    BY <1>1, <1>3, <2>1, <2>2, ListConstants DEF List!Slots
  <2>4. sNet'[j] = m
    BY <1>5, <2>2, <2>3
  <2> QED BY <1>2, <2>1, <2>2, <2>4, ListingNext
<1>7. ListJob'
  <2>1. i + 1 \in 1 .. sCount' /\ job' = [do |-> "copy", from |-> i + 1]
        /\ sNet'[i + 1 - 1] = List!None
    BY <1>2, <1>4, <1>5
  <2>2. \E f \in 1 .. sCount' : job' = [do |-> "copy", from |-> f] /\ sNet'[f - 1] = List!None
    <3>1. PICK g \in 1 .. sCount' : g = i + 1
      BY <2>1
    <3>2. job' = [do |-> "copy", from |-> g]
      BY <2>1, <3>1
    <3>3. i \in Nat /\ g - 1 = i
      BY <1>1, <1>3, <3>1
    <3>4. sNet'[g - 1] = List!None
      BY <1>5, <3>3
    <3> QED BY <3>2, <3>4
  <2> QED BY <2>2, Zenon DEF ListJob, List!None
<1> QED BY <1>1, <1>2, <1>5, <1>6, <1>7 DEF ListInv, List!NetsKept, List!None, List!Slots

(* Moving one entry up: written at the hole, then erased behind it.         *)
LEMMA CopyingKeeps ==
    ASSUME ListInv, List!Copying
    PROVE  ListInv'
<1>1. /\ sNet \in [List!Slots -> Names \cup {List!None}] /\ sCount \in 0 .. Max + 1
      /\ kept \subseteq Names /\ kept \subseteq List!Listed /\ kept' = kept
  BY DEF ListInv, List!NetsKept, List!Copying
<1>2. PICK f \in 1 .. sCount : job = [do |-> "copy", from |-> f] /\ sNet[f - 1] = List!None
  BY DEF ListInv, ListJob, List!Copying, List!Idle
<1>3. f \in Nat /\ f - 1 \in List!Slots /\ f + 1 - 1 = f
  BY <1>1, <1>2, ListConstants DEF List!Slots
<1>4. CASE f >= sCount
  <2>1. f = sCount /\ sCount' = sCount - 1 /\ job' = List!Idle /\ sNet' = sNet
    BY <1>1, <1>2, <1>4 DEF List!Copying
  <2>2. sCount' \in 0 .. Max + 1
    BY <1>1, <1>2, <2>1, ListConstants
  <2>3. kept' \subseteq List!Listed'
    <3> SUFFICES ASSUME NEW m \in kept' PROVE m \in List!Listed'
      OBVIOUS
    <3>1. m # List!None
      BY <1>1, ListConstants
    <3>2. PICK j \in 0 .. sCount - 1 : sNet[j] = m
      BY <1>1, Listing
    <3>3. j # sCount - 1
      BY <1>2, <2>1, <3>1, <3>2
    <3>4. j \in 0 .. sCount' - 1
      BY <1>1, <2>1, <3>3
    <3> QED BY <2>1, <3>1, <3>2, <3>4, ListingNext
  <2>4. ListJob'
    BY <2>1 DEF ListJob, List!Idle
  <2> QED BY <1>1, <2>1, <2>2, <2>3, <2>4 DEF ListInv, List!NetsKept, List!None, List!Slots
<1>5. CASE f < sCount /\ sNet[f] = List!None
  <2>1. job' = [do |-> "copy", from |-> f + 1] /\ sNet' = sNet /\ sCount' = sCount
    BY <1>1, <1>2, <1>3, <1>5 DEF List!Copying
  <2>2. List!Listed' = List!Listed
    BY <2>1 DEF List!Listed, List!None
  <2>3. ListJob'
    <3>1. f + 1 \in 1 .. sCount' /\ sNet'[f + 1 - 1] = List!None
      BY <1>1, <1>2, <1>3, <1>5, <2>1
    <3> QED BY <2>1, <3>1 DEF ListJob, List!None
  <2> QED BY <1>1, <2>1, <2>2, <2>3 DEF ListInv, List!NetsKept, List!None, List!Slots
<1>6. CASE f < sCount /\ sNet[f] # List!None
  <2>1. /\ sNet' = [sNet EXCEPT ![f - 1] = sNet[f]]
        /\ job' = [do |-> "erase", from |-> f, value |-> sNet[f]]
        /\ sCount' = sCount
    BY <1>1, <1>2, <1>3, <1>6 DEF List!Copying, List!Copy
  <2>2. f \in List!Slots /\ f # f - 1 /\ f \in 1 .. sCount - 1
    BY <1>1, <1>2, <1>6, ListConstants DEF List!Slots
  <2>3. /\ sNet' \in [List!Slots -> Names \cup {List!None}]
        /\ sNet'[f - 1] = sNet[f] /\ sNet'[f] = sNet[f]
        /\ \A j \in List!Slots : j # f - 1 => sNet'[j] = sNet[j]
    BY <1>1, <1>3, <2>1, <2>2
  <2>4. kept' \subseteq List!Listed'
    <3> SUFFICES ASSUME NEW m \in kept' PROVE m \in List!Listed'
      OBVIOUS
    <3>1. m # List!None
      BY <1>1, ListConstants
    <3>2. PICK j \in 0 .. sCount - 1 : sNet[j] = m
      BY <1>1, Listing
    <3>3. j \in List!Slots /\ j # f - 1
      BY <1>1, <1>2, <3>1, <3>2, ListConstants DEF List!Slots
    <3>4. sNet'[j] = m
      BY <2>3, <3>2, <3>3
    <3> QED BY <2>1, <3>1, <3>2, <3>4, ListingNext
  <2>5. ListJob'
    <3>1. /\ f \in 1 .. sCount' - 1 /\ sNet'[f - 1] = sNet'[f]
          /\ job' = [do |-> "erase", from |-> f, value |-> sNet'[f]]
      BY <2>1, <2>2, <2>3
    <3> QED BY <3>1 DEF ListJob
  <2> QED BY <1>1, <2>1, <2>3, <2>4, <2>5 DEF ListInv, List!NetsKept, List!None, List!Slots
<1> QED BY <1>1, <1>3, <1>4, <1>5, <1>6

LEMMA ErasingKeeps ==
    ASSUME ListInv, List!Erasing
    PROVE  ListInv'
<1>1. /\ sNet \in [List!Slots -> Names \cup {List!None}] /\ sCount \in 0 .. Max + 1
      /\ kept \subseteq Names /\ kept \subseteq List!Listed
      /\ kept' = kept /\ sCount' = sCount
  BY DEF ListInv, List!NetsKept, List!Erasing
<1>2. PICK f \in 1 .. sCount - 1 : /\ job = [do |-> "erase", from |-> f, value |-> sNet[f]]
                                   /\ sNet[f - 1] = sNet[f]
  BY DEF ListInv, ListJob, List!Erasing, List!Idle
<1>3. f \in List!Slots /\ f - 1 \in List!Slots /\ f # f - 1 /\ f + 1 \in 1 .. sCount /\ f + 1 - 1 = f
  BY <1>1, <1>2, ListConstants DEF List!Slots
<1>4. /\ sNet' = [sNet EXCEPT ![f] = List!None, ![f - 1] = sNet[f]]
      /\ job' = [do |-> "copy", from |-> f + 1]
  BY <1>2 DEF List!Erasing
<1>5. /\ sNet' \in [List!Slots -> Names \cup {List!None}]
      /\ sNet'[f] = List!None
      /\ \A j \in List!Slots : j # f => sNet'[j] = sNet[j]
  BY <1>1, <1>2, <1>3, <1>4
<1>6. kept' \subseteq List!Listed'
  <2> SUFFICES ASSUME NEW m \in kept' PROVE m \in List!Listed'
    OBVIOUS
  <2>1. m # List!None
    BY <1>1, ListConstants
  <2>2. PICK j \in 0 .. sCount - 1 : sNet[j] = m
    BY <1>1, Listing
  <2>3. PICK k \in 0 .. sCount - 1 : k # f /\ sNet[k] = m
    <3>1. CASE j = f
      <4>1. f - 1 \in 0 .. sCount - 1
        BY <1>1, <1>2
      <4> QED BY <1>2, <1>3, <2>2, <3>1, <4>1
    <3> QED BY <2>2, <3>1
  <2>4. k \in List!Slots
    BY <1>1, <2>3, ListConstants DEF List!Slots
  <2>5. sNet'[k] = m
    BY <1>5, <2>3, <2>4
  <2> QED BY <1>1, <2>1, <2>3, <2>5, ListingNext
<1>7. ListJob'
  <2>1. f + 1 \in 1 .. sCount' /\ sNet'[f + 1 - 1] = List!None
    BY <1>1, <1>3, <1>5
  <2>2. \E h \in 1 .. sCount' : job' = [do |-> "copy", from |-> h] /\ sNet'[h - 1] = List!None
    <3>1. PICK g \in 1 .. sCount' : g = f + 1
      BY <2>1
    <3>2. job' = [do |-> "copy", from |-> g] /\ sNet'[g - 1] = List!None
      BY <1>4, <2>1, <3>1
    <3> QED BY <3>2
  <2> QED BY <2>2, Zenon DEF ListJob, List!None
<1> QED BY <1>1, <1>5, <1>6, <1>7 DEF ListInv, List!NetsKept, List!None, List!Slots

LEMMA ListStays ==
    ASSUME ListInv, UNCHANGED <<sNet, sCount, kept>>, job' = job \/ job' = List!Idle
    PROVE  ListInv'
<1>1. List!Listed' = List!Listed /\ List!Clamped' = List!Clamped
  BY DEF List!Listed, List!None, List!Clamped
<1>2. ListJob'
  BY <1>1 DEF ListInv, ListJob, List!Idle, List!None
<1> QED BY <1>1, <1>2 DEF ListInv, List!NetsKept, List!None, List!Slots

LEMMA ListStep ==
    ASSUME ListInv, [List!Next]_listVars
    PROVE  ListInv'
<1>1. CASE List!Reset
  BY <1>1, ListStays DEF List!Reset
<1>2. CASE UNCHANGED listVars
  BY <1>2, ListStays DEF listVars
<1> QED BY <1>1, <1>2, SaveKeeps, SaveCountKeeps, RemoveKeeps, CopyingKeeps, ErasingKeeps
        DEF List!Next

LEMMA ListInit == List!Init => ListInv
<1> SUFFICES ASSUME List!Init PROVE ListInv
  OBVIOUS
<1>1. sNet = [i \in List!Slots |-> List!None] /\ sCount = 0 /\ job = List!Idle /\ kept = {}
  BY DEF List!Init
<1>2. 0 \in 0 .. Max + 1
  BY ListConstants
<1> QED BY <1>1, <1>2 DEF ListInv, ListJob, List!NetsKept

-----------------------------------------------------------------------------
(* The choice of an image (Manifest).                                       *)

ChoiceInv == board.env # "none" /\ Choice!DigestOfNode

(* The first node with the address, its own or that of the top level, is    *)
(* the first with an address of its own, if it has one.                     *)
LEMMA SameNode ==
    ASSUME NEW d, NEW b, b.env # "none",
           NEW p, p = Choice!Taken(d, b, "url"), "url" \in d[p], p # Choice!None
    PROVE  Choice!readIntegrityFields(d, b) = Choice!Field(d, p, "digest")
<1> DEFINE s == Choice!Cascade(b)
           offers == {i \in DOMAIN s : Choice!Present(d, s[i])
                                       /\ Choice!Field(d, s[i], "url") # Choice!None}
           owns == {i \in DOMAIN s : Choice!Present(d, s[i]) /\ "url" \in d[s[i]]}
           first(hits) == CHOOSE i \in hits : \A j \in hits : i <= j
<1>1. p = IF offers = {} THEN Choice!None ELSE s[first(offers)]
  BY Zenon DEF Choice!Taken, Choice!FirstOf
<1>2. Choice!readIntegrityFields(d, b)
        = LET node == IF owns = {} THEN Choice!None ELSE s[first(owns)]
          IN  IF node # Choice!None THEN Choice!Field(d, node, "digest")
              ELSE Choice!Field(d, Choice!Top, "digest")
  BY Zenon DEF Choice!readIntegrityFields, Choice!FirstOf
<1>3. DOMAIN s = 1 .. 4 /\ \A i \in 1 .. 4 : s[i] # Choice!None
  BY DEF Choice!Cascade, Choice!None
<1>4. owns \subseteq offers /\ offers \in SUBSET Nat
  BY <1>3 DEF Choice!Field
<1>5. offers # {} /\ p = s[first(offers)]
  BY <1>1
<1>6. first(offers) \in offers /\ \A j \in offers : first(offers) <= j
  <2> HIDE DEF offers
  <2> QED BY <1>4, <1>5, LeastOf
<1>7. first(offers) \in owns
  BY <1>5, <1>6
<1>8. \A i \in owns : (\A j \in owns : i <= j) => i = first(offers)
  <2> SUFFICES ASSUME NEW i \in owns, \A j \in owns : i <= j PROVE i = first(offers)
    OBVIOUS
  <2> HIDE DEF offers, owns, first
  <2>1. i \in Nat /\ first(offers) \in Nat
    BY <1>4, <1>6
  <2>2. i <= first(offers) /\ first(offers) <= i
    BY <1>4, <1>6, <1>7
  <2> QED BY <2>1, <2>2
<1>9. first(owns) = first(offers)
  <2>1. \A j \in owns : first(offers) <= j
    <3> HIDE DEF offers, owns, first
    <3> QED BY <1>4, <1>6
  <2>2. first(owns) \in owns /\ \A j \in owns : first(owns) <= j
    <3> HIDE DEF offers, owns
    <3>1. \E i \in owns : \A j \in owns : i <= j
      BY <1>7, <2>1
    <3> QED BY <3>1, Zenon
  <2> QED
    <3> HIDE DEF offers, owns, first
    <3> QED BY <1>8, <2>2
<1> QED BY <1>2, <1>5, <1>7, <1>9

LEMMA CheckReads ==
    ASSUME ChoiceInv, Choice!Check
    PROVE  ChoiceInv'
<1> DEFINE node == Choice!Taken(doc, board, "url")
<1>1. board.env # "none" /\ board' = board
  BY DEF ChoiceInv, Choice!Check
<1>2. /\ out'.firmware = Choice!selectArtifact(doc, board).url
      /\ out'.digest = IF Choice!selectArtifact(doc, board).url = Choice!None THEN Choice!None
                       ELSE Choice!readIntegrityFields(doc, board)
  BY DEF Choice!Check
<1>3. ASSUME out'.firmware \notin {Choice!None, Choice!Top}
      PROVE  out'.digest \in {out'.firmware, Choice!Top, Choice!None}
  <2>1. node # Choice!None /\ out'.firmware = Choice!Field(doc, node, "url")
    BY <1>2, <1>3, Zenon DEF Choice!selectArtifact
  <2>2. out'.firmware = node /\ "url" \in doc[node]
    BY <1>3, <2>1 DEF Choice!Field
  <2>3. Choice!readIntegrityFields(doc, board) = Choice!Field(doc, node, "digest")
    BY <1>1, <2>1, <2>2, SameNode
  <2> QED BY <1>2, <1>3, <2>2, <2>3 DEF Choice!Field
<1> QED BY <1>1, <1>3 DEF ChoiceInv, Choice!DigestOfNode, Choice!None, Choice!Top

LEMMA ChoiceStep ==
    ASSUME ChoiceInv, [Choice!Next]_choiceVars
    PROVE  ChoiceInv'
<1>1. CASE UNCHANGED choiceVars
  BY <1>1 DEF choiceVars, ChoiceInv, Choice!DigestOfNode, Choice!None, Choice!Top
<1> QED BY <1>1, CheckReads DEF Choice!Next

-----------------------------------------------------------------------------
(* The heater (Heater).                                                     *)

(* The record of the regulation is the relay's state as long as no command  *)
(* of the server or the page came since.                                    *)
HeatInv ==
    /\ relay \in BOOLEAN /\ prev \in BOOLEAN
    /\ ~commanded => relay = prev

HeatRegulates ==
    Warm!Heat /\ ~conf.safe /\ ~commanded'
        => (water = "cold" => relay') /\ (water = "hot" => ~relay')

LEMMA HeatKeeps ==
    ASSUME HeatInv, Warm!Heat
    PROVE  HeatInv' /\ HeatRegulates
<1>1. relay \in BOOLEAN /\ prev \in BOOLEAN /\ (~commanded => relay = prev)
  BY DEF HeatInv
<1>2. CASE conf.safe \/ Warm!Evaluate = "None"
  <2>1. relay' = relay /\ prev' = prev /\ commanded' = commanded
    BY <1>2 DEF Warm!Heat
  <2>2. Warm!Evaluate = "None" => (water = "cold" => prev) /\ (water = "hot" => ~prev)
    BY DEF Warm!Evaluate
  <2>3. HeatInv'
    BY <1>1, <2>1 DEF HeatInv
  <2>4. HeatRegulates
    BY <1>1, <1>2, <2>1, <2>2 DEF HeatRegulates
  <2> QED BY <2>3, <2>4
<1>3. CASE ~(conf.safe \/ Warm!Evaluate = "None")
  <2>1. /\ relay' = (Warm!Evaluate = "TurnOn") /\ prev' = relay' /\ ~commanded'
    BY <1>3 DEF Warm!Heat
  <2>2. CASE Warm!Evaluate = "TurnOn"
    <3>1. relay' = TRUE
      BY <2>1, <2>2
    <3>2. water # "hot"
      BY <2>2 DEF Warm!Evaluate
    <3> QED BY <2>1, <3>1, <3>2 DEF HeatInv, HeatRegulates
  <2>3. CASE Warm!Evaluate # "TurnOn"
    <3>1. relay' = FALSE
      BY <2>1, <2>3
    <3>2. Warm!Evaluate = "TurnOff" /\ water # "cold"
      BY <1>3, <2>3 DEF Warm!Evaluate
    <3> QED BY <2>1, <3>1, <3>2 DEF HeatInv, HeatRegulates
  <2> QED BY <2>2, <2>3
<1> QED BY <1>2, <1>3

(* A command is a Boolean: the server's state, the document's or the page's. *)
HeatCommands == server \in BOOLEAN /\ cache \in SUBSET BOOLEAN /\ posts \in SUBSET BOOLEAN
                /\ page.on \in BOOLEAN

LEMMA CommandKeeps ==
    ASSUME HeatInv, HeatCommands, Warm!Fetched \/ Warm!NotFetched \/ Warm!PageSwitch,
           UNCHANGED prev
    PROVE  HeatInv'
<1>1. \/ relay' \in BOOLEAN /\ commanded' = TRUE
      \/ relay' = relay /\ commanded' = commanded
  BY DEF HeatCommands, Warm!Fetched, Warm!NotFetched, Warm!Switched, Warm!PageSwitch
<1> QED BY <1>1 DEF HeatInv

LEMMA HeatStep ==
    ASSUME HeatInv, HeatCommands, [Warm!Next]_warmVars
    PROVE  HeatInv' /\ HeatCommands' /\ HeatRegulates
<1>1. relay \in BOOLEAN
  BY DEF HeatInv
<1>2. CASE Warm!Poll \/ Warm!BootFetch
  <2>1. /\ prev' = prev /\ server' = server /\ posts' = posts /\ page' = page
        /\ Warm!Fetched \/ Warm!NotFetched
    BY <1>2 DEF Warm!Poll, Warm!BootFetch
  <2>2. cache' \in SUBSET BOOLEAN
    BY <2>1 DEF HeatCommands, Warm!Fetched, Warm!NotFetched
  <2> QED BY <2>1, <2>2, CommandKeeps, HeatKeeps DEF HeatCommands, HeatRegulates
<1>3. CASE Warm!Heat
  <2>1. HeatCommands'
    BY <1>3 DEF Warm!Heat, HeatCommands
  <2> QED BY <1>3, <2>1, HeatKeeps
<1>4. CASE Warm!PageSwitch
  <2>1. prev' = prev /\ server' = server /\ posts' = posts /\ cache' = cache
    BY <1>4 DEF Warm!PageSwitch
  <2>2. page'.on = page.on
    BY <1>4 DEF Warm!PageSwitch
  <2> QED BY <1>4, <2>1, <2>2, CommandKeeps, HeatKeeps DEF HeatCommands, HeatRegulates
<1>5. CASE Warm!Reset
  <2>1. /\ relay' = FALSE /\ prev' = FALSE /\ page' = Warm!Idle /\ posts' \in SUBSET posts
        /\ server' = server /\ cache' = cache
    BY <1>5 DEF Warm!Reset
  <2>2. HeatInv'
    BY <2>1 DEF HeatInv
  <2>3. HeatCommands'
    BY <2>1 DEF HeatCommands, Warm!Idle
  <2> QED BY <2>2, <2>3, HeatKeeps DEF HeatRegulates
<1>6. CASE \/ Warm!Post \/ Warm!PageRead \/ Warm!PageReport \/ Warm!Delivered
           \/ Warm!Panel \/ Warm!World \/ UNCHANGED warmVars
  <2>1. relay' = relay /\ prev' = prev /\ commanded' = commanded
    BY <1>6 DEF Warm!Post, Warm!PageRead, Warm!PageReport, Warm!Delivered, Warm!Panel,
                Warm!World, warmVars
  <2>2. HeatInv'
    BY <2>1 DEF HeatInv
  <2>3. cache' = cache
    BY <1>6 DEF Warm!Post, Warm!PageRead, Warm!PageReport, Warm!Delivered, Warm!Panel,
                Warm!World, warmVars
  <2>4. page'.on \in BOOLEAN
    <3>1. CASE Warm!PageRead
      BY <1>1, <3>1 DEF Warm!PageRead
    <3>2. CASE Warm!PageReport
      BY <3>2 DEF Warm!PageReport, Warm!Idle
    <3>3. CASE Warm!Post \/ Warm!Delivered \/ Warm!Panel \/ Warm!World \/ UNCHANGED warmVars
      BY <3>3 DEF Warm!Post, Warm!Delivered, Warm!Panel, Warm!World, warmVars, HeatCommands
    <3> QED BY <1>6, <3>1, <3>2, <3>3
  <2>5. server' \in BOOLEAN /\ posts' \in SUBSET BOOLEAN
    <3>1. CASE Warm!Post \/ Warm!PageReport
      BY <1>1, <3>1 DEF Warm!Post, Warm!PageReport, Warm!Reported, HeatCommands
    <3>2. CASE Warm!Delivered
      BY <3>2 DEF Warm!Delivered, HeatCommands
    <3>3. CASE Warm!Panel
      BY <3>3 DEF Warm!Panel, HeatCommands
    <3>4. CASE Warm!PageRead \/ Warm!World \/ UNCHANGED warmVars
      BY <3>4 DEF Warm!PageRead, Warm!World, warmVars, HeatCommands
    <3> QED BY <1>6, <3>1, <3>2, <3>3, <3>4
  <2> QED BY <2>2, <2>3, <2>4, <2>5, HeatKeeps DEF HeatCommands, HeatRegulates
<1> QED BY <1>2, <1>3, <1>4, <1>5, <1>6 DEF Warm!Next, Warm!Cycle, Warm!PageSteps

LEMMA HeatInit == Warm!Init => HeatInv /\ HeatCommands
<1> SUFFICES ASSUME Warm!Init PROVE HeatInv /\ HeatCommands
  OBVIOUS
<1>1. HeatInv
  BY DEF Warm!Init, HeatInv
<1>2. server \in BOOLEAN /\ posts = {} /\ page.on = FALSE
  BY DEF Warm!Init, Warm!Idle
<1>3. cache \in SUBSET BOOLEAN
  BY DEF Warm!Init
<1> QED BY <1>1, <1>2, <1>3 DEF HeatCommands

-----------------------------------------------------------------------------
(* In the run of AquaNet.                                                   *)

NetInv == OtaInv /\ ListInv /\ ChoiceInv /\ HeatInv /\ HeatCommands

LEMMA NetInit == NInit => NetInv
<1> SUFFICES ASSUME NInit PROVE NetInv
  OBVIOUS
<1>1. OtaInv
  BY NetAssumption, OtaInit DEF NInit
<1>2. ListInv
  BY ListInit DEF NInit
<1>3. HeatInv /\ HeatCommands
  BY HeatInit DEF NInit
<1>4. ChoiceInv
  <2>1. CASE part = "choice"
    BY <2>1, NetAssumption
       DEF NInit, Choice!Init, Choice!Nothing, ChoiceInv, Choice!DigestOfNode
  <2>2. CASE part # "choice"
    BY <2>2 DEF NInit, Choice!Nothing, ChoiceInv, Choice!DigestOfNode
  <2> QED BY <2>1, <2>2
<1> QED BY <1>1, <1>2, <1>3, <1>4 DEF NetInv

LEMMA NetStep ==
    ASSUME NetInv, [NNext]_nvars
    PROVE  NetInv' /\ HeatRegulates
<1>1. /\ [Image!Next]_(Image!vars) /\ [List!Next]_listVars
      /\ [Choice!Next]_choiceVars /\ [Warm!Next]_warmVars
  BY DEF NNext, nvars, imageVars, Image!vars, listVars, choiceVars, warmVars
<1>2. OtaInv'
  BY <1>1, OtaStep DEF NetInv
<1>3. ListInv'
  BY <1>1, ListStep DEF NetInv
<1>4. ChoiceInv'
  BY <1>1, ChoiceStep DEF NetInv
<1>5. HeatInv' /\ HeatCommands' /\ HeatRegulates
  BY <1>1, HeatStep DEF NetInv
<1> QED BY <1>2, <1>3, <1>4, <1>5 DEF NetInv

(* The invariants of the parts hold in every behaviour of the run.          *)
THEOREM NetInvariant == NSpec => []NetInv
<1>1. NetInv /\ [NNext]_nvars => NetInv'
  BY NetStep
<1> QED BY <1>1, NetInit, PTL DEF NSpec

(* The queue of the run is that of DataQueue, of which the theorems above   *)
(* speak.                                                                   *)
THEOREM RunHasQueue == NSpec => Spec
<1>1. NInit => Init
  BY DEF NInit
<1>2. [NNext]_nvars => [Next]_vars
  BY DEF NNext, nvars
<1> QED BY <1>1, <1>2, PTL DEF NSpec, Spec

(* An image is confirmed only if its version can reach the server, and the  *)
(* partition otadata selects holds a whole image at every moment: for any   *)
(* number of versions, crashes, commands and overlapping checks             *)
(* (system_boot.cpp, ota_manager.cpp, ota_manager_download.cpp).            *)
THEOREM ImagesProven == NSpec => [](Image!ValidReached /\ Image!SelectedIsWhole)
<1>1. NetInv => Image!ValidReached /\ Image!SelectedIsWhole
  BY DEF NetInv, OtaInv, Proven, Whole, Image!SelectedIsWhole
<1> QED BY <1>1, NetInvariant, PTL

(* A firmware at a node's own address is checked with that node's digest or *)
(* the top level's, whatever the manifest (n3_ota_artifact_select.h).       *)
THEOREM DigestFits == NSpec => []Choice!DigestOfNode
<1>1. NetInv => Choice!DigestOfNode
  BY DEF NetInv, ChoiceInv
<1> QED BY <1>1, NetInvariant, PTL

(* A network that was saved, and neither removed since nor pushed out of a  *)
(* full list, is on the list, at whichever write a reset came               *)
(* (web_routes_wifi.cpp).                                                   *)
THEOREM ListKeepsNets == NSpec => []List!NetsKept
<1>1. NetInv => List!NetsKept
  BY DEF NetInv, ListInv
<1> QED BY <1>1, NetInvariant, PTL

(* As long as no command came since it set the relay, the regulation leaves *)
(* cold water with the heater on and hot water with it off                  *)
(* (heater_orchestrator.h).                                                 *)
THEOREM HeaterRegulates == NSpec => Warm!Regulates
<1>1. NetInv /\ [NNext]_nvars => [HeatRegulates]_(Warm!hvars)
  BY NetStep
<1> QED BY <1>1, NetInvariant, PTL DEF NSpec, Warm!Regulates, HeatRegulates
=============================================================================
