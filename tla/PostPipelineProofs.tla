-------------------------- MODULE PostPipelineProofs --------------------------
(***************************************************************************)
(* A measurement logged on the SD card keeps its file until the server has *)
(* it, and no measurement vanishes from the queues or from NVS but where a *)
(* stage drops it: for every length of every queue, every number of        *)
(* measurements and every number of restarts.                              *)
(***************************************************************************)
EXTENDS PostPipeline, TLAPS, FiniteSetTheorems

Entries == [id : Posts, sd : Seqs \cup {None}]
Elems(s) == {s[k] : k \in 1 .. Len(s)}
InFlight == Elems(netQ) \cup Elems(senderQ) \cup Elems(hand)

PipeType ==
    /\ produced \in 0 .. MaxPosts
    /\ ram \in Seq(Posts)
    /\ netQ \in Seq(Entries) /\ senderQ \in Seq(Entries) /\ hand \in Seq(Entries)
    /\ senderPc \in {"taken", "sent"} => Len(hand) = 1
    /\ sd \in [Seqs -> Posts \cup {None}]
    /\ nextSeq \in 1 .. produced + 1 /\ meta \in 0 .. produced + 1

(* The number a POST in flight carries is one the card gave out, and its    *)
(* file, while it is there, holds that very measurement.                    *)
OwnFile(e) == e.sd # None => e.sd < nextSeq /\ sd[e.sd] \in {e.id, None}

(* The number in RAM follows the one in /meta.txt, no file has a number     *)
(* that is still to be given, and markSent follows an HTTP success.         *)
CardInv ==
    /\ nextSeq = IF meta = 0 THEN 1 ELSE meta
    /\ \A n \in Seqs : n >= nextSeq => sd[n] = None
    /\ \A e \in InFlight : OwnFile(e)
    /\ senderPc = "sent" => hand[1].id \in delivered
    /\ logged \subseteq delivered \cup Filed

SdInv == PipeType /\ (~torn => CardInv)

-------------------------------------------------------------------------------
(* What the operations on the queues leave in them. *)
LEMMA Elements ==
    ASSUME NEW S, NEW s \in Seq(S), NEW x \in S
    PROVE  /\ Append(s, x) \in Seq(S) /\ Elems(Append(s, x)) = Elems(s) \cup {x}
           /\ s # <<>> => /\ Head(s) \in S /\ Head(s) \in Elems(s)
                          /\ Tail(s) \in Seq(S) /\ Elems(Tail(s)) \subseteq Elems(s)
           /\ <<x>> \in Seq(S) /\ Elems(<<x>>) = {x}
           /\ Elems(s) \subseteq S
<1>1. Elems(Append(s, x)) = Elems(s) \cup {x}
  <2>1. /\ Len(Append(s, x)) = Len(s) + 1 /\ Len(s) \in Nat
        /\ \A k \in 1 .. Len(s) : Append(s, x)[k] = s[k]
        /\ Append(s, x)[Len(s) + 1] = x
    OBVIOUS
  <2>2. \A k \in 1 .. Len(s) + 1 : k \in 1 .. Len(s) \/ k = Len(s) + 1
    BY <2>1
  <2> HIDE DEF Elems
  <2> QED BY <2>1, <2>2 DEF Elems
<1>2. ASSUME s # <<>>
      PROVE  /\ Head(s) \in S /\ Head(s) \in Elems(s)
             /\ Tail(s) \in Seq(S) /\ Elems(Tail(s)) \subseteq Elems(s)
  <2>1. /\ Len(s) \in Nat \ {0} /\ Head(s) = s[1] /\ Len(Tail(s)) = Len(s) - 1
        /\ \A k \in 1 .. Len(s) - 1 : Tail(s)[k] = s[k + 1]
        /\ Head(s) \in S /\ Tail(s) \in Seq(S)
    BY <1>2
  <2> QED BY <2>1 DEF Elems
<1>3. <<x>> \in Seq(S) /\ Elems(<<x>>) = {x}
  BY DEF Elems
<1>4. Elems(s) \subseteq S
  BY DEF Elems
<1> QED BY <1>1, <1>2, <1>3, <1>4

LEMMA Concatenation ==
    ASSUME NEW S, NEW s \in Seq(S), NEW r \in Seq(S)
    PROVE  /\ s \o r \in Seq(S) /\ Len(s \o r) = Len(s) + Len(r)
           /\ \A k \in 1 .. Len(s) + Len(r) :
                 (s \o r)[k] = IF k <= Len(s) THEN s[k] ELSE r[k - Len(s)]
OBVIOUS

(* What a queue loses in front is its head, or the prefix that was taken. *)
LEMMA Moved ==
    ASSUME NEW S, NEW s \in Seq(S), NEW r \in Seq(S)
    PROVE  /\ s # <<>> => Elems(s) \subseteq {Head(s)} \cup Elems(Tail(s))
           /\ Elems(s) \cup Elems(r) \subseteq Elems(s \o r)
           /\ \A n \in Nat : n <= Len(s) =>
                 Elems(s) \subseteq {s[k] : k \in 1 .. n} \cup Elems(SubSeq(s, n + 1, Len(s)))
<1>1. ASSUME s # <<>> PROVE Elems(s) \subseteq {Head(s)} \cup Elems(Tail(s))
  <2>1. /\ Len(s) \in Nat \ {0} /\ Head(s) = s[1] /\ Len(Tail(s)) = Len(s) - 1
        /\ \A k \in 1 .. Len(s) - 1 : Tail(s)[k] = s[k + 1]
    BY <1>1
  <2> SUFFICES ASSUME NEW k \in 1 .. Len(s), k # 1 PROVE s[k] \in Elems(Tail(s))
    BY <2>1 DEF Elems
  <2>2. k - 1 \in 1 .. Len(s) - 1 /\ (k - 1) + 1 = k
    BY <2>1
  <2>3. s[k] = Tail(s)[k - 1]
    BY <2>1, <2>2
  <2> QED BY <2>1, <2>2, <2>3 DEF Elems
<1>2. Elems(s) \cup Elems(r) \subseteq Elems(s \o r)
  <2>1. /\ Len(s \o r) = Len(s) + Len(r) /\ Len(s) \in Nat /\ Len(r) \in Nat
        /\ \A k \in 1 .. Len(s) + Len(r) :
              (s \o r)[k] = IF k <= Len(s) THEN s[k] ELSE r[k - Len(s)]
    BY Concatenation
  <2>2. ASSUME NEW k \in 1 .. Len(s) PROVE s[k] \in Elems(s \o r)
    <3>1. k \in 1 .. Len(s \o r) /\ (s \o r)[k] = s[k]
      BY <2>1
    <3> QED BY <3>1 DEF Elems
  <2>3. ASSUME NEW k \in 1 .. Len(r) PROVE r[k] \in Elems(s \o r)
    <3>1. /\ Len(s) + k \in 1 .. Len(s \o r) /\ ~(Len(s) + k <= Len(s))
          /\ (Len(s) + k) - Len(s) = k
      BY <2>1
    <3>2. (s \o r)[Len(s) + k] = r[k]
      BY <2>1, <3>1
    <3> QED BY <3>1, <3>2 DEF Elems
  <2> QED BY <2>2, <2>3 DEF Elems
<1>3. ASSUME NEW n \in Nat, n <= Len(s)
      PROVE  Elems(s) \subseteq {s[k] : k \in 1 .. n} \cup Elems(SubSeq(s, n + 1, Len(s)))
  <2> DEFINE t == SubSeq(s, n + 1, Len(s))
  <2>1. /\ Len(s) \in Nat /\ Len(t) = Len(s) - n
        /\ \A k \in 1 .. Len(s) - n : t[k] = s[n + k]
    BY <1>3
  <2> HIDE DEF t
  <2> SUFFICES ASSUME NEW k \in 1 .. Len(s), ~(k \in 1 .. n) PROVE s[k] \in Elems(t)
    BY DEF Elems, t
  <2>2. k - n \in 1 .. Len(t) /\ n + (k - n) = k
    BY <2>1
  <2>3. t[k - n] = s[k]
    BY <2>1, <2>2
  <2> QED BY <2>2, <2>3 DEF Elems
<1> QED BY <1>1, <1>2, <1>3

(* The measurements of the entries of a queue. *)
Held(q) == {e.id : e \in Elems(q)}

LEMMA IdsElems == \A q : Ids(q) = Held(q)
BY DEF Ids, Held, Elems

(* A replay of the RAM queue moves a prefix of it, without SD numbers,  *)
(* and loses nothing.                                                       *)
LEMMA RamReplayed ==
    ASSUME NEW q \in Seq(Entries), NEW r \in Seq(Posts), SlotsUsed(q) <= NetMax
    PROVE  /\ ReplayRam(q, r).net \in Seq(Entries) /\ ReplayRam(q, r).ram \in Seq(Posts)
           /\ \A e \in Elems(ReplayRam(q, r).net) : e \in Elems(q) \/ e.sd = None
           /\ Ids(q) \cup Elems(r) \subseteq
                 Ids(ReplayRam(q, r).net) \cup Elems(ReplayRam(q, r).ram)
<1> DEFINE Fits(m) == m <= Len(r) /\ m + SlotsUsed(q) <= NetMax
           n == CHOOSE m \in 0 .. 2 : Fits(m) /\ \A k \in 0 .. 2 : Fits(k) => k <= m
           more == [i \in 1 .. n |-> [id |-> r[i], sd |-> None]]
<1>1. Fits(0)
  BY BoundAssumption DEF SlotsUsed
<1>2. \E m \in 0 .. 2 : Fits(m) /\ \A k \in 0 .. 2 : Fits(k) => k <= m
  <2> HIDE DEF Fits
  <2>1. 0 .. 2 = {0, 1, 2}
    OBVIOUS
  <2> QED BY <1>1, <2>1
<1>3. n \in 0 .. 2 /\ Fits(n)
  <2> HIDE DEF Fits
  <2> QED BY <1>2
<1>4. ReplayRam(q, r) = [net |-> q \o more, ram |-> SubSeq(r, n + 1, Len(r))]
  BY DEF ReplayRam
<1> HIDE DEF n
<1>5. n \in Nat /\ n <= Len(r)
  BY <1>3
<1> HIDE DEF Fits
<1>6. /\ more \in Seq(Entries) /\ Len(more) = n
      /\ \A k \in 1 .. n : more[k].sd = None /\ more[k].id = r[k]
  BY <1>5 DEF Entries
<1> HIDE DEF more
<1>7. /\ q \o more \in Seq(Entries) /\ Len(q \o more) = Len(q) + n
      /\ \A k \in 1 .. Len(q) + n :
            (q \o more)[k] = IF k <= Len(q) THEN q[k] ELSE more[k - Len(q)]
  BY <1>6, Concatenation
<1>8. \A e \in Elems(q \o more) : e \in Elems(q) \/ e.sd = None
  <2> SUFFICES ASSUME NEW k \in 1 .. Len(q \o more)
               PROVE  (q \o more)[k] \in Elems(q) \/ (q \o more)[k].sd = None
    BY DEF Elems
  <2>1. CASE k <= Len(q)
    BY <1>7, <2>1 DEF Elems
  <2>2. CASE ~(k <= Len(q))
    <3>1. k - Len(q) \in 1 .. n
      BY <1>5, <1>7, <2>2
    <3> QED BY <1>6, <1>7, <2>2, <3>1
  <2> QED BY <2>1, <2>2
<1>9. SubSeq(r, n + 1, Len(r)) \in Seq(Posts)
  BY <1>5
<1>10. Elems(r) \subseteq Held(more) \cup Elems(SubSeq(r, n + 1, Len(r)))
  <2>1. Elems(r) \subseteq {r[k] : k \in 1 .. n} \cup Elems(SubSeq(r, n + 1, Len(r)))
    BY <1>5, Moved
  <2>2. {r[k] : k \in 1 .. n} \subseteq Held(more)
    BY <1>6 DEF Held, Elems
  <2> QED BY <2>1, <2>2
<1>11. Held(q) \cup Held(more) \subseteq Held(q \o more)
  <2>1. Elems(q) \cup Elems(more) \subseteq Elems(q \o more)
    BY <1>6, Moved
  <2> QED BY <2>1 DEF Held
<1>12. Ids(q) \cup Elems(r) \subseteq Ids(q \o more) \cup Elems(SubSeq(r, n + 1, Len(r)))
  BY <1>10, <1>11, IdsElems
<1> QED BY <1>4, <1>7, <1>8, <1>9, <1>12

(* SenderDefer puts the message in hand back in front of the queue. *)
LEMMA PutBack ==
    ASSUME NEW h \in Seq(Entries), NEW q \in Seq(Entries)
    PROVE  h \o q \in Seq(Entries) /\ Elems(h \o q) \subseteq Elems(h) \cup Elems(q)
<1>1. h \o q \in Seq(Entries)
  BY Concatenation
<1>2. ASSUME NEW k \in 1 .. Len(h \o q) PROVE (h \o q)[k] \in Elems(h) \cup Elems(q)
  <2>1. /\ Len(h \o q) = Len(h) + Len(q) /\ Len(h) \in Nat /\ Len(q) \in Nat
        /\ (h \o q)[k] = IF k <= Len(h) THEN h[k] ELSE q[k - Len(h)]
    BY Concatenation, <1>2
  <2>2. CASE k <= Len(h)
    BY <2>1, <2>2 DEF Elems
  <2>3. CASE ~(k <= Len(h))
    <3>1. k - Len(h) \in 1 .. Len(q)
      BY <2>1, <2>3
    <3> QED BY <2>1, <2>3, <3>1 DEF Elems
  <2> QED BY <2>2, <2>3
<1> QED BY <1>1, <1>2 DEF Elems

-------------------------------------------------------------------------------
LEMMA SdInit == Init => SdInv
<1> SUFFICES ASSUME Init PROVE SdInv
  OBVIOUS
<1>1. PipeType
  BY BoundAssumption DEF Init, IdlePipeline, PipeType, Seqs, Posts, None
<1>2. InFlight = {}
  BY DEF Init, IdlePipeline, InFlight, Elems
<1> QED BY <1>1, <1>2 DEF Init, IdlePipeline, SdInv, CardInv

(* A step that leaves the card alone, and puts nothing in flight under an   *)
(* SD number, keeps the invariant.                                          *)
LEMMA CardSame ==
    ASSUME SdInv, PipeType', UNCHANGED card, delivered \subseteq delivered',
           \A e \in InFlight' : e \in InFlight \/ e.sd = None,
           senderPc' = "sent" => hand'[1].id \in delivered' \/ UNCHANGED sender
    PROVE  SdInv'
<1> SUFFICES ASSUME ~torn' PROVE CardInv'
  BY DEF SdInv
<1>1. CardInv /\ UNCHANGED <<sd, nextSeq, meta, torn, logged>>
  BY DEF SdInv, card
<1>2. \A e \in InFlight' : OwnFile(e)'
  BY <1>1 DEF CardInv, OwnFile
<1>3. senderPc' = "sent" => hand'[1].id \in delivered'
  BY <1>1 DEF CardInv, sender
<1>4. logged' \subseteq delivered' \cup Filed'
  BY <1>1 DEF CardInv, Filed
<1> QED BY <1>1, <1>2, <1>3, <1>4 DEF CardInv

(* The steps of the NVS queue and of the link touch nothing of this. *)
LEMMA SdElsewhere ==
    ASSUME SdInv, UNCHANGED <<produced, queues, sender, card>>,
           delivered \subseteq delivered'
    PROVE  SdInv'
<1>1. PipeType' /\ InFlight' = InFlight
  BY DEF SdInv, PipeType, queues, sender, card, InFlight
<1> QED BY <1>1, CardSame

LEMMA AutoSd ==
    ASSUME SdInv, AutoTask
    PROVE  SdInv'
<1>1. PipeType
  BY DEF SdInv
<1>2. CASE UpdateReplay
  <2>1. /\ netQ' = ReplayRam(netQ, ram).net /\ ram' = ReplayRam(netQ, ram).ram
        /\ SlotsUsed(netQ) <= NetMax
        /\ UNCHANGED <<produced, senderQ, sender, card, delivered>>
    BY <1>1, <1>2, BoundAssumption DEF UpdateReplay, Accepts, SlotsUsed, PipeType
  <2>2. netQ \in Seq(Entries) /\ ram \in Seq(Posts)
    BY <1>1 DEF PipeType
  <2>3. PipeType' /\ \A e \in InFlight' : e \in InFlight \/ e.sd = None
    BY <1>1, <2>1, <2>2, RamReplayed DEF PipeType, InFlight, sender, card
  <2> QED BY <2>1, <2>3, CardSame
<1>3. ASSUME NEW n \in Seqs, SdReplay(n) PROVE SdInv'
  <2>1. /\ sd[n] # None
        /\ UNCHANGED <<produced, ram, senderQ, sender, card, delivered>>
    BY <1>3 DEF SdReplay
  <2>2. PICK e \in Entries : e.sd = n /\ e.id = sd[n] /\ netQ' = Append(netQ, e)
    <3>1. [id |-> sd[n], sd |-> n] \in Entries
      BY <1>1, <2>1 DEF PipeType, Entries
    <3> QED BY <1>3, <3>1 DEF SdReplay
  <2>3. netQ \in Seq(Entries)
    BY <1>1 DEF PipeType
  <2>4. netQ' \in Seq(Entries) /\ Elems(netQ') = Elems(netQ) \cup {e}
    BY <2>1, <2>2, <2>3, Elements
  <2>5. PipeType' /\ InFlight' = InFlight \cup {e}
    BY <1>1, <2>1, <2>4 DEF PipeType, InFlight, sender, card
  <2>6. ASSUME ~torn PROVE CardInv'
    <3>1. CardInv /\ nextSeq \in Nat /\ n \in Nat
      BY <1>1, <2>6, BoundAssumption DEF SdInv, PipeType, Seqs
    <3>2. OwnFile(e)
      BY <2>1, <2>2, <3>1 DEF CardInv, OwnFile
    <3>3. \A f \in InFlight' : OwnFile(f)'
      BY <2>1, <2>5, <3>1, <3>2 DEF CardInv, OwnFile, card
    <3> QED BY <2>1, <3>1, <3>3 DEF CardInv, sender, card, Filed
  <2> QED BY <2>1, <2>5, <2>6 DEF SdInv, card
<1>4. CASE ReplayStart \/ ReplayRead \/ ReplaySucceeds \/ ReplayRemove
           \/ (\E taken \in BOOLEAN : ReplayFails(taken)) \/ ReplayCompact \/ ReplaySave
  BY <1>4, SdElsewhere DEF ReplayStart, ReplayRead, ReplaySucceeds, ReplayRemove,
     ReplayFails, ReplayCompact, ReplaySave
<1> QED BY <1>2, <1>3, <1>4 DEF AutoTask

LEMMA NetSd ==
    ASSUME SdInv, Net
    PROVE  SdInv'
<1>1. PipeType /\ netQ \in Seq(Entries) /\ senderQ \in Seq(Entries)
  BY DEF SdInv, PipeType
<1>2. CASE NetDispatch \/ NetDrain
  <2>1. /\ netQ # <<>> /\ netQ' = Tail(netQ)
        /\ UNCHANGED <<produced, ram, sender, card, delivered>>
        /\ UNCHANGED senderQ \/ senderQ' = Append(senderQ, Head(netQ))
    BY <1>2 DEF NetDispatch, NetDrain
  <2>2. /\ Head(netQ) \in Entries /\ Head(netQ) \in Elems(netQ)
        /\ netQ' \in Seq(Entries) /\ Elems(netQ') \subseteq Elems(netQ)
    <3>1. Entries # {}
      BY <1>1, <2>1
    <3> QED BY <1>1, <2>1, <3>1, Elements
  <2>3. senderQ' \in Seq(Entries) /\ Elems(senderQ') \subseteq Elems(senderQ) \cup Elems(netQ)
    <3>1. CASE UNCHANGED senderQ
      BY <1>1, <3>1
    <3>2. CASE senderQ' = Append(senderQ, Head(netQ))
      <4>1. senderQ' \in Seq(Entries) /\ Elems(senderQ') = Elems(senderQ) \cup {Head(netQ)}
        BY <1>1, <2>2, <3>2, Elements
      <4> QED BY <2>2, <4>1
    <3> QED BY <2>1, <3>1, <3>2
  <2>4. PipeType' /\ InFlight' \subseteq InFlight
    BY <1>1, <2>1, <2>2, <2>3 DEF PipeType, InFlight, sender, card
  <2> QED BY <2>1, <2>4, CardSame
<1>3. CASE WriteEntry("net") \/ SaveCount("net")
  BY <1>3, SdElsewhere DEF WriteEntry, SaveCount
<1> QED BY <1>2, <1>3 DEF Net

(* Only markSent removes a file, of a measurement the server has.           *)
LEMMA MarkSd ==
    ASSUME SdInv, SenderMark
    PROVE  SdInv'
<1> DEFINE e == hand[1]
<1>1. /\ PipeType /\ senderPc = "sent" /\ hand' = <<>> /\ senderPc' = "idle"
      /\ sd' = IF e.sd = None THEN sd ELSE [sd EXCEPT ![e.sd] = None]
      /\ UNCHANGED <<produced, queues, delivered, nextSeq, meta, torn, logged>>
  BY DEF SdInv, SenderMark
<1>2. e \in Elems(hand) /\ e \in Entries
  <2>1. hand \in Seq(Entries) /\ Len(hand) = 1
    BY <1>1 DEF PipeType
  <2>2. 1 \in 1 .. Len(hand)
    BY <2>1
  <2> QED BY <2>1, <2>2 DEF Elems
<1>3. Elems(hand') = {} /\ hand' \in Seq(Entries)
  BY <1>1 DEF Elems
<1>4. PipeType' /\ InFlight' \subseteq InFlight /\ e \in InFlight
  <2>1. sd' \in [Seqs -> Posts \cup {None}]
    BY <1>1 DEF PipeType
  <2> QED BY <1>1, <1>2, <1>3, <2>1 DEF PipeType, InFlight, queues
<1>5. ASSUME ~torn PROVE CardInv'
  <2>1. CardInv /\ OwnFile(e)
    BY <1>4, <1>5 DEF SdInv, CardInv
  <2>2. \A n \in Seqs : sd'[n] = sd[n] \/ (n = e.sd /\ sd'[n] = None)
    BY <1>1 DEF PipeType
  <2>3. \A f \in InFlight : OwnFile(f)'
    <3> SUFFICES ASSUME NEW f \in InFlight, f.sd # None
                 PROVE  f.sd < nextSeq' /\ sd'[f.sd] \in {f.id, None}
      BY DEF OwnFile
    <3>1. f \in Entries
      <4>1. \A q \in Seq(Entries) : Elems(q) \subseteq Entries
        BY DEF Elems
      <4> QED BY <1>1, <4>1 DEF PipeType, InFlight
    <3> QED BY <1>1, <2>1, <2>2, <3>1 DEF CardInv, OwnFile, Entries
  <2>4. Filed \subseteq Filed' \cup {e.id}
    <3> SUFFICES ASSUME NEW n \in Seqs, sd[n] # None PROVE sd[n] \in Filed' \cup {e.id}
      BY DEF Filed
    <3>1. n # None
      BY BoundAssumption DEF Seqs, None
    <3>2. CASE sd'[n] = sd[n]
      BY <3>2 DEF Filed
    <3>3. CASE n = e.sd
      BY <2>1, <3>1, <3>3 DEF OwnFile
    <3> QED BY <2>2, <3>2, <3>3
  <2>5. \A n \in Seqs : n >= nextSeq' => sd'[n] = None
    BY <1>1, <2>1, <2>2 DEF CardInv
  <2>6. e.id \in delivered
    BY <1>1, <2>1 DEF CardInv
  <2> QED BY <1>1, <1>4, <2>1, <2>3, <2>4, <2>5, <2>6 DEF CardInv
<1> QED BY <1>1, <1>4, <1>5 DEF SdInv

LEMMA SenderSd ==
    ASSUME SdInv, Sender
    PROVE  SdInv'
<1>1. /\ PipeType /\ senderQ \in Seq(Entries) /\ hand \in Seq(Entries)
      /\ <<>> \in Seq(Entries) /\ Elems(<<>>) = {} /\ Len(<<>>) = 0
  BY DEF SdInv, PipeType, Elems
<1>2. CASE SenderTake
  <2>1. /\ senderQ # <<>> /\ senderQ' = Tail(senderQ) /\ hand' = <<Head(senderQ)>>
        /\ senderPc' = "taken"
        /\ UNCHANGED <<produced, ram, netQ, card, delivered>>
    BY <1>2 DEF SenderTake
  <2>2. /\ Head(senderQ) \in Entries /\ Head(senderQ) \in Elems(senderQ)
        /\ senderQ' \in Seq(Entries) /\ Elems(senderQ') \subseteq Elems(senderQ)
    <3>1. Entries # {}
      BY <1>1, <2>1
    <3> QED BY <1>1, <2>1, <3>1, Elements
  <2>3. hand' \in Seq(Entries) /\ Elems(hand') = {Head(senderQ)} /\ Len(hand') = 1
    BY <1>1, <2>1, <2>2, Elements
  <2>4. PipeType' /\ InFlight' \subseteq InFlight
    BY <1>1, <2>1, <2>2, <2>3 DEF PipeType, InFlight, card
  <2> QED BY <2>1, <2>4, CardSame
<1>3. CASE SenderDefer
  <2>1. /\ hand' = <<>> /\ senderPc' = "idle"
        /\ UNCHANGED senderQ \/ senderQ' = hand \o senderQ
        /\ UNCHANGED <<produced, ram, netQ, card, delivered>>
    BY <1>3 DEF SenderDefer
  <2>2. senderQ' \in Seq(Entries) /\ Elems(senderQ') \subseteq Elems(hand) \cup Elems(senderQ)
    <3>1. CASE UNCHANGED senderQ
      BY <1>1, <3>1
    <3>2. CASE senderQ' = hand \o senderQ
      BY <1>1, <3>2, PutBack
    <3> QED BY <2>1, <3>1, <3>2
  <2>3. PipeType' /\ InFlight' \subseteq InFlight
    BY <1>1, <2>1, <2>2 DEF PipeType, InFlight, card
  <2> QED BY <2>1, <2>3, CardSame
<1>4. CASE SenderOffline \/ \E taken \in BOOLEAN : SenderFails(taken)
  <2>1. /\ hand' = <<>> /\ senderPc' = "idle" /\ delivered \subseteq delivered'
        /\ UNCHANGED <<produced, queues, card>>
    BY <1>4 DEF SenderOffline, SenderFails
  <2>2. PipeType' /\ InFlight' \subseteq InFlight
    BY <1>1, <2>1 DEF PipeType, InFlight, queues, card
  <2> QED BY <2>1, <2>2, CardSame
<1>5. CASE SenderSucceeds
  <2>1. /\ delivered' = delivered \cup {hand[1].id} /\ senderPc = "taken"
        /\ UNCHANGED <<produced, queues, hand, card>>
    BY <1>5 DEF SenderSucceeds
  <2>2. PipeType' /\ InFlight' = InFlight
    BY <1>1, <2>1 DEF PipeType, InFlight, queues, card
  <2> QED BY <2>1, <2>2, CardSame
<1>6. CASE SenderMark
  BY <1>6, MarkSd
<1>7. CASE WriteEntry("sender") \/ SaveCount("sender")
  BY <1>7, SdElsewhere DEF WriteEntry, SaveCount
<1> QED BY <1>2, <1>3, <1>4, <1>5, <1>6, <1>7 DEF Sender

(* A new measurement gets the next number, whose file is not there yet. *)
LEMMA SendSd ==
    ASSUME SdInv, NEW stored \in BOOLEAN, SendFullUpdate(stored)
    PROVE  SdInv'
<1> DEFINE i == produced + 1
<1>2. /\ PipeType /\ produced < MaxPosts
      /\ produced \in Nat /\ i \in Posts /\ nextSeq \in Seqs
      /\ netQ \in Seq(Entries) /\ ram \in Seq(Posts)
  BY BoundAssumption DEF SdInv, SendFullUpdate, PipeType, Posts, Seqs
<1>3. PICK e \in Entries :
         /\ e.id = i /\ e.sd = (IF stored THEN nextSeq ELSE None)
         /\ e = [id |-> i, sd |-> IF stored THEN nextSeq ELSE None]
  BY <1>2 DEF Entries
<1> DEFINE q == Append(netQ, e)
<1>1. /\ PipeType /\ produced' = i /\ LogAndQueue(i, stored)
      /\ UNCHANGED <<senderQ, sender, delivered>>
      /\ \/ /\ Accepts(netQ)
            /\ netQ' = ReplayRam(q, ram).net /\ ram' = ReplayRam(q, ram).ram
         \/ /\ UNCHANGED netQ
            /\ ram' = IF Len(ram) < RamMax THEN Append(ram, i) ELSE Append(Tail(ram), i)
  BY <1>2, <1>3 DEF SendFullUpdate
<1>num. produced' \in 0 .. MaxPosts /\ produced' = produced + 1 /\ produced \in Nat
  BY <1>1, <1>2, BoundAssumption
<1> HIDE DEF i
<1>4. q \in Seq(Entries) /\ Elems(q) = Elems(netQ) \cup {e} /\ Len(q) = Len(netQ) + 1
  <2>1. Len(q) = Len(netQ) + 1
    BY <1>2
  <2> QED BY <1>2, <2>1, Elements
<1> HIDE DEF q
<1>5. /\ netQ' \in Seq(Entries) /\ ram' \in Seq(Posts)
      /\ \A f \in InFlight' : f \in InFlight \/ f = e \/ f.sd = None
  <2>1. CASE /\ Accepts(netQ)
             /\ netQ' = ReplayRam(q, ram).net /\ ram' = ReplayRam(q, ram).ram
    <3>1. SlotsUsed(q) <= NetMax
      BY <1>2, <1>4, <2>1, BoundAssumption DEF Accepts, SlotsUsed
    <3> QED BY <1>1, <1>2, <1>4, <2>1, <3>1, RamReplayed DEF InFlight, sender
  <2>2. CASE /\ UNCHANGED netQ
             /\ ram' = IF Len(ram) < RamMax THEN Append(ram, i) ELSE Append(Tail(ram), i)
    <3>1. Append(ram, i) \in Seq(Posts)
      BY <1>2
    <3>2. CASE ~(Len(ram) < RamMax)
      <4>1. ram # <<>>
        BY <3>2, BoundAssumption
      <4>2. Tail(ram) \in Seq(Posts)
        BY <1>2, <4>1, Elements
      <4> QED BY <1>1, <1>2, <2>2, <3>2, <4>2 DEF InFlight, sender
    <3> QED BY <1>1, <1>2, <2>2, <3>1, <3>2 DEF InFlight, sender
  <2> QED BY <1>1, <2>1, <2>2
<1>6. CASE ~stored
  <2>1. UNCHANGED card
    BY <1>1, <1>6 DEF LogAndQueue
  <2>2. PipeType'
    <3>1. nextSeq' \in 1 .. produced' + 1 /\ meta' \in 0 .. produced' + 1
      BY <1>1, <1>num, <2>1 DEF PipeType, card
    <3> QED BY <1>1, <1>num, <1>5, <2>1, <3>1 DEF PipeType, sender, card
  <2> QED BY <1>1, <1>3, <1>5, <1>6, <2>1, <2>2, CardSame
<1>7. CASE stored
  <2>1. /\ sd' = [sd EXCEPT ![nextSeq] = i] /\ nextSeq' = nextSeq + 1 /\ meta' = nextSeq + 1
        /\ logged' = logged \cup {i} /\ UNCHANGED torn
    BY <1>1, <1>7 DEF LogAndQueue
  <2>2. /\ sd' \in [Seqs -> Posts \cup {None}] /\ sd'[nextSeq] = i
        /\ \A n \in Seqs : n # nextSeq => sd'[n] = sd[n]
    BY <1>1, <1>2, <2>1 DEF PipeType
  <2>3. PipeType'
    <3>1. nextSeq' \in 1 .. produced' + 1 /\ meta' \in 0 .. produced' + 1
      BY <1>1, <1>num, <2>1 DEF PipeType
    <3> QED BY <1>1, <1>num, <1>5, <2>2, <3>1 DEF PipeType, sender
  <2>4. ASSUME ~torn PROVE CardInv'
    <3>1. CardInv /\ nextSeq \in Nat /\ nextSeq >= 1
      BY <1>1, <1>2, <2>4 DEF SdInv, PipeType
    <3>2. OwnFile(e)'
      BY <1>2, <1>3, <1>7, <2>1, <2>2, <3>1 DEF OwnFile
    <3>3. \A f \in InFlight : OwnFile(f)'
      <4> SUFFICES ASSUME NEW f \in InFlight, f.sd # None
                   PROVE  f.sd < nextSeq' /\ sd'[f.sd] \in {f.id, None}
        BY DEF OwnFile
      <4>1. f \in Entries
        <5>1. \A s \in Seq(Entries) : Elems(s) \subseteq Entries
          BY DEF Elems
        <5> QED BY <1>1, <5>1 DEF PipeType, InFlight
      <4>2. f.sd < nextSeq /\ sd[f.sd] \in {f.id, None} /\ f.sd \in Seqs /\ f.sd \in Nat
        BY <3>1, <4>1, BoundAssumption DEF CardInv, OwnFile, Entries, Seqs
      <4> QED BY <2>1, <2>2, <3>1, <4>2
    <3>4. \A f \in InFlight' : OwnFile(f)'
      BY <1>5, <3>2, <3>3 DEF OwnFile
    <3>5. \A n \in Seqs : n >= nextSeq' => sd'[n] = None
      BY <2>1, <2>2, <3>1, BoundAssumption DEF CardInv, Seqs
    <3>6. Filed \cup {i} \subseteq Filed'
      <4>1. i \in Filed'
        BY <1>2, <2>2, BoundAssumption DEF Filed, Posts, None
      <4>2. ASSUME NEW n \in Seqs, sd[n] # None PROVE sd[n] \in Filed'
        <5>1. n # nextSeq
          BY <1>2, <3>1, <4>2 DEF CardInv
        <5> QED BY <2>2, <4>2, <5>1 DEF Filed
      <4> QED BY <4>1, <4>2 DEF Filed
    <3>7. nextSeq' = IF meta' = 0 THEN 1 ELSE meta'
      BY <2>1, <3>1
    <3> QED BY <1>1, <2>1, <3>1, <3>4, <3>5, <3>6, <3>7 DEF CardInv, sender
  <2> QED BY <2>1, <2>3, <2>4 DEF SdInv
<1> QED BY <1>6, <1>7

(* A restart goes on with the number of /meta.txt.                          *)
LEMMA ResetSd ==
    ASSUME SdInv, NEW m \in {meta, 0}, Reset(m)
    PROVE  SdInv'
<1>1. /\ PipeType /\ senderPc' = "idle" /\ hand' = <<>> /\ netQ' = <<>>
      /\ senderQ' = <<>> /\ ram' = <<>>
      /\ meta' = m /\ nextSeq' = (IF m = 0 THEN 1 ELSE m) /\ torn' = (torn \/ m # meta)
      /\ UNCHANGED <<produced, sd, logged, delivered>>
  BY DEF SdInv, Reset
<1>2. PipeType' /\ InFlight' = {}
  BY <1>1 DEF PipeType, InFlight, Elems
<1>3. ASSUME ~torn' PROVE CardInv'
  <2>1. CardInv /\ m = meta /\ nextSeq' = nextSeq
    BY <1>1, <1>3 DEF SdInv, CardInv
  <2> QED BY <1>1, <1>2, <2>1 DEF CardInv, Filed
<1> QED BY <1>2, <1>3 DEF SdInv

LEMMA SdStep == SdInv /\ [Next]_vars => SdInv'
<1> SUFFICES ASSUME SdInv, [Next]_vars PROVE SdInv'
  OBVIOUS
<1>1. ASSUME NEW stored \in {FALSE, BoardS3}, SendFullUpdate(stored) PROVE SdInv'
  BY <1>1, SendSd, BoundAssumption
<1>2. CASE AutoTask
  BY <1>2, AutoSd
<1>3. CASE Net
  BY <1>3, NetSd
<1>4. CASE Sender
  BY <1>4, SenderSd
<1>5. CASE Environment
  BY <1>5, SdElsewhere DEF Environment
<1>6. ASSUME NEW m \in {meta, 0}, Reset(m) PROVE SdInv'
  BY <1>6, ResetSd
<1>7. CASE UNCHANGED vars
  BY <1>7, SdElsewhere DEF vars, queues, sender, card
<1> QED BY <1>1, <1>2, <1>3, <1>4, <1>5, <1>6, <1>7 DEF Next

(* As long as no reset falls into saveMeta, a measurement logged on the SD  *)
(* card has its file there until the server has accepted that measurement,  *)
(* through resets, OTAs, full queues and overlapping NVS operations         *)
(* (sd_logger.cpp, app_tasks.cpp, automatism_sync.cpp).                     *)
THEOREM SdKeepsUndeliveredCorrect == Spec => []SdKeepsUndelivered
<1>1. SdInv => SdKeepsUndelivered
  BY DEF SdInv, CardInv, SdKeepsUndelivered
<1> QED BY <1>1, SdInit, SdStep, PTL DEF Spec

-------------------------------------------------------------------------------
(* The keys of the NVS queue below a count hold the entries it counts.      *)
Below(n) == {key[k] : k \in {j \in Keys : j < n}} \ {None}

(* Before it saves its count, the replay has put every remaining entry      *)
(* below the new one.                                                       *)
Stored == IF rPc = "save" THEN Below(rCount) ELSE Below(count)

SenderInv ==
    /\ senderPc \in {"idle", "taken", "sent"}
    /\ senderPc = "idle" => hand = <<>>
    /\ senderPc = "sent" => hand[1].id \in delivered

(* An item a writer has in hand is under the key below the count it will    *)
(* save, once it has been written.                                          *)
WriterInv ==
    /\ wPc \in [Writers -> {"idle", "write", "save"}]
    /\ wItem \in [Writers -> Posts \cup {None}]
    /\ wCount \in [Writers -> 0 .. NvsMax]
    /\ \A w \in Writers :
         /\ wPc[w] = "idle" => wItem[w] = None
         /\ wPc[w] = "write" => wCount[w] = count
         /\ wPc[w] = "save" => /\ wCount[w] >= count /\ wCount[w] > 0
                               /\ key[wCount[w] - 1] = wItem[w]

(* The replay counts as done what the server has accepted; if that is all   *)
(* it has read, no entry is left among the keys it has passed.              *)
Reading ==
    /\ rCount = count /\ rIdx \in 0 .. count /\ rDone \in 0 .. rIdx
    /\ rDone = rIdx => \A k \in Keys : k < rIdx => key[k] = None
    /\ rPc \in {"post", "remove"} => /\ rIdx < count /\ rIdx \in Keys
                                     /\ key[rIdx] = rItem
    /\ rPc = "remove" => rItem \in delivered

ReplayInv ==
    /\ rPc \in {"idle", "scan", "post", "remove", "compact", "save"}
    /\ rPc \in {"scan", "post", "remove", "compact"} => Reading
    /\ rPc = "save" => rCount \in 0 .. count

(* One operation on the queue at a time. *)
Alone ==
    /\ rPc # "idle" => \A w \in Writers : wPc[w] = "idle"
    /\ \A u, w \in Writers : wPc[u] # "idle" /\ wPc[w] # "idle" => u = w

NvsInv ==
    /\ key \in [Keys -> Posts \cup {None}] /\ count \in 0 .. NvsMax
    /\ WriterInv /\ ReplayInv /\ Alone

AllThere == 1 .. produced \subseteq delivered \cup lost \cup Volatile \cup Stored

KeepInv == SenderInv /\ (~raced => NvsInv /\ AllThere)

LEMMA KeptInit == Init => KeepInv
<1> SUFFICES ASSUME Init PROVE KeepInv
  OBVIOUS
<1>1. SenderInv
  BY DEF Init, IdlePipeline, SenderInv
<1>2. WriterInv /\ ReplayInv /\ Alone
  BY BoundAssumption DEF Init, IdlePipeline, WriterInv, ReplayInv, Alone
<1>3. key \in [Keys -> Posts \cup {None}] /\ count \in 0 .. NvsMax
  BY BoundAssumption DEF Init
<1>4. 1 .. produced = {}
  BY DEF Init
<1> QED BY <1>1, <1>2, <1>3, <1>4 DEF KeepInv, NvsInv, AllThere

(* A step that leaves the NVS queue alone has only to say where what it     *)
(* takes from the volatile stores goes.                                     *)
LEMMA NvsSame ==
    ASSUME NvsInv, UNCHANGED <<nvs, writers, replay>>, delivered \subseteq delivered'
    PROVE  NvsInv' /\ Stored' = Stored
<1>1. Stored' = Stored
  BY DEF Stored, Below, nvs, replay
<1>2. WriterInv' /\ ReplayInv' /\ Alone'
  BY DEF NvsInv, WriterInv, ReplayInv, Reading, Alone, nvs, writers, replay
<1> QED BY <1>1, <1>2 DEF NvsInv, nvs

LEMMA QuietStep ==
    ASSUME KeepInv, SenderInv', UNCHANGED <<nvs, writers, replay, raced>>,
           1 .. produced' \subseteq (1 .. produced) \cup Volatile',
           delivered \subseteq delivered', lost \subseteq lost',
           Volatile \subseteq Volatile' \cup delivered' \cup lost'
    PROVE  KeepInv'
<1> SUFFICES ASSUME ~raced PROVE NvsInv' /\ AllThere'
  BY DEF KeepInv
<1>1. NvsInv' /\ Stored' = Stored
  BY NvsSame DEF KeepInv
<1> QED BY <1>1 DEF KeepInv, AllThere

(* queueFailedPost begins: the item goes from a queue to the hands of the   *)
(* writer, or is dropped because it is too long.                            *)
LEMMA QueueStep ==
    ASSUME KeepInv, SenderInv', NEW w \in Writers, NEW i \in Posts, QueueFailedPost(w, i),
           UNCHANGED <<produced, nvs, replay>>, delivered \subseteq delivered',
           Elems(ram) \cup Ids(netQ) \cup Ids(senderQ) \cup Ids(hand)
              \subseteq Elems(ram)' \cup Ids(netQ)' \cup Ids(senderQ)' \cup Ids(hand)' \cup {i}
    PROVE  KeepInv'
<1> SUFFICES ASSUME ~raced' PROVE NvsInv' /\ AllThere'
  BY DEF KeepInv
<1>1. CASE i \in LongPosts
  <2>1. UNCHANGED <<writers, raced>> /\ lost' = lost \cup {i}
    BY <1>1 DEF QueueFailedPost
  <2>2. NvsInv' /\ Stored' = Stored
    BY <2>1, NvsSame DEF KeepInv
  <2>3. Volatile \subseteq Volatile' \cup lost'
    BY <2>1 DEF Volatile, Elems, writers
  <2> QED BY <2>1, <2>2, <2>3 DEF KeepInv, AllThere
<1>2. CASE i \notin LongPosts
  <2>1. /\ wPc' = [wPc EXCEPT ![w] = "write"] /\ wItem' = [wItem EXCEPT ![w] = i]
        /\ wCount' = [wCount EXCEPT ![w] = count] /\ ~raced /\ ~Busy /\ UNCHANGED lost
    BY <1>2 DEF QueueFailedPost
  <2>2. NvsInv /\ rPc = "idle" /\ \A u \in Writers : wPc[u] = "idle"
    BY <2>1 DEF Busy, KeepInv
  <2>3. WriterInv'
    BY <2>1, <2>2, BoundAssumption DEF NvsInv, WriterInv, nvs
  <2>4. ReplayInv' /\ Alone' /\ Stored' = Stored
    BY <2>1, <2>2 DEF NvsInv, WriterInv, ReplayInv, Alone, Stored, Below, nvs, replay
  <2>5. Volatile \subseteq Volatile'
    <3>1. {wItem[u] : u \in Writers} \ {None} = {}
      BY <2>2 DEF NvsInv, WriterInv
    <3>2. i \in {wItem'[u] : u \in Writers} \ {None}
      <4>1. wItem'[w] = i /\ i # None
        BY <2>1, <2>2, BoundAssumption DEF NvsInv, WriterInv, Posts, None
      <4> QED BY <4>1
    <3> QED BY <3>1, <3>2 DEF Volatile, Elems
  <2> QED BY <2>1, <2>2, <2>3, <2>4, <2>5 DEF KeepInv, NvsInv, AllThere, nvs
<1> QED BY <1>1, <1>2

(* Writing the entry drops the oldest one when the queue is full; any other *)
(* entry only moves down by one key.                                        *)
LEMMA WriteKept ==
    ASSUME KeepInv, NEW w \in Writers, WriteEntry(w)
    PROVE  KeepInv'
<1>1. SenderInv' /\ Volatile' = Volatile
  BY DEF KeepInv, SenderInv, WriteEntry, Volatile, queues, sender
<1> SUFFICES ASSUME ~raced' PROVE NvsInv' /\ AllThere'
  BY <1>1 DEF KeepInv
<1>2. /\ NvsInv /\ AllThere /\ wPc[w] = "write" /\ wCount[w] = count
      /\ wItem[w] \in Posts \cup {None} /\ count \in 0 .. NvsMax /\ NvsMax \in Nat \ {0}
      /\ rPc = "idle" /\ \A u \in Writers \ {w} : wPc[u] = "idle"
      /\ wPc' = [wPc EXCEPT ![w] = "save"]
      /\ UNCHANGED <<produced, count, wItem, replay, delivered>>
  BY BoundAssumption DEF WriteEntry, KeepInv, NvsInv, WriterInv, Alone
<1>3. ReplayInv' /\ Alone'
  BY <1>2 DEF NvsInv, WriterInv, ReplayInv, Alone, replay
<1>4. CASE wCount[w] >= NvsMax
  <2>1. /\ key' = [Shifted EXCEPT ![NvsMax - 1] = wItem[w]]
        /\ wCount' = [wCount EXCEPT ![w] = NvsMax]
        /\ lost' = lost \cup ({key[0]} \ {None}) /\ count = NvsMax
    BY <1>2, <1>4 DEF WriteEntry
  <2>2. Shifted \in [Keys -> Posts \cup {None}]
    BY <1>2 DEF NvsInv, Shifted
  <2>3. /\ key' \in [Keys -> Posts \cup {None}] /\ NvsMax - 1 \in Keys
        /\ key'[NvsMax - 1] = wItem[w]
        /\ \A k \in Keys : k # NvsMax - 1 => key'[k] = Shifted[k]
    BY <1>2, <2>1, <2>2 DEF Keys
  <2>4. WriterInv'
    BY <1>2, <2>1, <2>3 DEF NvsInv, WriterInv
  <2>5. Stored \subseteq Stored' \cup lost'
    <3> SUFFICES ASSUME NEW k \in Keys, key[k] # None, key[k] \notin lost'
                 PROVE  \E j \in Keys : j < count /\ key'[j] = key[k]
      BY <1>2 DEF Stored, Below, replay
    <3>1. k # 0 /\ k - 1 \in Keys /\ (k - 1) + 1 = k /\ k - 1 # NvsMax - 1 /\ k - 1 < count
      BY <1>2, <2>1 DEF Keys
    <3>2. Shifted[k - 1] = key[k]
      BY <3>1 DEF Shifted
    <3> QED BY <2>3, <3>1, <3>2
  <2> QED BY <1>1, <1>2, <1>3, <2>1, <2>3, <2>4, <2>5 DEF NvsInv, AllThere
<1>5. CASE ~(wCount[w] >= NvsMax)
  <2>1. /\ key' = [key EXCEPT ![count] = wItem[w]]
        /\ wCount' = [wCount EXCEPT ![w] = count + 1]
        /\ UNCHANGED lost /\ count < NvsMax /\ count \in Keys
    BY <1>2, <1>5 DEF WriteEntry, NvsInv, WriterInv, Keys
  <2>2. /\ key' \in [Keys -> Posts \cup {None}] /\ key'[count] = wItem[w]
        /\ \A k \in Keys : k # count => key'[k] = key[k]
    BY <1>2, <2>1 DEF NvsInv
  <2>3. WriterInv'
    BY <1>2, <2>1, <2>2 DEF NvsInv, WriterInv
  <2>4. Stored' = Stored
    BY <1>2, <2>2 DEF Stored, Below, replay, Keys
  <2> QED BY <1>1, <1>2, <1>3, <2>1, <2>2, <2>3, <2>4 DEF NvsInv, AllThere
<1> QED BY <1>4, <1>5

LEMMA SaveKept ==
    ASSUME KeepInv, NEW w \in Writers, SaveCount(w)
    PROVE  KeepInv'
<1>1. SenderInv'
  BY DEF KeepInv, SenderInv, SaveCount, sender
<1> SUFFICES ASSUME ~raced' PROVE NvsInv' /\ AllThere'
  BY <1>1 DEF KeepInv
<1>2. /\ NvsInv /\ AllThere /\ wPc[w] = "save"
      /\ wCount[w] >= count /\ wCount[w] \in 1 .. NvsMax /\ key[wCount[w] - 1] = wItem[w]
      /\ count \in 0 .. NvsMax /\ NvsMax \in Nat
      /\ rPc = "idle" /\ \A u \in Writers \ {w} : wPc[u] = "idle"
      /\ count' = wCount[w] /\ wPc' = [wPc EXCEPT ![w] = "idle"]
      /\ wItem' = [wItem EXCEPT ![w] = None] /\ wCount' = [wCount EXCEPT ![w] = 0]
      /\ UNCHANGED <<produced, queues, sender, key, replay, delivered, lost>>
  BY BoundAssumption DEF SaveCount, KeepInv, NvsInv, WriterInv, Alone
<1>3. ReplayInv' /\ Alone' /\ WriterInv'
  <2>1. ReplayInv' /\ Alone'
    BY <1>2 DEF NvsInv, WriterInv, ReplayInv, Alone, replay
  <2>2. \A u \in Writers : wPc'[u] = "idle" /\ wItem'[u] = None
    BY <1>2 DEF NvsInv, WriterInv
  <2>3. wPc' \in [Writers -> {"idle", "write", "save"}] /\ wCount' \in [Writers -> 0 .. NvsMax]
    BY <1>2 DEF NvsInv, WriterInv
  <2>4. wItem' \in [Writers -> Posts \cup {None}]
    BY <1>2 DEF NvsInv, WriterInv
  <2> QED BY <2>1, <2>2, <2>3, <2>4 DEF WriterInv
<1>4. Stored \subseteq Stored' /\ {wItem[w]} \ {None} \subseteq Stored'
  <2>1. Stored = Below(count) /\ Stored' = {key[k] : k \in {j \in Keys : j < count'}} \ {None}
    BY <1>2 DEF Stored, Below, replay
  <2>2. \A j \in Keys : j < count => j < count'
    BY <1>2 DEF Keys
  <2>3. wCount[w] - 1 \in Keys /\ wCount[w] - 1 < count'
    BY <1>2 DEF Keys
  <2> QED BY <1>2, <2>1, <2>2, <2>3 DEF Below
<1>5. Volatile \subseteq Volatile' \cup {wItem[w]}
  <2>1. \A u \in Writers : u # w => wItem'[u] = wItem[u]
    BY <1>2 DEF NvsInv, WriterInv
  <2> QED BY <1>2, <2>1 DEF Volatile, queues, sender
<1>6. None \notin 1 .. produced
  BY DEF None
<1> QED BY <1>2, <1>3, <1>4, <1>5, <1>6 DEF NvsInv, AllThere

(* A step of the replay that moves no entry and leaves the count.           *)
LEMMA ReplayStep ==
    ASSUME KeepInv,
           UNCHANGED <<produced, queues, sender, nvs, writers, card, lost>>,
           raced => raced', delivered \subseteq delivered',
           ~raced' => /\ rPc' = "idle" \/ \A w \in Writers : wPc[w] = "idle"
                      /\ ReplayInv' /\ Stored \subseteq Stored'
    PROVE  KeepInv'
<1>1. SenderInv' /\ Volatile' = Volatile
  BY DEF KeepInv, SenderInv, Volatile, queues, sender, writers
<1> SUFFICES ASSUME ~raced' PROVE NvsInv' /\ AllThere'
  BY <1>1 DEF KeepInv
<1>2. NvsInv /\ AllThere
  BY DEF KeepInv
<1>3. WriterInv' /\ Alone'
  BY <1>2 DEF NvsInv, WriterInv, Alone, nvs, writers
<1> QED BY <1>1, <1>2, <1>3 DEF NvsInv, AllThere, nvs

LEMMA ScanKept ==
    ASSUME KeepInv,
           ReplayStart \/ ReplayRead \/ ReplaySucceeds
              \/ (\E taken \in BOOLEAN : ReplayFails(taken)) \/ ReplaySave
    PROVE  KeepInv'
<1> USE BoundAssumption
<1>1. CASE ReplayStart
  <2>1. ASSUME ~raced' PROVE ReplayInv' /\ Stored' = Stored /\ \A w \in Writers : wPc[w] = "idle"
    <3>1. /\ ~raced /\ ~Busy /\ count \in 0 .. NvsMax /\ rPc = "idle"
          /\ rPc' = "scan" /\ rIdx' = 0 /\ rCount' = count /\ rDone' = 0
          /\ UNCHANGED nvs
      BY <1>1, <2>1 DEF ReplayStart, KeepInv, NvsInv
    <3> QED BY <3>1 DEF Busy, ReplayInv, Reading, Stored, Below, nvs, Keys
  <2> QED BY <1>1, <2>1, ReplayStep DEF ReplayStart
<1>2. CASE ReplayRead
  <2>1. ASSUME ~raced PROVE ReplayInv' /\ Stored' = Stored /\ \A w \in Writers : wPc[w] = "idle"
    <3>1. /\ NvsInv /\ Reading /\ rPc = "scan" /\ rIdx < rCount /\ rIdx < NvsMax
          /\ \A w \in Writers : wPc[w] = "idle"
          /\ count \in 0 .. NvsMax /\ rIdx \in Nat /\ rIdx \in Keys
          /\ UNCHANGED <<nvs, rCount, rDone, delivered>>
      BY <1>2, <2>1 DEF ReplayRead, ScanOver, KeepInv, NvsInv, ReplayInv, Reading, Alone, Keys
    <3>2. CASE key[rIdx] = None
      <4>1. rIdx' = rIdx + 1 /\ rPc' = "scan"
        BY <1>2, <3>1, <3>2 DEF ReplayRead
      <4> QED BY <3>1, <4>1 DEF Reading, ReplayInv, Stored, Below, nvs
    <3>3. CASE key[rIdx] # None
      <4>1. rItem' = key[rIdx] /\ rPc' = "post" /\ rIdx' = rIdx
        BY <1>2, <3>3 DEF ReplayRead
      <4> QED BY <3>1, <4>1 DEF Reading, ReplayInv, Stored, Below, nvs
    <3> QED BY <3>2, <3>3
  <2> QED BY <1>2, <2>1, ReplayStep DEF ReplayRead
<1>3. CASE ReplaySucceeds \/ \E taken \in BOOLEAN : ReplayFails(taken)
  <2>1. ASSUME ~raced PROVE ReplayInv' /\ Stored' = Stored /\ \A w \in Writers : wPc[w] = "idle"
    <3>1. /\ NvsInv /\ Reading /\ rPc = "post" /\ \A w \in Writers : wPc[w] = "idle"
          /\ UNCHANGED <<nvs, rIdx, rCount, rDone>>
          /\ \/ rPc' = "remove" /\ rItem' = rItem /\ rItem' \in delivered'
             \/ rPc' = "compact"
      BY <1>3, <2>1 DEF ReplaySucceeds, ReplayFails, KeepInv, NvsInv, ReplayInv, Alone
    <3> QED BY <3>1 DEF Reading, ReplayInv, Stored, Below, nvs
  <2>2. delivered \subseteq delivered' /\ UNCHANGED raced
    BY <1>3 DEF ReplaySucceeds, ReplayFails
  <2> QED BY <1>3, <2>1, <2>2, ReplayStep DEF ReplaySucceeds, ReplayFails
<1>4. CASE ReplaySave
  <2>1. SenderInv' /\ Volatile' = Volatile
    BY <1>4 DEF ReplaySave, KeepInv, SenderInv, Volatile, queues, sender, writers
  <2>2. ASSUME ~raced' PROVE NvsInv' /\ AllThere'
    <3>1. /\ NvsInv /\ AllThere /\ rPc = "save" /\ rPc' = "idle" /\ count' = rCount
          /\ rCount \in 0 .. NvsMax /\ \A w \in Writers : wPc[w] = "idle"
          /\ UNCHANGED <<produced, key, writers, delivered, lost>>
      BY <1>4, <2>2 DEF ReplaySave, KeepInv, NvsInv, ReplayInv, Alone
    <3>2. Stored' = Stored
      BY <3>1 DEF Stored, Below
    <3>3. WriterInv' /\ ReplayInv' /\ Alone'
      BY <3>1 DEF NvsInv, WriterInv, ReplayInv, Alone, writers
    <3> QED BY <2>1, <3>1, <3>2, <3>3 DEF NvsInv, AllThere
  <2> QED BY <2>1, <2>2 DEF KeepInv
<1> QED BY <1>1, <1>2, <1>3, <1>4

(* An entry is removed only once the server has accepted it.                *)
LEMMA RemoveKept ==
    ASSUME KeepInv, ReplayRemove
    PROVE  KeepInv'
<1>1. SenderInv' /\ Volatile' = Volatile
  BY DEF ReplayRemove, KeepInv, SenderInv, Volatile, queues, sender, writers
<1> SUFFICES ASSUME ~raced' PROVE NvsInv' /\ AllThere'
  BY <1>1 DEF KeepInv
<1>2. /\ NvsInv /\ AllThere /\ Reading /\ rPc = "remove" /\ rPc' = "scan"
      /\ \A w \in Writers : wPc[w] = "idle"
      /\ rIdx \in Keys /\ key[rIdx] = rItem /\ rItem \in delivered /\ rIdx < count
      /\ key' = [key EXCEPT ![rIdx] = None]
      /\ rDone' = rDone + 1 /\ rIdx' = rIdx + 1
      /\ UNCHANGED <<produced, writers, count, rCount, delivered, lost>>
  BY DEF ReplayRemove, KeepInv, NvsInv, ReplayInv, Reading, Alone
<1>3. /\ key' \in [Keys -> Posts \cup {None}] /\ key'[rIdx] = None
      /\ \A k \in Keys : k # rIdx => key'[k] = key[k]
  BY <1>2 DEF NvsInv
<1>4. Reading'
  <2>1. rIdx \in 0 .. count /\ rDone \in 0 .. rIdx /\ count \in Nat
    BY <1>2, BoundAssumption DEF Reading, NvsInv
  <2>2. rDone' = rIdx' => \A k \in Keys : k < rIdx' => key'[k] = None
    <3>2. SUFFICES ASSUME rDone' = rIdx', NEW k \in Keys, k < rIdx' PROVE key'[k] = None
      OBVIOUS
    <3>1. rDone = rIdx /\ (k < rIdx \/ k = rIdx)
      <4>1. k \in Nat /\ rDone \in Nat /\ rIdx \in Nat
        BY <2>1, BoundAssumption DEF Keys
      <4>2. rDone' = rDone + 1 /\ rIdx' = rIdx + 1
        BY <1>2
      <4>3. rDone = rIdx
        <5>1. rDone + 1 = rIdx + 1
          BY <3>2, <4>2, Zenon
        <5> QED BY <4>1, <5>1
      <4>4. k < rIdx + 1
        BY <3>2, <4>2
      <4> QED BY <4>1, <4>3, <4>4
    <3> QED BY <1>2, <1>3, <3>1 DEF Reading
  <2> QED BY <1>2, <2>1, <2>2 DEF Reading
<1>5. WriterInv' /\ ReplayInv' /\ Alone'
  BY <1>2, <1>4 DEF NvsInv, WriterInv, ReplayInv, Alone, writers
<1>6. Stored \subseteq Stored' \cup delivered
  BY <1>2, <1>3 DEF Stored, Below
<1> QED BY <1>1, <1>2, <1>3, <1>5, <1>6 DEF NvsInv, AllThere

(* The rank of a remaining entry is a key of its own below their number.    *)
LEMMA Ranks ==
    /\ rCount \in Nat => Cardinality(Kept) \in 0 .. rCount
    /\ \A k \in Kept : Rank(k) \in Keys /\ Rank(k) < Cardinality(Kept)
    /\ \A j, k \in Kept : Rank(j) = Rank(k) => j = k
<1> DEFINE Under(k) == {j \in Kept : j < k}
<1>1. NvsMax \in Nat \ {0} /\ Kept \subseteq Keys /\ Keys \subseteq Nat
  BY BoundAssumption DEF Kept, Keys
<1>2. IsFiniteSet(Kept) /\ Cardinality(Kept) \in Nat /\ Cardinality(Kept) <= NvsMax
  <2>1. IsFiniteSet(Keys) /\ Cardinality(Keys) = NvsMax
    <3>1. 0 \in Int /\ NvsMax - 1 \in Int
      BY <1>1
    <3>2. Cardinality(0 .. NvsMax - 1) = IF 0 > NvsMax - 1 THEN 0 ELSE NvsMax - 1 - 0 + 1
      BY <3>1, FS_Interval
    <3>3. IsFiniteSet(0 .. NvsMax - 1)
      BY <3>1, FS_Interval
    <3> QED BY <1>1, <3>2, <3>3 DEF Keys
  <2>2. IsFiniteSet(Kept) /\ Cardinality(Kept) <= NvsMax
    BY <1>1, <2>1, FS_Subset
  <2> QED BY <2>2, FS_CardinalityType
<1>3. ASSUME rCount \in Nat PROVE Cardinality(Kept) \in 0 .. rCount
  <2>1. 0 \in Int /\ rCount - 1 \in Int
    BY <1>3
  <2>2. Cardinality(0 .. rCount - 1) = IF 0 > rCount - 1 THEN 0 ELSE rCount - 1 - 0 + 1
    BY <2>1, FS_Interval
  <2>3. IsFiniteSet(0 .. rCount - 1)
    BY <2>1, FS_Interval
  <2>4. Kept \subseteq 0 .. rCount - 1
    <3> SUFFICES ASSUME NEW k \in Kept PROVE k \in 0 .. rCount - 1
      OBVIOUS
    <3>1. k \in Nat /\ k < rCount
      BY <1>1 DEF Kept
    <3> QED BY <1>3, <3>1
  <2>5. Cardinality(Kept) <= Cardinality(0 .. rCount - 1)
    BY <2>3, <2>4, FS_Subset
  <2> QED BY <1>2, <1>3, <2>2, <2>5
<1>4. \A k \in Kept : IsFiniteSet(Under(k)) /\ Rank(k) = Cardinality(Under(k)) /\ Rank(k) \in Nat
  <2> SUFFICES ASSUME NEW k \in Kept
               PROVE  IsFiniteSet(Under(k)) /\ Rank(k) = Cardinality(Under(k)) /\ Rank(k) \in Nat
    OBVIOUS
  <2>1. IsFiniteSet(Under(k))
    BY <1>2, FS_Subset
  <2> QED BY <2>1, FS_CardinalityType DEF Rank
<1>5. ASSUME NEW k \in Kept PROVE Rank(k) < Cardinality(Kept)
  <2>1. Under(k) \in SUBSET Kept /\ k \notin Under(k)
    BY <1>1
  <2>2. Cardinality(Under(k)) <= Cardinality(Kept) /\ Cardinality(Kept) # Cardinality(Under(k))
    BY <1>2, <2>1, FS_Subset
  <2> QED BY <1>2, <1>4, <2>2
<1>6. ASSUME NEW j \in Kept, NEW k \in Kept, j < k PROVE Rank(j) # Rank(k)
  <2>1. Under(j) \in SUBSET Under(k)
    <3> SUFFICES ASSUME NEW h \in Kept, h < j PROVE h < k
      OBVIOUS
    <3>1. h \in Nat /\ j \in Nat /\ k \in Nat
      BY <1>1
    <3> QED BY <1>6, <3>1
  <2>3. j \in Under(k) /\ ~(j < j)
    BY <1>1, <1>6
  <2>4. Under(j) # Under(k)
    BY <2>3
  <2>2. Cardinality(Under(k)) # Cardinality(Under(j))
    BY <1>4, <2>1, <2>4, FS_Subset
  <2> QED BY <1>4, <2>2
<1>7. \A j, k \in Kept : j < k \/ k < j \/ j = k
  BY <1>1
<1>8. ASSUME NEW k \in Kept PROVE Rank(k) \in Keys
  <2>1. Rank(k) \in Nat /\ Rank(k) < Cardinality(Kept)
    BY <1>4, <1>5, <1>8
  <2> QED BY <1>1, <1>2, <2>1 DEF Keys
<1> QED BY <1>3, <1>5, <1>6, <1>7, <1>8

LEMMA CompactKept ==
    ASSUME KeepInv, ReplayCompact
    PROVE  KeepInv'
<1>1. SenderInv' /\ Volatile' = Volatile
  BY DEF ReplayCompact, KeepInv, SenderInv, Volatile, queues, sender, writers
<1> SUFFICES ASSUME ~raced' PROVE NvsInv' /\ AllThere'
  BY <1>1 DEF KeepInv
<1> DEFINE left == IF rCount > rDone THEN rCount - rDone ELSE 0
<1>2. /\ NvsInv /\ AllThere /\ Reading /\ rPc # "save" /\ rPc' = "save"
      /\ \A w \in Writers : wPc[w] = "idle"
      /\ IF rDone > 0 /\ left > 0 THEN key' = Compacted /\ rCount' = Cardinality(Kept)
                                  ELSE rCount' = left /\ UNCHANGED key
      /\ UNCHANGED <<produced, count, writers, delivered, lost>>
  BY DEF ReplayCompact, KeepInv, NvsInv, ReplayInv, Alone
<1>3. /\ count \in Nat /\ rDone \in Nat /\ rIdx \in Nat /\ rCount = count
      /\ rDone <= rIdx /\ rIdx <= count /\ NvsMax \in Nat
  BY <1>2, BoundAssumption DEF NvsInv, Reading
<1>4. Stored = Below(count) /\ \A k \in Keys : k < count /\ key[k] # None <=> k \in Kept
  BY <1>2, <1>3 DEF Stored, Kept
<1>5. ASSUME key' \in [Keys -> Posts \cup {None}], rCount' \in 0 .. count, Stored \subseteq Stored'
      PROVE  NvsInv' /\ AllThere'
  <2>1. WriterInv' /\ ReplayInv' /\ Alone'
    BY <1>2, <1>5 DEF NvsInv, WriterInv, ReplayInv, Alone, writers
  <2> QED BY <1>1, <1>2, <1>5, <2>1 DEF NvsInv, AllThere
<1>6. CASE rDone > 0 /\ left > 0
  <2>1. key' = Compacted /\ rCount' = Cardinality(Kept)
    BY <1>2, <1>6
  <2>2. rCount' \in 0 .. count
    BY <1>3, <2>1, Ranks
  <2>3. key' \in [Keys -> Posts \cup {None}]
    <3> SUFFICES ASSUME NEW d \in Keys PROVE Compacted[d] \in Posts \cup {None}
      BY <2>1 DEF Compacted
    <3>1. key \in [Keys -> Posts \cup {None}] /\ Kept \subseteq Keys
      BY <1>2 DEF NvsInv, Kept
    <3>2. CASE \E k \in Kept : Rank(k) = d
      <4>1. PICK k \in Kept : Compacted[d] = key[k]
        BY <3>2 DEF Compacted
      <4> QED BY <3>1, <4>1
    <3>3. CASE ~\E k \in Kept : Rank(k) = d
      BY <3>1, <3>3 DEF Compacted
    <3> QED BY <3>2, <3>3
  <2>4. ASSUME NEW k \in Kept PROVE key[k] \in Stored'
    <3>1. Rank(k) \in Keys /\ Rank(k) < rCount'
      BY <2>1, Ranks
    <3>2. (CHOOSE j \in Kept : Rank(j) = Rank(k)) = k
      BY Ranks
    <3>3. Compacted[Rank(k)] = key[k]
      BY <3>1, <3>2 DEF Compacted
    <3>4. key'[Rank(k)] = key[k] /\ key[k] # None
      BY <2>1, <3>3 DEF Kept
    <3>5. Stored' = {key'[j] : j \in {h \in Keys : h < rCount'}} \ {None}
      BY <1>2 DEF Stored, Below
    <3> QED BY <3>1, <3>4, <3>5
  <2>5. Stored \subseteq Stored'
    BY <1>4, <2>4 DEF Below
  <2> QED BY <1>5, <2>2, <2>3, <2>5
<1>7. CASE ~(rDone > 0 /\ left > 0)
  <2>1. UNCHANGED key /\ rCount' = left
    BY <1>2, <1>7
  <2>2. rCount' \in 0 .. count
    BY <1>3, <2>1
  <2>3. rCount' = count \/ (rDone = rIdx /\ rIdx = count)
    BY <1>3, <1>7, <2>1
  <2>4. Stored \subseteq Stored'
    <3>1. CASE rCount' = count
      BY <1>2, <1>4, <2>1, <3>1 DEF Stored, Below
    <3>2. CASE rDone = rIdx /\ rIdx = count
      <4>1. \A k \in Keys : k < count => key[k] = None
        BY <1>2, <3>2 DEF Reading
      <4> QED BY <1>4, <4>1 DEF Below
    <3> QED BY <2>3, <3>1, <3>2
  <2>5. key' \in [Keys -> Posts \cup {None}]
    BY <1>2, <2>1 DEF NvsInv
  <2> QED BY <1>5, <2>2, <2>4, <2>5
<1> QED BY <1>6, <1>7

Queues == Elems(ram) \cup Ids(netQ) \cup Ids(senderQ) \cup Ids(hand)

LEMMA InQueues == Volatile = Queues \cup ({wItem[w] : w \in Writers} \ {None})
BY DEF Volatile, Queues, Elems

(* A step on the queues alone keeps everything if what leaves a queue is in *)
(* another one, delivered, or dropped.                                      *)
LEMMA MoveStep ==
    ASSUME KeepInv, SenderInv', UNCHANGED <<produced, nvs, writers, replay, raced>>,
           delivered \subseteq delivered', lost \subseteq lost',
           Queues \subseteq Queues' \cup delivered' \cup lost'
    PROVE  KeepInv'
<1>1. UNCHANGED wItem
  BY DEF writers
<1>2. Volatile \subseteq Volatile' \cup delivered' \cup lost'
  BY <1>1 DEF Volatile, Queues, Elems
<1> QED BY <1>2, QuietStep

LEMMA IdsOf ==
    ASSUME NEW q \in Seq(Entries)
    PROVE  /\ \A e \in Entries : Ids(Append(q, e)) = Ids(q) \cup {e.id} /\ Ids(<<e>>) = {e.id}
           /\ q # <<>> => /\ Head(q) \in Entries
                          /\ Ids(q) \subseteq {Head(q).id} \cup Ids(Tail(q))
           /\ Len(q) = 1 => q[1] \in Entries /\ Ids(q) = {q[1].id}
<1>1. ASSUME NEW e \in Entries PROVE Ids(Append(q, e)) = Ids(q) \cup {e.id} /\ Ids(<<e>>) = {e.id}
  <2>1. Elems(Append(q, e)) = Elems(q) \cup {e} /\ Elems(<<e>>) = {e}
    BY Elements
  <2> QED BY <2>1, IdsElems DEF Held
<1>2. ASSUME q # <<>> PROVE Head(q) \in Entries /\ Ids(q) \subseteq {Head(q).id} \cup Ids(Tail(q))
  <2>1. Elems(q) \subseteq {Head(q)} \cup Elems(Tail(q)) /\ Head(q) \in Entries
    BY <1>2, Moved
  <2> QED BY <2>1, IdsElems DEF Held
<1>3. ASSUME Len(q) = 1 PROVE q[1] \in Entries /\ Ids(q) = {q[1].id}
  <2>1. 1 .. Len(q) = {1}
    BY <1>3
  <2> QED BY <2>1 DEF Ids
<1> QED BY <1>1, <1>2, <1>3

LEMMA AutoKept ==
    ASSUME KeepInv, PipeType, AutoTask
    PROVE  KeepInv'
<1>1. netQ \in Seq(Entries) /\ ram \in Seq(Posts)
  BY DEF PipeType
<1>2. CASE UpdateReplay
  <2>1. /\ netQ' = ReplayRam(netQ, ram).net /\ ram' = ReplayRam(netQ, ram).ram
        /\ SlotsUsed(netQ) <= NetMax
        /\ UNCHANGED <<produced, senderQ, sender, nvs, writers, replay, delivered, lost, raced>>
    BY <1>1, <1>2, BoundAssumption DEF UpdateReplay, Accepts, SlotsUsed
  <2>2. Queues \subseteq Queues' /\ SenderInv'
    BY <1>1, <2>1, RamReplayed DEF Queues, sender, KeepInv, SenderInv
  <2> QED BY <2>1, <2>2, MoveStep
<1>3. ASSUME NEW n \in Seqs, SdReplay(n) PROVE KeepInv'
  <2>1. /\ netQ' = Append(netQ, [id |-> sd[n], sd |-> n]) /\ sd[n] # None
        /\ UNCHANGED <<produced, ram, senderQ, sender, nvs, writers, replay, delivered, lost, raced>>
    BY <1>3 DEF SdReplay
  <2>2. PICK e \in Entries : netQ' = Append(netQ, e)
    <3>1. [id |-> sd[n], sd |-> n] \in Entries
      BY <2>1 DEF PipeType, Entries
    <3> QED BY <2>1, <3>1
  <2>3. Ids(netQ) \subseteq Ids(netQ')
    <3>1. netQ \in Seq(Entries) /\ Ids(Append(netQ, e)) = Ids(netQ) \cup {e.id}
      BY <1>1, <2>2, IdsOf
    <3> QED BY <2>2, <3>1
  <2>4. Queues \subseteq Queues' /\ SenderInv'
    BY <2>1, <2>3 DEF Queues, sender, KeepInv, SenderInv
  <2> QED BY <2>1, <2>4, MoveStep
<1> QED BY <1>2, <1>3, ScanKept, RemoveKept, CompactKept DEF AutoTask

LEMMA NetKept ==
    ASSUME KeepInv, PipeType, Net
    PROVE  KeepInv'
<1>1. netQ \in Seq(Entries) /\ senderQ \in Seq(Entries)
  BY DEF PipeType
<1>2. CASE NetDispatch
  <2>1. /\ netQ # <<>> /\ netQ' = Tail(netQ)
        /\ UNCHANGED <<produced, ram, sender, nvs, replay, delivered>>
        /\ \/ senderQ' = Append(senderQ, Head(netQ)) /\ UNCHANGED <<writers, lost, raced>>
           \/ QueueFailedPost("net", Head(netQ).id) /\ UNCHANGED senderQ
    BY <1>2 DEF NetDispatch
  <2>2. Head(netQ) \in Entries /\ Ids(netQ) \subseteq {Head(netQ).id} \cup Ids(netQ')
    BY <1>1, <2>1, IdsOf
  <2>3. SenderInv' /\ Head(netQ).id \in Posts /\ "net" \in Writers
    BY <2>1, <2>2 DEF KeepInv, SenderInv, sender, Entries, Writers
  <2>4. CASE senderQ' = Append(senderQ, Head(netQ)) /\ UNCHANGED <<writers, lost, raced>>
    <3>1. Ids(senderQ') = Ids(senderQ) \cup {Head(netQ).id}
      BY <1>1, <2>2, <2>4, IdsOf
    <3>2. Queues \subseteq Queues'
      BY <2>1, <2>2, <3>1 DEF Queues, sender
    <3> QED BY <2>1, <2>3, <2>4, <3>2, MoveStep
  <2>5. CASE QueueFailedPost("net", Head(netQ).id) /\ UNCHANGED senderQ
    <3>1. Queues \subseteq Elems(ram)' \cup Ids(netQ)' \cup Ids(senderQ)' \cup Ids(hand)'
                            \cup {Head(netQ).id}
      BY <2>1, <2>2, <2>5 DEF Queues, sender
    <3> QED BY <2>1, <2>3, <2>5, <3>1, QueueStep DEF Queues
  <2> QED BY <2>1, <2>4, <2>5
<1>3. CASE NetDrain
  <2>1. /\ netQ # <<>> /\ netQ' = Tail(netQ) /\ lost' = lost \cup {Head(netQ).id}
        /\ UNCHANGED <<produced, ram, senderQ, sender, nvs, writers, replay, delivered, raced>>
    BY <1>3 DEF NetDrain
  <2>2. Ids(netQ) \subseteq {Head(netQ).id} \cup Ids(netQ')
    BY <1>1, <2>1, IdsOf
  <2>3. Queues \subseteq Queues' \cup lost' /\ SenderInv'
    BY <2>1, <2>2 DEF Queues, sender, KeepInv, SenderInv
  <2> QED BY <2>1, <2>3, MoveStep
<1>4. CASE WriteEntry("net") \/ SaveCount("net")
  BY <1>4, WriteKept, SaveKept DEF Writers
<1> QED BY <1>2, <1>3, <1>4 DEF Net

LEMMA SenderKept ==
    ASSUME KeepInv, PipeType, Sender
    PROVE  KeepInv'
<1>1. senderQ \in Seq(Entries) /\ hand \in Seq(Entries)
  BY DEF PipeType
<1>2. senderPc = "idle" => Ids(hand) = {}
  BY DEF KeepInv, SenderInv, Ids
<1>3. senderPc # "idle" => Len(hand) = 1 /\ Ids(hand) = {hand[1].id} /\ hand[1].id \in Posts
  <2>1. senderPc # "idle" => Len(hand) = 1
    BY DEF KeepInv, SenderInv, PipeType
  <2> QED BY <1>1, <2>1, IdsOf DEF Entries
<1>4. Ids(<<>>) = {} /\ "sender" \in Writers
  BY DEF Ids, Writers
<1>5. CASE SenderTake
  <2>1. /\ senderPc = "idle" /\ senderQ # <<>> /\ senderQ' = Tail(senderQ)
        /\ hand' = <<Head(senderQ)>> /\ senderPc' = "taken"
        /\ UNCHANGED <<produced, ram, netQ, nvs, writers, replay, delivered, lost, raced>>
    BY <1>5 DEF SenderTake
  <2>2. Ids(senderQ) \subseteq Ids(hand') \cup Ids(senderQ')
    BY <1>1, <2>1, IdsOf
  <2>3. Queues \subseteq Queues' /\ SenderInv'
    BY <1>2, <2>1, <2>2 DEF Queues, SenderInv
  <2> QED BY <2>1, <2>3, MoveStep
<1>6. CASE SenderDefer
  <2>1. /\ senderPc = "taken" /\ hand' = <<>> /\ senderPc' = "idle"
        /\ UNCHANGED <<produced, ram, netQ, nvs, replay, delivered>>
        /\ \/ senderQ' = hand \o senderQ /\ UNCHANGED <<writers, lost, raced>>
           \/ QueueFailedPost("sender", hand[1].id) /\ UNCHANGED senderQ
    BY <1>6 DEF SenderDefer
  <2>2. SenderInv'
    BY <2>1 DEF SenderInv
  <2>3. CASE senderQ' = hand \o senderQ /\ UNCHANGED <<writers, lost, raced>>
    <3>1. Elems(hand) \cup Elems(senderQ) \subseteq Elems(senderQ')
      BY <1>1, <2>3, Moved
    <3>2. Ids(hand) \cup Ids(senderQ) \subseteq Ids(senderQ')
      BY <3>1, IdsElems DEF Held
    <3>3. Queues \subseteq Queues'
      BY <2>1, <3>2 DEF Queues
    <3> QED BY <2>1, <2>2, <2>3, <3>3, MoveStep
  <2>4. CASE QueueFailedPost("sender", hand[1].id) /\ UNCHANGED senderQ
    <3>1. Queues \subseteq Elems(ram)' \cup Ids(netQ)' \cup Ids(senderQ)' \cup Ids(hand)'
                            \cup {hand[1].id}
      BY <1>3, <2>1, <2>4 DEF Queues
    <3> QED BY <1>3, <1>4, <2>1, <2>2, <2>4, <3>1, QueueStep DEF Queues
  <2> QED BY <2>1, <2>3, <2>4
<1>7. CASE SenderOffline
  <2>1. /\ senderPc = "taken" /\ hand' = <<>> /\ senderPc' = "idle"
        /\ lost' = lost \cup {hand[1].id}
        /\ UNCHANGED <<produced, queues, nvs, writers, replay, delivered, raced>>
    BY <1>7 DEF SenderOffline
  <2>2. Queues \subseteq Queues' \cup lost' /\ SenderInv'
    BY <1>3, <2>1 DEF Queues, queues, SenderInv
  <2> QED BY <2>1, <2>2, MoveStep
<1>8. ASSUME NEW taken \in BOOLEAN, SenderFails(taken) PROVE KeepInv'
  <2>1. /\ senderPc = "taken" /\ hand' = <<>> /\ senderPc' = "idle"
        /\ QueueFailedPost("sender", hand[1].id) /\ delivered \subseteq delivered'
        /\ UNCHANGED <<produced, queues, nvs, replay>>
    BY <1>8 DEF SenderFails
  <2>2. SenderInv'
    BY <2>1 DEF SenderInv
  <2>3. Queues \subseteq Elems(ram)' \cup Ids(netQ)' \cup Ids(senderQ)' \cup Ids(hand)'
                          \cup {hand[1].id}
    BY <1>3, <2>1 DEF Queues, queues
  <2> QED BY <1>3, <1>4, <2>1, <2>2, <2>3, QueueStep DEF Queues
<1>9. CASE SenderSucceeds
  <2>1. /\ senderPc' = "sent" /\ delivered' = delivered \cup {hand[1].id}
        /\ UNCHANGED <<produced, queues, hand, nvs, writers, replay, lost, raced>>
    BY <1>9 DEF SenderSucceeds
  <2>2. Queues \subseteq Queues' /\ SenderInv'
    BY <2>1 DEF Queues, queues, SenderInv
  <2> QED BY <2>1, <2>2, MoveStep
<1>10. CASE SenderMark
  <2>1. /\ senderPc = "sent" /\ hand' = <<>> /\ senderPc' = "idle"
        /\ UNCHANGED <<produced, queues, nvs, writers, replay, delivered, lost, raced>>
    BY <1>10 DEF SenderMark
  <2>2. Queues \subseteq Queues' \cup delivered' /\ SenderInv'
    BY <1>3, <2>1 DEF Queues, queues, KeepInv, SenderInv
  <2> QED BY <2>1, <2>2, MoveStep
<1>11. CASE WriteEntry("sender") \/ SaveCount("sender")
  BY <1>4, <1>11, WriteKept, SaveKept
<1> QED BY <1>5, <1>6, <1>7, <1>8, <1>9, <1>10, <1>11 DEF Sender

(* A new measurement is in a queue at once; the RAM queue drops only its    *)
(* oldest one, when it is full.                                             *)
LEMMA SendKept ==
    ASSUME KeepInv, PipeType, NEW stored \in BOOLEAN, SendFullUpdate(stored)
    PROVE  KeepInv'
<1> DEFINE i == produced + 1
           e == [id |-> i, sd |-> IF stored THEN nextSeq ELSE None]
           q == Append(netQ, e)
<1>1. /\ netQ \in Seq(Entries) /\ ram \in Seq(Posts) /\ i \in Posts /\ e \in Entries
      /\ produced \in Nat /\ e.id = i
  BY BoundAssumption DEF SendFullUpdate, PipeType, Posts, Seqs, Entries
<1>2. /\ produced' = produced + 1
      /\ UNCHANGED <<senderQ, sender, nvs, writers, replay, delivered, raced>>
      /\ \/ /\ Accepts(netQ) /\ UNCHANGED lost
            /\ netQ' = ReplayRam(q, ram).net /\ ram' = ReplayRam(q, ram).ram
         \/ /\ UNCHANGED netQ
            /\ ram' = IF Len(ram) < RamMax THEN Append(ram, i) ELSE Append(Tail(ram), i)
            /\ lost' = IF Len(ram) < RamMax THEN lost ELSE lost \cup {Head(ram)}
  BY DEF SendFullUpdate
<1>4. 1 .. produced' = (1 .. produced) \cup {i}
  BY <1>1, <1>2
<1> HIDE DEF i, e
<1>3. q \in Seq(Entries) /\ Ids(q) = Ids(netQ) \cup {i} /\ Len(q) = Len(netQ) + 1
  <2>1. q \in Seq(Entries) /\ Len(q) = Len(netQ) + 1
    BY <1>1
  <2>2. Ids(q) = Ids(netQ) \cup {e.id}
    BY <1>1, IdsOf
  <2> QED BY <1>1, <2>1, <2>2
<1> HIDE DEF q
<1>5. lost \subseteq lost' /\ Queues \cup {i} \subseteq Queues' \cup lost' /\ i \in Queues'
  <2>1. CASE Accepts(netQ) /\ netQ' = ReplayRam(q, ram).net /\ ram' = ReplayRam(q, ram).ram
             /\ UNCHANGED lost
    <3>1. SlotsUsed(q) <= NetMax
      BY <1>1, <1>3, <2>1, BoundAssumption DEF Accepts, SlotsUsed
    <3>2. Ids(q) \cup Elems(ram) \subseteq Ids(netQ') \cup Elems(ram')
      BY <1>1, <1>3, <2>1, <3>1, RamReplayed
    <3> QED BY <1>2, <1>3, <2>1, <3>2 DEF Queues, sender
  <2>2. CASE /\ UNCHANGED netQ
             /\ ram' = IF Len(ram) < RamMax THEN Append(ram, i) ELSE Append(Tail(ram), i)
             /\ lost' = IF Len(ram) < RamMax THEN lost ELSE lost \cup {Head(ram)}
    <3>1. CASE Len(ram) < RamMax
      <4>1. Elems(ram') = Elems(ram) \cup {i}
        <5>1. ram \in Seq(Posts) /\ i \in Posts /\ ram' = Append(ram, i)
          BY <1>1, <2>2, <3>1
        <5> QED BY <5>1, Elements
      <4> QED BY <1>2, <2>2, <3>1, <4>1 DEF Queues, sender
    <3>2. CASE ~(Len(ram) < RamMax)
      <4>1. ram # <<>>
        BY <3>2, BoundAssumption
      <4>2. Tail(ram) \in Seq(Posts) /\ Elems(ram) \subseteq {Head(ram)} \cup Elems(Tail(ram))
        BY <1>1, <4>1, Elements, Moved
      <4>3. Elems(ram') = Elems(Tail(ram)) \cup {i}
        <5>1. Tail(ram) \in Seq(Posts) /\ i \in Posts /\ ram' = Append(Tail(ram), i)
          BY <1>1, <2>2, <3>2, <4>2
        <5>2. \A r \in Seq(Posts) : Elems(Append(r, i)) = Elems(r) \cup {i}
          BY <5>1, Elements
        <5> QED BY <5>1, <5>2, Zenon
      <4> QED BY <1>2, <2>2, <3>2, <4>2, <4>3 DEF Queues, sender
    <3> QED BY <3>1, <3>2
  <2> QED BY <1>2, <2>1, <2>2
<1>6. SenderInv'
  BY <1>2 DEF KeepInv, SenderInv, sender
<1>7. Volatile \subseteq Volatile' \cup lost' /\ i \in Volatile'
  <2>1. UNCHANGED wItem
    BY <1>2 DEF writers
  <2> QED BY <1>5, <2>1 DEF Volatile, Queues, Elems
<1> QED BY <1>2, <1>4, <1>5, <1>6, <1>7, QuietStep

(* A restart drops what was in RAM, and keeps the keys and their count.     *)
LEMMA ResetKept ==
    ASSUME KeepInv, NEW m \in {meta, 0}, Reset(m)
    PROVE  KeepInv'
<1>1. /\ senderPc' = "idle" /\ hand' = <<>> /\ rPc' = "idle"
      /\ wPc' = [w \in Writers |-> "idle"] /\ wItem' = [w \in Writers |-> None]
      /\ wCount' = [w \in Writers |-> 0] /\ lost' = lost \cup Volatile
      /\ UNCHANGED <<produced, key, count, delivered, raced>>
  BY DEF Reset, nvs
<1>2. SenderInv'
  BY <1>1 DEF SenderInv
<1>3. ASSUME ~raced' PROVE NvsInv' /\ AllThere'
  <2>1. NvsInv /\ AllThere
    BY <1>1, <1>3 DEF KeepInv
  <2>2. WriterInv' /\ ReplayInv' /\ Alone'
    BY <1>1, BoundAssumption DEF WriterInv, ReplayInv, Alone
  <2>3. Stored \subseteq Stored'
    <3>1. rPc = "save" => rCount \in 0 .. count
      BY <2>1 DEF NvsInv, ReplayInv
    <3>2. rPc = "save" => \A k \in Keys : k < rCount => k < count
      BY <2>1, <3>1 DEF Keys, NvsInv
    <3> QED BY <1>1, <3>2 DEF Stored, Below
  <2> QED BY <1>1, <2>1, <2>2, <2>3 DEF NvsInv, AllThere
<1> QED BY <1>2, <1>3 DEF KeepInv

LEMMA KeptStep == KeepInv /\ PipeType /\ [Next]_vars => KeepInv'
<1> SUFFICES ASSUME KeepInv, PipeType, [Next]_vars PROVE KeepInv'
  OBVIOUS
<1>1. ASSUME NEW stored \in {FALSE, BoardS3}, SendFullUpdate(stored) PROVE KeepInv'
  BY <1>1, SendKept, BoundAssumption
<1>2. CASE AutoTask
  BY <1>2, AutoKept
<1>3. CASE Net
  BY <1>3, NetKept
<1>4. CASE Sender
  BY <1>4, SenderKept
<1>5. CASE Environment \/ UNCHANGED vars
  <2>1. UNCHANGED <<produced, queues, sender, nvs, writers, replay, delivered, lost, raced>>
    BY <1>5 DEF Environment, vars, queues, sender, nvs, writers, replay
  <2>2. Queues' = Queues /\ SenderInv'
    BY <2>1 DEF Queues, queues, sender, KeepInv, SenderInv
  <2> QED BY <2>1, <2>2, MoveStep
<1>6. ASSUME NEW m \in {meta, 0}, Reset(m) PROVE KeepInv'
  BY <1>6, ResetKept
<1> QED BY <1>1, <1>2, <1>3, <1>4, <1>5, <1>6 DEF Next

(* Until two operations on the NVS queue overlap, a measurement disappears  *)
(* undelivered only where a stage drops it by design (queueFailedPost and   *)
(* processQueuedPosts of web_client.cpp, app_tasks.cpp, data_queue.cpp).    *)
THEOREM NothingVanishesCorrect == Spec => []NothingVanishes
<1>1. KeepInv => NothingVanishes
  <2> SUFFICES ASSUME KeepInv, ~raced
               PROVE  1 .. produced \subseteq delivered \cup lost \cup Volatile \cup Counted
    BY DEF NothingVanishes
  <2>1. NvsInv /\ AllThere
    BY DEF KeepInv
  <2>2. Below(count) = Counted
    BY DEF Below, Counted
  <2>3. rPc = "save" => Below(rCount) \subseteq Below(count)
    <3>1. rPc = "save" => \A k \in Keys : k < rCount => k < count
      BY <2>1 DEF NvsInv, ReplayInv, Keys
    <3> QED BY <3>1 DEF Below
  <2> QED BY <2>1, <2>2, <2>3 DEF AllThere, Stored
<1>2. SdInv => PipeType
  BY DEF SdInv
<1> QED BY <1>1, <1>2, SdInit, SdStep, KeptInit, KeptStep, PTL DEF Spec
=============================================================================
