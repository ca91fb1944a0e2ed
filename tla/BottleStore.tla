---------------------------- MODULE BottleStore ----------------------------
(***************************************************************************)
(* The bottle counter's memory: the append-only journal on the SD card,    *)
(* the backup ring and the totals in the NVS flash, the upload of batches  *)
(* and their acknowledgement (poissonglouton: pgl_counter.cpp,             *)
(* pgl_event_journal.cpp and tryUploadBatch of main.cpp).                  *)
(*                                                                         *)
(* A handler updates RAM at once and queues in `todo` the durable writes   *)
(* it makes, in the order of the code; WriteNext performs one of them, and *)
(* a reset may come between any two.  A record of 20 bytes is two half     *)
(* records, so that a short write is half a record and every later record  *)
(* is misaligned; offsets count halves.                                    *)
(***************************************************************************)
EXTENDS Integers, Sequences, FiniteSets, SequencesExt, FiniteSetsExt, TLC

CONSTANTS MaxBottles,    \* bottles put in the machine (bound)
          MaxResets,     \* power cuts and restarts (bound)
          MaxShort,      \* failed SD writes (bound)
          PersistEvery,  \* PGL_PERSIST_EVERY_EVENTS
          RingSize,      \* MAX_EVENTS
          BatchSize,     \* PGL_JOURNAL_BATCH_SIZE and PGL_BATCH_SIZE
          CompactAt      \* PGL_JOURNAL_COMPACT_THRESHOLD, in halves

ASSUME BottleAssumption ==
    {MaxBottles, PersistEvery, RingSize, BatchSize, CompactAt} \subseteq Nat \ {0}

RECORD_SIZE == 2

VARIABLES disk, todo, ram, seen, received, stored, resets, faults

vars == <<disk, todo, ram, seen, received, stored, resets, faults>>

NoEvent == [id |-> 0, bottle |-> 0]
NoFile == <<>>

(* What survives a reset: the two cursors, the counters and the ring in    *)
(* NVS; the journal, its backup and the compaction's temporary on the card *)
Disk0 == [woff |-> 0, aoff |-> 0, total |-> 0, nextId |-> 1, synced |-> 0,
          head |-> 0, size |-> 0, ring |-> [i \in 0..RingSize-1 |-> NoEvent],
          file |-> NoFile, bak |-> NoFile, tmp |-> NoFile]

Write(d, w) == [x \in DOMAIN d |-> IF x \in DOMAIN w THEN w[x] ELSE d[x]]

(* All the writes, in order: of each field the last one stays. *)
WriteAll(d, ws) ==
    [x \in DOMAIN d |-> LET to == {i \in DOMAIN ws : x \in DOMAIN ws[i]}
                        IN  IF to = {} THEN d[x] ELSE ws[Max(to)][x]]

-----------------------------------------------------------------------------
(* The journal file *)

Halves(e) == <<[e |-> e, half |-> 1], [e |-> e, half |-> 2]>>
Readable(f, off) ==
    /\ off + RECORD_SIZE <= Len(f)
    /\ f[off + 1].half = 1 /\ f[off + 2].half = 2
    /\ f[off + 1].e = f[off + 2].e

Good(f, from, to) == {o \in from..(to - RECORD_SIZE) :
                         (o - from) % RECORD_SIZE = 0 /\ Readable(f, o)}
Nth(offs, n) == CHOOSE o \in offs : Cardinality({p \in offs : p < o}) = n - 1

(* decodeRecord on each slot of [from, to): the events whose CRC is good,  *)
(* with the offset that follows each; a slot past the end of file stops    *)
Slots(f, from, to) ==
    LET good == Good(f, from, to)
    IN  [i \in 1..Cardinality(good) |->
            [e |-> f[Nth(good, i) + 1].e, next |-> Nth(good, i) + RECORD_SIZE]]

SumDeltas(f, from, to) == IF from < to THEN Len(Slots(f, from, to)) ELSE 0

canRead(r) == r.mounted /\ r.woff > r.aoff
pendingCount(r) == IF canRead(r) THEN (r.woff - r.aoff) \div RECORD_SIZE ELSE 0

readPending == IF ~canRead(ram) THEN <<>>
               ELSE LET s == Slots(disk.file, ram.aoff, ram.woff)
                    IN  SubSeq(s, 1, Min({BatchSize, Len(s)}))

findAckOffset(lastAckedId) ==
    LET hits == {s \in Range(Slots(disk.file, ram.aoff, ram.woff)) :
                    s.e.id = lastAckedId}
    IN  IF hits = {} THEN ram.aoff ELSE Min({s.next : s \in hits})

\* Mutant: append leaves woff to the next totals.
saveMetaAck(r) == <<[aoff |-> r.aoff]>>

saveMeta(r) == <<[woff |-> r.woff], [aoff |-> r.aoff]>>

-----------------------------------------------------------------------------
(* The counter *)

Ring(r) == [i \in 1..r.size |-> r.ring[(r.head + i - 1) % RingSize]]

persistTotals(r) ==
    <<[total |-> r.total], [nextId |-> r.nextId], [synced |-> r.synced]>>
persist(r) == persistTotals(r) \o
    <<[head |-> r.head], [size |-> r.size], [ring |-> r.ring]>>
AfterPersist(r) == [r EXCEPT !.dirty = FALSE, !.totalsDirty = FALSE, !.since = 0]

(* events of the batch up to the first one above lastAckedId *)
countAckedInBatch(lastAckedId, ids) ==
    LET above == {i \in DOMAIN ids : ids[i] # 0 /\ ids[i] > lastAckedId}
    IN  IF above = {} THEN Len(ids) ELSE Min(above) - 1

(* total is raised to what is acknowledged, pending and queued together    *)
Reconciled(r, f) ==
    LET migrated == IF canRead(r) /\ r.synced = 0 /\ r.aoff > 0
                    THEN SumDeltas(f, 0, r.aoff) ELSE r.synced
        pending == IF canRead(r) THEN SumDeltas(f, r.aoff, r.woff) ELSE 0
    IN  [r EXCEPT !.synced = migrated,
                  !.total = Max({@, migrated + pending + r.size}),
                  !.totalsDirty = IF canRead(r) \/ migrated + r.size > r.total
                                  THEN FALSE ELSE @]
ReconcileWrites(r, f) ==
    IF canRead(r) \/ Reconciled(r, f).total # r.total
    THEN persistTotals(Reconciled(r, f)) ELSE <<>>

(* the event goes to the backup ring, over the oldest one when it is full  *)
Enqueued(r, e) ==
    IF r.size < RingSize
    THEN [r EXCEPT !.ring[(r.head + r.size) % RingSize] = e,
                   !.size = @ + 1, !.dirty = TRUE, !.since = @ + 1]
    ELSE [r EXCEPT !.ring[r.head] = e, !.head = (@ + 1) % RingSize,
                   !.dirty = TRUE, !.since = @ + 1]
QueueWrites(r) == IF r.since >= PersistEvery \/ r.size >= RingSize
                  THEN persist(r) ELSE persistTotals(r)
AfterQueue(r) == IF r.since >= PersistEvery \/ r.size >= RingSize
                 THEN AfterPersist(r)
                 ELSE [r EXCEPT !.totalsDirty = FALSE, !.since = 0]

-----------------------------------------------------------------------------
Ram0 == [woff |-> 0, aoff |-> 0, sdOk |-> TRUE, mounted |-> TRUE, total |-> 0, nextId |-> 1,
         synced |-> 0, head |-> 0, size |-> 0, ring |-> Disk0.ring,
         dirty |-> FALSE, totalsDirty |-> FALSE, since |-> 0]

Init == /\ disk = Disk0 /\ todo = <<>> /\ ram = Ram0
        /\ seen = 0 /\ received = {} /\ stored = {} /\ resets = 0
        /\ faults = {}

Idle == todo = <<>>

WriteNext == /\ todo # <<>>
             /\ disk' = Write(disk, Head(todo))
             /\ todo' = Tail(todo)
             /\ UNCHANGED <<ram, seen, received, stored, resets, faults>>

(* PglCounter::addEvent, the card accepting the record *)
AddToJournal ==
    /\ Idle /\ seen < MaxBottles /\ ram.sdOk
    /\ LET e == [id |-> ram.nextId, bottle |-> seen + 1]
           r == [ram EXCEPT !.total = @ + 1, !.nextId = @ + 1, !.since = @ + 1,
                            !.woff = @ + RECORD_SIZE, !.totalsDirty = TRUE]
           due == r.since >= PersistEvery
       IN  /\ ram' = IF due THEN [r EXCEPT !.since = 0, !.totalsDirty = FALSE]
                     ELSE r
           /\ todo' = <<[file |-> disk.file \o Halves(e)]>> \o saveMeta(r)
                      \o (IF due THEN persistTotals(r) ELSE <<>>)
    /\ seen' = seen + 1
    /\ UNCHANGED <<disk, received, stored, resets, faults>>

(* addEvent, the journal being out of order or failing on this record: the *)
(* card may have taken a part of it                                        *)
AddToRing(shortWrite) ==
    /\ Idle /\ seen < MaxBottles
    /\ ram.sdOk => Cardinality(faults \cap {"short", "refused"}) < MaxShort
    /\ ~ram.sdOk => ~shortWrite
    /\ LET e == [id |-> ram.nextId, bottle |-> seen + 1]
           r == Enqueued([ram EXCEPT !.total = @ + 1, !.nextId = @ + 1,
                                     !.sdOk = FALSE], e)
       IN  /\ ram' = AfterQueue(r)
           /\ todo' = (IF shortWrite
                       THEN <<[file |-> Append(disk.file, Halves(e)[1])]>>
                       ELSE <<>>) \o QueueWrites(r)
           /\ faults' = faults \cup (IF shortWrite THEN {"short"}
                                     ELSE IF ram.sdOk THEN {"refused"} ELSE {})
                               \cup (IF ram.size = RingSize THEN {"overwritten"}
                                     ELSE {})
    /\ seen' = seen + 1
    /\ UNCHANGED <<disk, received, stored, resets>>

(* the server keeps the first event it sees under an id (INSERT IGNORE) *)
Insert(evs) ==
    LET fresh == {e \in evs : e.id \notin {s.id : s \in stored}}
    IN  stored' = stored \cup {e \in fresh :
                      \A f \in fresh : f.id = e.id => e.bottle <= f.bottle}

(* the events of those slots, written again one after the other *)
Rewritten(keep) == [i \in 1..(RECORD_SIZE * Len(keep)) |->
                       [e |-> keep[(i + 1) \div RECORD_SIZE].e,
                        half |-> 1 + ((i + 1) % RECORD_SIZE)]]

compact(r, f) ==
    LET new == Rewritten(Slots(f, r.aoff, r.woff))
        r2 == [r EXCEPT !.woff = Len(new), !.aoff = 0]
    IN  IF ~r.sdOk \/ r.aoff < CompactAt \/ new = NoFile
        THEN [ram |-> r, writes |-> <<>>]
        ELSE [ram |-> r2,
              writes |-> <<[tmp |-> new],
                           [file |-> NoFile, bak |-> f],
                           [file |-> new, tmp |-> NoFile],
                           [bak |-> NoFile]>> \o saveMeta(r2)]

(* commitJournalAck: nothing moves when no event of the batch is at or     *)
(* below the id, nor when the journal does not hold that id                *)
Committed(ackId, ids) ==
    LET n == countAckedInBatch(ackId, ids)
        off == findAckOffset(ackId)
        r1 == [ram EXCEPT !.synced = @ + n, !.aoff = off]
        c == compact(r1, disk.file)
        cw == saveMeta(r1) \o c.writes
        f2 == WriteAll(disk, cw).file
        r2 == Reconciled(c.ram, f2)
    IN  IF n = 0 \/ off <= ram.aoff
        THEN [ram |-> ram, writes |-> <<>>]
        ELSE [ram |-> AfterPersist(r2),
              writes |-> cw \o ReconcileWrites(c.ram, f2) \o persist(r2)]

(* One turn of tryUploadBatch's drain of the journal.  The post may not    *)
(* arrive, its answer may be lost, and the answer may carry an id of the   *)
(* batch or none.                                                          *)
UploadJournal(ack) ==
    /\ Idle /\ pendingCount(ram) > 0 /\ readPending # <<>>
    /\ LET batch == [i \in DOMAIN readPending |-> readPending[i].e]
           ids == [i \in DOMAIN batch |-> batch[i].id]
           ackId == IF ack = 0 THEN Last(ids) ELSE ack
           c == Committed(ackId, ids)
       IN  /\ ack \in Range(ids) \cup {0, -1}
           /\ received' = received \cup {e.bottle : e \in Range(batch)}
           /\ Insert(Range(batch))
           /\ ram' = IF ack = -1 THEN ram ELSE c.ram
           /\ todo' = IF ack = -1 THEN <<>> ELSE c.writes
    /\ UNCHANGED <<disk, seen, resets, faults>>

(* The ring's turn.  An id above the batch's pops all of it, one below the *)
(* first keeps it, none pops what was sent.                                *)
UploadRing(ack) ==
    /\ Idle /\ ram.size > 0
    /\ LET batch == SubSeq(Ring(ram), 1, Min({BatchSize, ram.size}))
           ids == [i \in DOMAIN batch |-> batch[i].id]
           n == IF ack = 0 THEN Len(batch) ELSE countAckedInBatch(ack, ids)
           r == [ram EXCEPT !.synced = @ + n, !.size = @ - n,
                            !.head = (@ + n) % RingSize]
       IN  /\ ack \in Range(ids) \cup {0, -1}
           /\ received' = received \cup {e.bottle : e \in Range(batch)}
           /\ Insert(Range(batch))
           /\ ram' = IF ack = -1 \/ n = 0 THEN ram ELSE AfterPersist(r)
           /\ todo' = IF ack = -1 \/ n = 0 THEN <<>> ELSE persist(r)
    /\ UNCHANGED <<disk, seen, resets, faults>>

(* resetDailyIfNeeded on an ordinary turn of the loop *)
Reconcile == /\ Idle
             /\ ram' = Reconciled(ram, disk.file)
             /\ todo' = ReconcileWrites(ram, disk.file)
             /\ ram' # ram
             /\ UNCHANGED <<disk, seen, received, stored, resets, faults>>

(* flushIfDue after 30 s, and flush before a firmware update and before    *)
(* the deep sleep                                                          *)
Flush == /\ Idle
         /\ \/ ram.dirty /\ todo' = persist(ram) /\ ram' = AfterPersist(ram)
            \/ /\ ~ram.dirty /\ ram.totalsDirty
               /\ todo' = persistTotals(ram)
               /\ ram' = [ram EXCEPT !.totalsDirty = FALSE]
         /\ UNCHANGED <<disk, seen, received, stored, resets, faults>>

(* PglEventJournal::begin: woff past the file is brought back to it *)
Resynced(d) == LET f == (Len(d.file) \div RECORD_SIZE) * RECORD_SIZE
               IN  IF d.woff > Len(d.file)
                   THEN [woff |-> f, aoff |-> Min({d.aoff, f})]
                   ELSE [woff |-> d.woff, aoff |-> d.aoff]
Loaded(d, m, ok) ==
    [woff |-> m.woff, aoff |-> m.aoff, sdOk |-> ok, mounted |-> ok,
     total |-> d.total,
     nextId |-> d.nextId, synced |-> d.synced, head |-> d.head,
     size |-> d.size, ring |-> d.ring,
     dirty |-> FALSE, totalsDirty |-> FALSE, since |-> 0]

(* what a reset at this point undoes: a handler cut short, a compaction    *)
(* whose files and cursors do not agree yet, a ring that was only in RAM,  *)
(* an id that was given and not yet persisted                              *)
Swapping == \/ \E i \in DOMAIN todo : "bak" \in DOMAIN todo[i]
            \/ disk.woff > Len(disk.file)
            \/ disk.aoff > disk.woff
Undone == (IF todo # <<>> THEN {"cut"} ELSE {})
     \cup (IF Swapping THEN {"swap"} ELSE {})
     \cup (IF ram.dirty \/ \E i \in DOMAIN todo :
               "ring" \in DOMAIN todo[i] /\ todo[i].ring # disk.ring
           THEN {"ring"} ELSE {})
     \cup (IF ram.nextId # disk.nextId THEN {"id"} ELSE {})

(* A reset at any point, then setup(): the journal, then the counter.      *)
(* Without a card at boot the journal is left alone.                       *)
Reset(card) ==
    /\ resets < MaxResets
    /\ LET m == IF card THEN Resynced(disk)
                ELSE [woff |-> disk.woff, aoff |-> disk.aoff]
           l == Loaded(disk, m, card)
       IN  /\ ram' = Reconciled(l, disk.file)
           /\ todo' = (IF m.woff # disk.woff THEN saveMeta(m) ELSE <<>>)
                      \o ReconcileWrites(l, disk.file)
    /\ resets' = resets + 1
    /\ faults' = faults \cup Undone
    /\ UNCHANGED <<disk, seen, received, stored>>

AddShort == AddToRing(TRUE)
AddQueued == AddToRing(FALSE)
Restart == \E card \in BOOLEAN : Reset(card)
Upload == \E ack \in -1..MaxBottles : UploadJournal(ack)
UploadQueue == \E ack \in -1..MaxBottles : UploadRing(ack)

Next == WriteNext \/ AddToJournal \/ AddShort \/ AddQueued \/ Upload
        \/ UploadQueue \/ Reconcile \/ Flush \/ Restart

Spec == Init /\ [][Next]_vars

-----------------------------------------------------------------------------
(* the bottles an upload can still reach *)
Settled == WriteAll(disk, todo)
Reachable == {s.e.bottle : s \in Range(Slots(Settled.file, ram.aoff, ram.woff))}
        \cup {Ring(ram)[i].bottle : i \in 1..ram.size}
Lost == (1..seen) \ (received \cup Reachable)

(* A reset between two handlers loses no bottle: each one counted has been *)
(* posted, is pending in the journal or waits in the ring.                 *)
NoneLost == faults \cap {"cut", "ring", "short", "overwritten"} = {} => Lost = {}

(* The total shown is the number of bottles, whatever was acknowledged,    *)
(* queued or compacted.  A reset may come before persistTotals: as long as *)
(* the card is there, reconcileTotals finds the count again in the journal *)
(* and the ring, until an id given twice is acknowledged twice.            *)
TotalExact ==
    \/ faults \subseteq {"refused", "overwritten", "short"}
    \/ /\ faults \subseteq {"refused", "id"} /\ ram.mounted
       /\ received = {e.bottle : e \in stored}
    => ram.total = seen

(* The server stores every bottle it receives while no id was given twice. *)
StoredOnce == faults \cap {"id", "cut"} = {}
                => received = {e.bottle : e \in stored}

=============================================================================
