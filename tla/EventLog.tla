----------------------------- MODULE EventLog -----------------------------
(***************************************************************************)
(* The board's log of events, that a lost board is diagnosed with: a ring  *)
(* in RAM, saved slot by slot in flash, loaded again at each boot or wake, *)
(* sent to the server and emptied as it acknowledges; and the count of the *)
(* boots without a healthy contact, which leads to the safe mode.          *)
(* (n3_event_ring.h, n3_contact_diag.cpp and its copy in ffp5cs)           *)
(***************************************************************************)
EXTENDS Integers, FiniteSets, FiniteSetsExt

CONSTANTS Capacity,    \* kCapacity
          Fit,         \* events that fit in one report (700 characters)
          SafeAfter,   \* kSafeModeAfterFailedBoots
          MaxEvents    \* events logged (bound)

VARIABLES slots, head, nextSeq,  \* the ring in RAM
          nvs,                   \* its image in flash
          fails,                 \* s_failedBoots and its copy in flash (one value)
          up,                    \* the board: step, healthy, safe
          report,                \* an answer being read: the highest number it
                                 \* acknowledges, the slot the loop is at
          seen                   \* ghost
lvars == <<slots, head, nextSeq, nvs, fails, up, report, seen>>
ring == <<slots, head, nextSeq>>

Slots == 0..Capacity-1
Empty == [seq |-> 0, id |-> 0]
pending(s) == {i \in Slots : s[i].seq # 0}

NoReport == [acked |-> 0, at |-> 0]
Down == [step |-> "down", healthy |-> FALSE, safe |-> FALSE]

(* logged: events so far; bad: starts since the last healthy contact *)
Seen0 == [logged |-> 0, bad |-> 0]

-----------------------------------------------------------------------------
(* Ring::recomputeHead: the first empty slot, else the oldest event        *)
recomputeHead(s) ==
    LET empty == Slots \ pending(s)
    IN  IF empty # {} THEN Min(empty)
        ELSE CHOOSE i \in Slots : \A j \in Slots : s[i].seq <= s[j].seq

(* Ring::decodeSlot, of all the slots *)
decodedSeq(s) == Max({s[i].seq : i \in Slots}) + 1

\* Mutant: the slot after the event is saved.
savedSlotAfter(h) == (h + 1) % Capacity

(* n3ContactDiagLog: the slot that persistSlot saves *)
savedSlot(h) == h

(* push, then persistSlot.  A pending event under the head is overwritten. *)
Log == LET id == seen.logged + 1
           s == [slots EXCEPT ![head] = [seq |-> nextSeq, id |-> id]]
       IN  /\ seen.logged < MaxEvents
           /\ slots' = s /\ nextSeq' = nextSeq + 1
           /\ head' = (head + 1) % Capacity
           /\ nvs' = [nvs EXCEPT ![savedSlot(head)] = s[savedSlot(head)]]
           /\ seen' = [seen EXCEPT !.logged = id]

-----------------------------------------------------------------------------
(* n3ContactDiagBegin: the failed start is counted before all the rest *)
Start == fails + 1

Begin == /\ up.step = "down"
         /\ slots' = nvs /\ nextSeq' = decodedSeq(nvs) /\ head' = recomputeHead(nvs)
         /\ fails' = IF fails < SafeAfter THEN Start ELSE fails
         /\ up' = [Down EXCEPT !.step = "begun", !.safe = fails' >= SafeAfter]
         /\ seen' = [seen EXCEPT !.bad = IF @ < SafeAfter THEN @ + 1 ELSE @]
         /\ UNCHANGED <<nvs, report>>
LogBoot == /\ up.step = "begun"
           /\ \/ Log
              \/ seen.logged = MaxEvents /\ UNCHANGED <<ring, nvs, seen>>
           /\ up' = [up EXCEPT !.step = "up"]
           /\ UNCHANGED <<fails, report>>

(* any n3ContactDiagLog of the firmware: Wi-Fi, NTP, OTA, HTTP results *)
LogEvent == up.step = "up" /\ Log /\ UNCHANGED <<fails, up, report>>

(* a crash, a restart, the deep sleep: anywhere *)
Stop == /\ up.step # "down"
        /\ up' = Down /\ report' = NoReport
        /\ slots' = [i \in Slots |-> Empty] /\ head' = 0 /\ nextSeq' = 1
        /\ UNCHANGED <<nvs, fails, seen>>

-----------------------------------------------------------------------------
(* markHealthy, on the answer to a signed post *)
MarkHealthy == /\ up.step = "up" /\ ~up.healthy
               /\ up' = [up EXCEPT !.healthy = TRUE]
               /\ fails' = 0
               /\ seen' = [seen EXCEPT !.bad = 0]
               /\ UNCHANGED <<ring, nvs, report>>

(* Ring::toJson: from the head on, as many as fit *)
toJson(s, h) == LET place(i) == (i - h + Capacity) % Capacity
                IN  {i \in pending(s) :
                       Cardinality({j \in pending(s) : place(j) < place(i)}) < Fit}

(* n3ContactDiagFlush: the report leaves, and may not arrive.  The server  *)
(* acknowledges what it got, of which parseMaxAcked keeps the highest.     *)
Flush == /\ up.step = "up" /\ pending(slots) # {}
         /\ \E got \in BOOLEAN :
               LET sent == toJson(slots, head)
               IN  IF got THEN
                     \/ /\ report' = [NoReport EXCEPT
                                           !.acked = Max({slots[i].seq : i \in sent})]
                        /\ up' = [up EXCEPT !.step = "acking"]
                     \/ UNCHANGED <<report, up>>    \* the answer is lost
                   ELSE UNCHANGED <<report, up>>
         /\ UNCHANGED <<ring, nvs, fails, seen>>

(* the observer of n3_data logs during the post, before the answer is read *)
LogDuringPost == /\ up.step = "acking" /\ report.at = 0
                 /\ Log /\ UNCHANGED <<fails, up, report>>

(* one turn of the loop: ackUpTo empties every older slot of the ring, and *)
(* this slot only is saved                                                 *)
ackSlot(i) == LET seq == slots[i].seq
              IN  [j \in Slots |-> IF slots[j].seq # 0 /\ slots[j].seq <= seq
                                   THEN Empty ELSE slots[j]]
AckLoop == /\ up.step = "acking" /\ report.at < Capacity
           /\ LET i == report.at
              IN  IF slots[i].seq # 0 /\ slots[i].seq <= report.acked
                  THEN /\ slots' = ackSlot(i)
                       /\ nvs' = [nvs EXCEPT ![i] = Empty]
                  ELSE UNCHANGED <<slots, nvs>>
           /\ report' = [report EXCEPT !.at = @ + 1]
           /\ UNCHANGED <<head, nextSeq, fails, up, seen>>
AckDone == /\ up.step = "acking" /\ report.at = Capacity
           /\ up' = [up EXCEPT !.step = "up"] /\ report' = NoReport
           /\ UNCHANGED <<ring, nvs, fails, seen>>

Init == /\ slots = [i \in Slots |-> Empty] /\ nvs = slots
        /\ head = 0 /\ nextSeq = 1 /\ fails = 0
        /\ up = Down /\ report = NoReport /\ seen = Seen0
Next == Begin \/ LogBoot \/ LogEvent \/ Stop \/ MarkHealthy \/ Flush
        \/ LogDuringPost \/ AckLoop \/ AckDone
Spec == Init /\ [][Next]_lvars

-----------------------------------------------------------------------------
(* No two events in the ring carry the same number: an acknowledgement of  *)
(* one would erase the other.                                              *)
SeqUnique == \A i, j \in pending(slots) : slots[i].seq = slots[j].seq => i = j

(* What is pending survives a reset at any moment: its slot is in flash as *)
(* it is in RAM (n3_contact_diag.cpp:62-71,229-231).                       *)
PendingSaved == up.step # "down" => \A i \in pending(slots) : nvs[i] = slots[i]

(* The safe mode suspends updates exactly after SafeAfter starts in a row  *)
(* without a healthy contact, however each of them ended (n3_boot_diag.h). *)
SafeModeExact == up.step = "begun" => (up.safe <=> seen.bad >= SafeAfter)

=============================================================================
