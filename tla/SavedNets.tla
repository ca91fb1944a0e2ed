----------------------------- MODULE SavedNets -----------------------------
(***************************************************************************)
(* The list of networks the web page of ffp5cs saves: entries net_0,       *)
(* net_1, ... and a count in flash, changed one key at a time, and a reset *)
(* between any two.  (web_routes_wifi.cpp: /wifi/saved, /wifi/connect,     *)
(* /wifi/remove)                                                           *)
(***************************************************************************)
EXTENDS Integers, FiniteSets

CONSTANTS Names,     \* what can be saved
          Max,       \* MAX_WIFI_SAVED_NETWORKS
          MaxCalls, MaxResets  \* bounds: requests; resets

VARIABLES net,    \* flash: net_i, or None
          count,  \* flash: count
          job,    \* what the web task is about to write
          kept,   \* ghost: saved, and neither asked to be removed since nor
                  \* pushed out of a list past its maximum
          left    \* what the bounds leave
lvars == <<net, count, job, kept, left>>

None == "none"
Slots == 0 .. Max  \* the clamp keeps an entry added within these
Idle == [do |-> "idle"]

Init == /\ net = [i \in Slots |-> None] /\ count = 0
        /\ job = Idle /\ kept = {}
        /\ left = [calls |-> MaxCalls, resets |-> MaxResets]

(* /wifi/saved *)
Listed == {net[i] : i \in 0 .. count - 1} \ {None}

Clamped == IF count > Max THEN Max ELSE count
Found(n, limit) == {i \in 0 .. limit - 1 : net[i] = n}
First(s) == CHOOSE i \in s : \A j \in s : i <= j

Call == left.calls > 0 /\ job = Idle /\ left' = [left EXCEPT !.calls = @ - 1]

-----------------------------------------------------------------------------
(* The entry that an addition goes over: none but in a list that is past   *)
(* its maximum already, whose last entry it takes.                         *)
PushedOut == IF count > Max THEN {net[Max]} ELSE {}

(* /wifi/connect with save: an entry of that name is rewritten, else one   *)
(* is added at the end.                                                    *)
Save(n) ==
    /\ Call
    /\ IF Found(n, Clamped) # {}
       THEN kept' = kept \cup {n} /\ UNCHANGED <<net, job>>
       ELSE /\ net' = [net EXCEPT ![Clamped] = n]
            /\ job' = [do |-> "count", to |-> Clamped + 1, of |-> n]
            /\ kept' = kept \ PushedOut
    /\ UNCHANGED count

(* The count comes after the entry. *)
SaveCount ==
    /\ job.do = "count"
    /\ count' = job.to /\ kept' = kept \cup {job.of}
    /\ job' = Idle
    /\ UNCHANGED <<net, left>>

(* /wifi/remove: the first entry of that name, then the ones behind it     *)
(* move up, each written before it is erased.                              *)
Remove(n) ==
    /\ Call
    /\ Found(n, count) # {}
    /\ LET i == First(Found(n, count))
       IN  net' = [net EXCEPT ![i] = None] /\ job' = [do |-> "copy", from |-> i + 1]
    /\ kept' = kept \ {n}
    /\ UNCHANGED count

Copy(from) == [net EXCEPT ![from - 1] = net[from]]

Copying ==
    /\ job.do = "copy"
    /\ IF job.from >= count
       THEN count' = count - 1 /\ job' = Idle /\ UNCHANGED net
       ELSE IF net[job.from] = None
       THEN job' = [job EXCEPT !.from = @ + 1] /\ UNCHANGED <<net, count>>
       ELSE /\ net' = Copy(job.from)
            /\ job' = [do |-> "erase", from |-> job.from, value |-> net[job.from]]
            /\ UNCHANGED count
    /\ UNCHANGED <<kept, left>>

Erasing ==
    /\ job.do = "erase"
    /\ net' = [net EXCEPT ![job.from] = None, ![job.from - 1] = job.value]
    /\ job' = [do |-> "copy", from |-> job.from + 1]
    /\ UNCHANGED <<count, kept, left>>

Reset == /\ job # Idle /\ left.resets > 0
         /\ left' = [left EXCEPT !.resets = @ - 1]
         /\ job' = Idle
         /\ UNCHANGED <<net, count, kept>>

Next == \/ \E n \in Names : Save(n) \/ Remove(n)
        \/ SaveCount \/ Copying \/ Erasing \/ Reset
Spec == Init /\ [][Next]_lvars

-----------------------------------------------------------------------------
(* A reset between two writes of a removal loses none of the others: what  *)
(* was saved and neither removed nor pushed out is on the list.            *)
NetsKept == kept \subseteq Listed
=============================================================================
