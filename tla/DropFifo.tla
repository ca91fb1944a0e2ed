------------------------------- MODULE DropFifo -------------------------------
(***************************************************************************)
(* What data_queue.h promises of the RAM queue of unsent POSTs: a FIFO of  *)
(* at most Capacity payloads whose oldest entry gives way to a new one when *)
(* it is full.                                                             *)
(***************************************************************************)
EXTENDS Naturals, Sequences

CONSTANTS Payloads, Capacity

VARIABLE contents

Init == contents = <<>>

Push(p) == contents' = Append(IF Len(contents) < Capacity THEN contents
                              ELSE Tail(contents), p)

Pop == contents # <<>> /\ contents' = Tail(contents)

Next == Pop \/ \E p \in Payloads : Push(p)

Spec == Init /\ [][Next]_contents

===============================================================================
