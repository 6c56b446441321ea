------------------------------ MODULE LinkedFifo ------------------------------
(***************************************************************************)
(* The list of the queue as its users may think of it: items are numbered  *)
(* in the order in which appends swap the tail; an item becomes reachable  *)
(* from its predecessor when it is linked, which may happen out of order;  *)
(* items leave at the front, and one leaves only if its successor is       *)
(* linked or if it has none.                                               *)
(* StretchedBuffer.tla implements this module with pointers, and CMCQueue  *)
(* uses its list in no other way.                                          *)
(***************************************************************************)
EXTENDS Integers

VARIABLES count,     \* how many items were ever appended
          linked,    \* the ones their predecessor points to
          removed    \* how many were removed

vars == <<count, linked, removed>>

Init == count = 0 /\ linked = {} /\ removed = 0

Swap == count' = count + 1 /\ UNCHANGED <<linked, removed>>

Link == /\ \E k \in (1 .. count) \ linked : linked' = linked \union {k}
        /\ UNCHANGED <<count, removed>>

Remove == /\ removed + 1 \in linked
          /\ removed + 1 = count \/ removed + 2 \in linked
          /\ removed' = removed + 1
          /\ UNCHANGED <<count, linked>>

Next == Swap \/ Link \/ Remove

Spec == Init /\ [][Next]_vars
=============================================================================
