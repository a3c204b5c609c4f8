--------------------------- MODULE DispatchHistory ---------------------------
(***************************************************************************)
(* What the dispatch log is for its readers: the latest records, newest    *)
(* first, at most Capacity of them.                                        *)
(***************************************************************************)
EXTENDS Naturals, Sequences

CONSTANTS Capacity, Records

VARIABLE history

Init == history = <<>>

Add(rec) ==
    history' = IF Len(history) < Capacity
               THEN <<rec>> \o history
               ELSE <<rec>> \o SubSeq(history, 1, Capacity - 1)

Clear == history' = <<>>

Next == Clear \/ \E rec \in Records : Add(rec)

Spec == Init /\ [][Next]_history
=============================================================================
