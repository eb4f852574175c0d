------------------------------ MODULE AudioFifo ------------------------------
(***************************************************************************)
(* What a ring between two audio threads promises: samples leave it in the *)
(* order they came, each at most once, none that was not offered; what     *)
(* does not fit is refused, and the oldest may be thrown away unread.      *)
(***************************************************************************)
EXTENDS Naturals, Sequences

CONSTANTS Batches, Capacity

VARIABLES
  offered, \* what the writer is about to put there
  items,   \* what waits to be read
  handed   \* what the last read gave its caller

Init == offered = << >> /\ items = << >> /\ handed = << >>

Offer ==
  /\ offered = << >>
  /\ offered' \in Batches
  /\ UNCHANGED <<items, handed>>

Put ==
  \E n \in 0 .. Len(offered) :
    /\ Len(items) + n <= Capacity
    /\ items' = items \o SubSeq(offered, 1, n)
    /\ offered' = << >>
    /\ UNCHANGED handed

Take ==
  \E n \in 0 .. Len(items) :
    /\ handed' = SubSeq(items, 1, n)
    /\ items' = SubSeq(items, n + 1, Len(items))
    /\ UNCHANGED offered

Drop ==
  \E n \in 1 .. Len(items) :
    /\ items' = SubSeq(items, n + 1, Len(items))
    /\ UNCHANGED <<offered, handed>>

Next == Offer \/ Put \/ Take \/ Drop

Spec == Init /\ [][Next]_<<offered, items, handed>>
=============================================================================
