----------------------------- MODULE BoundedFifo -----------------------------
(***************************************************************************)
(* What a single-producer single-consumer buffer promises: a queue of at   *)
(* most Bound items.  An item is put at the back, and taken from the front *)
(* into `out', in one step each.                                           *)
(***************************************************************************)
EXTENDS Naturals, Sequences

CONSTANTS Items, NoItem, Bound

VARIABLES queue,   \* the items in the buffer, oldest first
          out      \* the item the consumer took last

Init == queue = <<>> /\ out = NoItem

Put ==
    /\ Len(queue) < Bound
    /\ \E item \in Items : queue' = Append(queue, item)
    /\ UNCHANGED out

Take ==
    /\ queue # <<>>
    /\ out' = Head(queue)
    /\ queue' = Tail(queue)

Next == Put \/ Take

Spec == Init /\ [][Next]_<<queue, out>>
=============================================================================
