----------------------------- MODULE PooledQueues -----------------------------
(***************************************************************************)
(* What the order queues promise to the book, and what module OrderBook    *)
(* assumes of them: each is a sequence of orders, and together they hold   *)
(* at most Limit orders.  A push that is refused is a step that changes    *)
(* nothing; that it is refused only when every slot is in use is NoLeak's. *)
(***************************************************************************)
EXTENDS Naturals, SequencesExt

CONSTANTS Queues, Items, Limit

VARIABLE seqs   \* seqs[q]: the orders of queue q, oldest first

Places == UNION {{q} \X DOMAIN seqs[q] : q \in Queues}

Total == Cardinality(Places)

Init == seqs = [q \in Queues |-> <<>>]

PushBack(q, item) ==
    /\ Total < Limit
    /\ seqs' = [seqs EXCEPT ![q] = Append(@, item)]

EraseAt(q, i) == seqs' = [seqs EXCEPT ![q] = RemoveAt(@, i)]

Write(q, i, item) == seqs' = [seqs EXCEPT ![q][i] = item]

Next ==
    \E q \in Queues :
        \/ \E item \in Items : PushBack(q, item)
        \/ \E i \in DOMAIN seqs[q] :
               \/ EraseAt(q, i)
               \/ \E item \in Items : Write(q, i, item)

Spec == Init /\ [][Next]_seqs
=============================================================================
