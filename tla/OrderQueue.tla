------------------------------ MODULE OrderQueue ------------------------------
(***************************************************************************)
(* include/OrderQueue.h and include/OrderPool.h: the queues of the price   *)
(* levels, each an array of pointers with a head and a tail index, whose   *)
(* orders live in the slots of one shared pool.  Pointers are slot         *)
(* numbers.  Everything runs on the thread that owns the book.             *)
(***************************************************************************)
EXTENDS Integers, SequencesExt

CONSTANTS Queues,      \* the queues of one book
          Orders,      \* contents of an order
          Blank,       \* the default-constructed Order()
          Null,        \* nullptr
          PoolSize,    \* capacity of the pool
          FirstLength  \* smallest length of a pointer array (16 in the code)

ASSUME QueueAssumption ==
    /\ PoolSize \in Nat
    /\ FirstLength \in Nat \ {0}
    /\ Blank \notin Orders
    /\ Null \notin Nat

VARIABLES storage,    \* OrderPool::storage_
          freeList,   \* OrderPool::free_list_
          allocated,  \* OrderPool::allocated_
          next,       \* OrderPool::head_: the next entry of freeList
          pointers,   \* pointers[q]: OrderQueue::pointers_
          first,      \* first[q]: OrderQueue::head_
          last,       \* last[q]: OrderQueue::tail_
          threw       \* deallocate threw: double free or bad pointer

vars == <<storage, freeList, allocated, next, pointers, first, last, threw>>

\* Slots and the entries of freeList and pointers count from 0 in the code;
\* arrays are functions on 0 .. n - 1.
Slots == 0 .. PoolSize - 1
Length(array) == Cardinality(DOMAIN array)

-----------------------------------------------------------------------------
(* OrderPool *)

\* allocate has a slot to give.
CanAllocate == next < PoolSize

\* allocate returns the slot freeList[next], and o is copied into it.
Allocate(o) ==
    /\ storage' = [storage EXCEPT ![freeList[next]] = o]
    /\ allocated' = [allocated EXCEPT ![freeList[next]] = TRUE]
    /\ next' = next + 1
    /\ UNCHANGED freeList

\* Mutant of Deallocate: the freed slot is put one entry too far.
MutDeallocateShifted(slot) ==
    IF slot \notin Slots \/ ~allocated[slot]
    THEN threw' = (threw \/ slot # Null) /\ UNCHANGED <<allocated, freeList, next>>
    ELSE /\ allocated' = [allocated EXCEPT ![slot] = FALSE]
         /\ freeList' = [k \in DOMAIN freeList |->
                            IF k = next THEN slot ELSE freeList[k]]
         /\ next' = next - 1
         /\ UNCHANGED threw

\* deallocate returns at once for nullptr, throws when the slot is not in use,
\* and pushes the slot on the free list otherwise.  NoLeak says that it
\* never throws, so what its caller leaves undone then is not modelled.
Deallocate(slot) ==
    IF slot \notin Slots \/ ~allocated[slot]
    THEN threw' = (threw \/ slot # Null) /\ UNCHANGED <<allocated, freeList, next>>
    ELSE /\ allocated' = [allocated EXCEPT ![slot] = FALSE]
         /\ freeList' = [freeList EXCEPT ![next - 1] = slot]
         /\ next' = next - 1
         /\ UNCHANGED threw

-----------------------------------------------------------------------------
(* OrderQueue *)

empty(q) == first[q] = last[q]

size(q) == last[q] - first[q]

\* The array is full up to its end, and has dead entries at its front.
MustCompact(q) == last[q] = Length(pointers[q]) /\ first[q] > 0

MustGrow(q) == last[q] = Length(pointers[q]) /\ first[q] = 0

\* The live entries move to the front; what was behind them stays.
Compacted(q) ==
    [k \in DOMAIN pointers[q] |->
        IF k < size(q) THEN pointers[q][first[q] + k] ELSE pointers[q][k]]

Grown(q) ==
    LET n == Length(pointers[q])
    IN  [k \in 0 .. (IF 2 * n > FirstLength THEN 2 * n ELSE FirstLength) - 1 |->
            IF k < n THEN pointers[q][k] ELSE Null]

\* What push_back makes of the array before it takes a slot.
RoomAtBack(q) ==
    IF MustCompact(q)
    THEN [array |-> Compacted(q), first |-> 0, last |-> size(q)]
    ELSE IF MustGrow(q)
    THEN [array |-> Grown(q), first |-> 0, last |-> last[q]]
    ELSE [array |-> pointers[q], first |-> first[q], last |-> last[q]]

push_back(q, o) ==
    LET room == RoomAtBack(q)
    IN  /\ CanAllocate
        /\ Allocate(o)
        /\ pointers' = [pointers EXCEPT ![q] =
                           [room.array EXCEPT ![room.last] = freeList[next]]]
        /\ first' = [first EXCEPT ![q] = room.first]
        /\ last' = [last EXCEPT ![q] = room.last + 1]
        /\ UNCHANGED threw

\* The pool is exhausted: push_back throws, after it has made room.
PushThrows(q) ==
    LET room == RoomAtBack(q)
    IN  /\ ~CanAllocate
        /\ pointers' = [pointers EXCEPT ![q] = room.array]
        /\ first' = [first EXCEPT ![q] = room.first]
        /\ last' = [last EXCEPT ![q] = room.last]
        /\ UNCHANGED <<storage, freeList, allocated, next, threw>>

\* The indices of a queue that has become empty go back to the start.
Indices(q, f, l) ==
    /\ first' = [first EXCEPT ![q] = IF f = l THEN 0 ELSE f]
    /\ last' = [last EXCEPT ![q] = IF f = l THEN 0 ELSE l]

pop_front(q) ==
    /\ ~empty(q)
    /\ Deallocate(pointers[q][first[q]])
    /\ pointers' = [pointers EXCEPT ![q][first[q]] = Null]
    /\ Indices(q, first[q] + 1, last[q])
    /\ UNCHANGED storage

\* Mutant of erase_at: the last entry fills the gap.
MutEraseBySwap(q, i) ==
    /\ first[q] + i < last[q]
    /\ Deallocate(pointers[q][first[q] + i])
    /\ pointers' = [pointers EXCEPT ![q] =
           [k \in DOMAIN @ |->
               IF k = last[q] - 1 THEN Null
               ELSE IF k = first[q] + i THEN @[last[q] - 1]
               ELSE @[k]]]
    /\ Indices(q, first[q], last[q] - 1)
    /\ UNCHANGED storage

erase_at(q, i) ==
    /\ first[q] + i < last[q]
    /\ Deallocate(pointers[q][first[q] + i])
    /\ pointers' = [pointers EXCEPT ![q] =
           [k \in DOMAIN @ |->
               IF k = last[q] - 1 THEN Null
               ELSE IF k >= first[q] + i /\ k < last[q] - 1 THEN @[k + 1]
               ELSE @[k]]]
    /\ Indices(q, first[q], last[q] - 1)
    /\ UNCHANGED storage

\* front and at return a reference, through which matching and in-place
\* replaces write.
at(q, i, o) ==
    /\ first[q] + i < last[q]
    /\ storage' = [storage EXCEPT ![pointers[q][first[q] + i]] = o]
    /\ UNCHANGED <<freeList, allocated, next, pointers, first, last, threw>>

\* The book erases a level whose queue is empty; a later level at that price
\* starts with a new queue.
Discard(q) ==
    /\ empty(q)
    /\ pointers' = [pointers EXCEPT ![q] = <<>>]
    /\ UNCHANGED <<storage, freeList, allocated, next, first, last, threw>>

-----------------------------------------------------------------------------

Init ==
    /\ storage = [s \in Slots |-> Blank]
    /\ freeList = [k \in Slots |-> PoolSize - 1 - k]
    /\ allocated = [s \in Slots |-> FALSE]
    /\ next = 0
    /\ pointers = [q \in Queues |-> <<>>]
    /\ first = [q \in Queues |-> 0]
    /\ last = [q \in Queues |-> 0]
    /\ threw = FALSE

Next ==
    \E q \in Queues :
        \/ \E o \in Orders : push_back(q, o)
        \/ PushThrows(q)
        \/ pop_front(q)
        \/ \E i \in Slots : erase_at(q, i)
        \/ \E i \in Slots, o \in Orders : at(q, i, o)
        \/ Discard(q)

Spec == Init /\ [][Next]_vars

-----------------------------------------------------------------------------
(* Properties *)

\* The orders queue q points to, in order.
Held(q) == [i \in 1 .. size(q) |-> pointers[q][first[q] + i - 1]]

\* After any compaction, growth, erasure and exhaustion deallocate has never
\* thrown: no queue returns a slot twice or one it does not own; the slots in
\* use are exactly those the queues point to, each from one entry, and the
\* free list holds the others: none leaks.
NoLeak ==
    /\ ~threw
    /\ {s \in Slots : allocated[s]} = UNION {Range(Held(q)) : q \in Queues}
    /\ \A q, r \in Queues : \A i \in 1 .. size(q), j \in 1 .. size(r) :
           Held(q)[i] = Held(r)[j] => q = r /\ i = j
    /\ next = Cardinality({s \in Slots : allocated[s]})
    /\ {freeList[k] : k \in next .. PoolSize - 1} = {s \in Slots : ~allocated[s]}

\* Through growth, compaction and erasure each queue is a sequence of orders,
\* oldest first, and together they hold at most PoolSize: what module
\* OrderBook assumes.  A push that throws leaves every sequence as it was.
Abstract == INSTANCE PooledQueues WITH
    Items <- Orders,
    Limit <- PoolSize,
    seqs <- [q \in Queues |-> [i \in 1 .. size(q) |-> storage[Held(q)[i]]]]

QueuesAreSequences == Abstract!Spec
=============================================================================
