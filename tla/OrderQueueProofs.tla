--------------------------- MODULE OrderQueueProofs ---------------------------
(***************************************************************************)
(* Proofs about the queues and their pool for every set of queues and      *)
(* orders, every size of the pool and every first length of the arrays.    *)
(***************************************************************************)
EXTENDS OrderQueue, FiniteSetTheorems, FunctionTheorems, TLAPS

-----------------------------------------------------------------------------
(* The inductive invariant, part by part *)

\* The places of queue q, and the slot of each.
Places(q) == 0 .. size(q) - 1

At(q, j) == pointers[q][first[q] + j]

InUse == {s \in Slots : allocated[s]}

Free == next .. PoolSize - 1

PoolTypes ==
    /\ storage \in [Slots -> Orders \cup {Blank}]
    /\ freeList \in [Slots -> Slots]
    /\ allocated \in [Slots -> BOOLEAN]
    /\ next \in 0 .. PoolSize
    /\ threw = FALSE

\* The indices of a queue stay inside its array, and an empty queue has them
\* at the start.
QueueTypes ==
    /\ DOMAIN pointers = Queues
    /\ first \in [Queues -> Nat]
    /\ last \in [Queues -> Nat]
    /\ \A q \in Queues :
           /\ Length(pointers[q]) \in Nat
           /\ DOMAIN pointers[q] = 0 .. Length(pointers[q]) - 1
           /\ first[q] <= last[q]
           /\ last[q] <= Length(pointers[q])
           /\ first[q] = last[q] => first[q] = 0

\* The slots in use are those at the places of the queues, each at one.
PlacesOwn ==
    /\ \A q \in Queues : \A j \in Places(q) : At(q, j) \in InUse
    /\ \A q, r \in Queues : \A i \in Places(q), j \in Places(r) :
           At(q, i) = At(r, j) => q = r /\ i = j
    /\ \A s \in InUse : \E q \in Queues : \E j \in Places(q) : At(q, j) = s

\* The rest of the free list has each of the other slots once.
FreeRest ==
    /\ next = Cardinality(InUse)
    /\ \A k \in Free : freeList[k] \notin InUse
    /\ \A k, l \in Free : freeList[k] = freeList[l] => k = l
    /\ \A s \in Slots \ InUse : \E k \in Free : freeList[k] = s

QueueInv ==
    /\ PoolTypes
    /\ QueueTypes
    /\ PlacesOwn
    /\ FreeRest

-----------------------------------------------------------------------------
(* What each operation does to the places of the queues *)

\* Queue r keeps its places.
Stays(r) ==
    /\ size(r)' = size(r)
    /\ \A j \in Places(r) : At(r, j)' = At(r, j)

\* Queue q gets one more place, with slot s.
Gains(q, s) ==
    /\ size(q)' = size(q) + 1
    /\ \A j \in Places(q) : At(q, j)' = At(q, j)
    /\ \A j \in {size(q)} : At(q, j)' = s
    /\ \A r \in Queues \ {q} : Stays(r)

\* Queue q loses place i, and the places behind it move up.
Loses(q, i) ==
    /\ size(q)' = size(q) - 1
    /\ \A j \in 0 .. size(q) - 2 :
           At(q, j)' = IF j < i THEN At(q, j) ELSE At(q, j + 1)
    /\ \A r \in Queues \ {q} : Stays(r)

\* An array on 0 .. n - 1 has length n.
LEMMA LengthOf ==
  ASSUME NEW array, NEW n \in Nat, DOMAIN array = 0 .. n - 1
  PROVE  Length(array) = n
  BY FS_Interval DEF Length

\* Sizes are natural numbers.
LEMMA Sizes ==
  ASSUME QueueTypes, NEW q \in Queues
  PROVE  size(q) \in Nat /\ first[q] \in Nat /\ last[q] \in Nat
  BY DEF QueueTypes, size

\* Compaction and growth leave the places as they are and a free entry behind
\* them.
LEMMA RoomKeeps ==
  ASSUME QueueTypes, NEW q \in Queues, NEW room, room = RoomAtBack(q)
  PROVE  /\ room.first \in Nat /\ room.last \in Nat
         /\ room.last - room.first = size(q)
         /\ \E n \in Nat : room.last < n /\ DOMAIN room.array = 0 .. n - 1
         /\ \A j \in Places(q) : room.array[room.first + j] = At(q, j)
         /\ size(q) = 0 => room.first = 0
<1> USE QueueAssumption
<1> DEFINE n == Length(pointers[q])
           f == first[q]
           l == last[q]
<1>1. /\ n \in Nat /\ f \in Nat /\ l \in Nat /\ f <= l /\ l <= n
      /\ DOMAIN pointers[q] = 0 .. n - 1 /\ size(q) = l - f /\ size(q) \in Nat
      /\ f = l => f = 0
  BY Sizes DEF QueueTypes, size
<1>2. CASE MustCompact(q)
  <2>1. room.array = Compacted(q) /\ room.first = 0 /\ room.last = size(q)
    BY <1>2 DEF RoomAtBack
  <2>2. l = n /\ f > 0
    BY <1>2 DEF MustCompact
  <2>3. DOMAIN Compacted(q) = 0 .. n - 1
    BY <1>1 DEF Compacted
  <2>4. ASSUME NEW j \in Places(q)
        PROVE  Compacted(q)[0 + j] = At(q, j)
    <3>1. j \in 0 .. n - 1 /\ j < size(q) /\ 0 + j = j
      BY <1>1 DEF Places
    <3> QED
      BY <1>1, <3>1 DEF Compacted, At
  <2> HIDE DEF n, f, l
  <2> QED
    BY <1>1, <2>1, <2>2, <2>3, <2>4
<1>3. CASE ~MustCompact(q) /\ MustGrow(q)
  <2> DEFINE g == IF 2 * n > FirstLength THEN 2 * n ELSE FirstLength
  <2>1. room.array = Grown(q) /\ room.first = 0 /\ room.last = l
    BY <1>3 DEF RoomAtBack
  <2>2. l = n /\ f = 0 /\ g \in Nat /\ n < g
    BY <1>1, <1>3 DEF MustGrow
  <2>3. DOMAIN Grown(q) = 0 .. g - 1
    BY DEF Grown
  <2>4. ASSUME NEW j \in Places(q)
        PROVE  Grown(q)[0 + j] = At(q, j)
    <3>1. j \in 0 .. g - 1 /\ j < n /\ 0 + j = j /\ f + j = j
      BY <1>1, <2>2 DEF Places
    <3> QED
      BY <3>1 DEF Grown, At
  <2> HIDE DEF n, f, l, g
  <2> QED
    BY <1>1, <2>1, <2>2, <2>3, <2>4
<1>4. CASE ~MustCompact(q) /\ ~MustGrow(q)
  <2>1. room.array = pointers[q] /\ room.first = f /\ room.last = l
    BY <1>4 DEF RoomAtBack
  <2>2. l < n
    BY <1>1, <1>4 DEF MustCompact, MustGrow
  <2> QED
    BY <1>1, <2>1, <2>2 DEF At
<1> QED
  BY <1>2, <1>3, <1>4

\* Queues that keep their array and their indices keep their places.
LEMMA OthersStay ==
  ASSUME NEW q \in Queues,
         \A r \in Queues \ {q} : /\ pointers'[r] = pointers[r]
                                 /\ first'[r] = first[r] /\ last'[r] = last[r]
  PROVE  \A r \in Queues \ {q} : Stays(r)
  BY DEF Stays, size, At

\* The types after a step that gives queue q an array and indices.
LEMMA QueueTypesKept ==
  ASSUME QueueTypes, NEW q \in Queues, NEW a, NEW f \in Nat, NEW l \in Nat,
         pointers' = [pointers EXCEPT ![q] = a],
         first' = [first EXCEPT ![q] = f], last' = [last EXCEPT ![q] = l],
         f <= l, f = l => f = 0,
         \E n \in Nat : DOMAIN a = 0 .. n - 1 /\ l <= n
  PROVE  QueueTypes'
<1>1. DOMAIN pointers' = Queues /\ first' \in [Queues -> Nat] /\ last' \in [Queues -> Nat]
  BY DEF QueueTypes
<1>2. /\ pointers'[q] = a /\ first'[q] = f /\ last'[q] = l
      /\ \A r \in Queues \ {q} : /\ pointers'[r] = pointers[r]
                                 /\ first'[r] = first[r] /\ last'[r] = last[r]
  BY DEF QueueTypes
<1>3. PICK n \in Nat : DOMAIN a = 0 .. n - 1 /\ l <= n
  OBVIOUS
<1>4. Length(a) = n
  BY <1>3, LengthOf
<1>5. ASSUME NEW r \in Queues
      PROVE  /\ Length(pointers'[r]) \in Nat
             /\ DOMAIN pointers'[r] = 0 .. Length(pointers'[r]) - 1
             /\ first'[r] <= last'[r]
             /\ last'[r] <= Length(pointers'[r])
             /\ first'[r] = last'[r] => first'[r] = 0
  <2>1. CASE r = q
    BY <1>2, <1>3, <1>4, <2>1
  <2>2. CASE r # q
    <3>1. pointers'[r] = pointers[r] /\ first'[r] = first[r] /\ last'[r] = last[r]
      BY <1>2, <2>2
    <3> QED
      BY <3>1 DEF QueueTypes
  <2> QED
    BY <2>1, <2>2
<1> QED
  BY <1>1, <1>5 DEF QueueTypes, Length

\* push_back adds the next free slot at the end.
LEMMA PushGains ==
  ASSUME QueueTypes, NEW q \in Queues, NEW o \in Orders, push_back(q, o)
  PROVE  QueueTypes' /\ Gains(q, freeList[next])
<1> DEFINE room == RoomAtBack(q)
           a == [room.array EXCEPT ![room.last] = freeList[next]]
<1>1. /\ room.first \in Nat /\ room.last \in Nat
      /\ room.last - room.first = size(q)
      /\ \E n \in Nat : room.last < n /\ DOMAIN room.array = 0 .. n - 1
      /\ \A j \in Places(q) : room.array[room.first + j] = At(q, j)
  BY RoomKeeps
<1>2. /\ pointers' = [pointers EXCEPT ![q] = a]
      /\ first' = [first EXCEPT ![q] = room.first]
      /\ last' = [last EXCEPT ![q] = room.last + 1]
  BY DEF push_back
<1>3. PICK n \in Nat : room.last < n /\ DOMAIN room.array = 0 .. n - 1
  BY <1>1
<1>4. /\ DOMAIN a = 0 .. n - 1 /\ a[room.last] = freeList[next]
      /\ \A k \in 0 .. n - 1 : k # room.last => a[k] = room.array[k]
  BY <1>1, <1>3
<1> HIDE DEF room, a
<1>5. /\ pointers'[q] = a /\ first'[q] = room.first /\ last'[q] = room.last + 1
      /\ \A r \in Queues \ {q} : /\ pointers'[r] = pointers[r]
                                 /\ first'[r] = first[r] /\ last'[r] = last[r]
  BY <1>2 DEF QueueTypes
<1>6. QueueTypes'
  <2>1. room.last + 1 \in Nat /\ room.first <= room.last + 1 /\ room.last + 1 <= n
        /\ room.first # room.last + 1
    BY <1>1, <1>3, Sizes
  <2> QED
    BY <1>1, <1>2, <1>4, <2>1, QueueTypesKept
<1>7. size(q)' = size(q) + 1
  BY <1>1, <1>5, Sizes DEF size
<1>8. ASSUME NEW j \in Places(q)
      PROVE  At(q, j)' = At(q, j)
  <2>1. room.first + j \in 0 .. n - 1 /\ room.first + j # room.last
    BY <1>1, <1>3, Sizes DEF Places
  <2> QED
    BY <1>1, <1>4, <1>5, <2>1 DEF At
<1>9. ASSUME NEW j \in {size(q)}
      PROVE  At(q, j)' = freeList[next]
  <2>1. room.first + j = room.last
    BY <1>1, Sizes
  <2> QED
    BY <1>4, <1>5, <2>1 DEF At
<1> QED
  BY <1>5, <1>6, <1>7, <1>8, <1>9, OthersStay DEF Gains

\* A push_back that throws leaves the places as they are.
LEMMA ThrowStays ==
  ASSUME QueueTypes, NEW q \in Queues, PushThrows(q)
  PROVE  QueueTypes' /\ \A r \in Queues : Stays(r)
<1> DEFINE room == RoomAtBack(q)
<1>1. /\ room.first \in Nat /\ room.last \in Nat
      /\ room.last - room.first = size(q)
      /\ \E n \in Nat : room.last < n /\ DOMAIN room.array = 0 .. n - 1
      /\ \A j \in Places(q) : room.array[room.first + j] = At(q, j)
      /\ size(q) = 0 => room.first = 0
  BY RoomKeeps
<1>2. /\ pointers' = [pointers EXCEPT ![q] = room.array]
      /\ first' = [first EXCEPT ![q] = room.first]
      /\ last' = [last EXCEPT ![q] = room.last]
  BY DEF PushThrows
<1> HIDE DEF room
<1>3. /\ pointers'[q] = room.array /\ first'[q] = room.first /\ last'[q] = room.last
      /\ \A r \in Queues \ {q} : /\ pointers'[r] = pointers[r]
                                 /\ first'[r] = first[r] /\ last'[r] = last[r]
  BY <1>2 DEF QueueTypes
<1>4. QueueTypes'
  <2>1. room.first <= room.last /\ (room.first = room.last => room.first = 0)
    BY <1>1, Sizes
  <2>2. \E n \in Nat : DOMAIN room.array = 0 .. n - 1 /\ room.last <= n
    BY <1>1
  <2> QED
    BY <1>1, <1>2, <2>1, <2>2, QueueTypesKept
<1>5. Stays(q)
  BY <1>1, <1>3 DEF Stays, size, At
<1> QED
  BY <1>3, <1>4, <1>5, OthersStay

\* erase_at takes one place out.
LEMMA EraseLoses ==
  ASSUME QueueTypes, NEW q \in Queues, NEW i \in Nat, erase_at(q, i)
  PROVE  QueueTypes' /\ i \in Places(q) /\ Loses(q, i)
<1> DEFINE p == pointers[q]
           f == first[q]
           l == last[q]
           a == [k \in DOMAIN p |->
                    IF k = l - 1 THEN Null
                    ELSE IF k >= f + i /\ k < l - 1 THEN p[k + 1]
                    ELSE p[k]]
           n == Length(p)
<1>1. /\ f \in Nat /\ l \in Nat /\ n \in Nat /\ l <= n /\ f + i < l
      /\ DOMAIN p = 0 .. n - 1 /\ size(q) = l - f /\ size(q) \in Nat
  BY Sizes DEF QueueTypes, size, erase_at
<1>2. /\ pointers' = [pointers EXCEPT ![q] = a]
      /\ first' = [first EXCEPT ![q] = IF f = l - 1 THEN 0 ELSE f]
      /\ last' = [last EXCEPT ![q] = IF f = l - 1 THEN 0 ELSE l - 1]
  BY DEF erase_at, Indices, QueueTypes
<1>3. DOMAIN a = 0 .. n - 1
  BY <1>1
<1>4. ASSUME NEW j \in 0 .. size(q) - 2
      PROVE  a[f + j] = IF j < i THEN p[f + j] ELSE p[f + (j + 1)]
  <2> HIDE DEF p, f, l, n
  <2>1. f + j \in 0 .. n - 1 /\ f + j < l - 1 /\ (f + j) + 1 = f + (j + 1)
    BY <1>1
  <2>2. f + j >= f + i <=> ~(j < i)
    BY <1>1
  <2> QED
    BY <1>1, <2>1, <2>2
<1> HIDE DEF p, f, l, a, n
<1>5. /\ pointers'[q] = a
      /\ first'[q] = IF f = l - 1 THEN 0 ELSE f
      /\ last'[q] = IF f = l - 1 THEN 0 ELSE l - 1
      /\ \A r \in Queues \ {q} : /\ pointers'[r] = pointers[r]
                                 /\ first'[r] = first[r] /\ last'[r] = last[r]
  BY <1>2 DEF QueueTypes
<1>6. QueueTypes'
  <2> DEFINE ff == IF f = l - 1 THEN 0 ELSE f
             ll == IF f = l - 1 THEN 0 ELSE l - 1
  <2>1. ff \in Nat /\ ll \in Nat /\ ff <= ll /\ (ff = ll => ff = 0) /\ ll <= n
    BY <1>1
  <2> HIDE DEF ff, ll
  <2>2. /\ first' = [first EXCEPT ![q] = ff]
        /\ last' = [last EXCEPT ![q] = ll]
    BY <1>2 DEF ff, ll
  <2> QED
    BY <1>1, <1>2, <1>3, <2>1, <2>2, QueueTypesKept
<1>7. size(q)' = size(q) - 1
  BY <1>1, <1>5 DEF size
<1>8. ASSUME NEW j \in 0 .. size(q) - 2
      PROVE  At(q, j)' = IF j < i THEN At(q, j) ELSE At(q, j + 1)
  <2>1. f # l - 1
    BY <1>1
  <2> QED
    BY <1>5, <1>4, <2>1 DEF At, p, f
<1>9. i \in Places(q)
  BY <1>1 DEF Places
<1> QED
  BY <1>5, <1>6, <1>7, <1>8, <1>9, OthersStay DEF Loses

\* pop_front takes the first one out.
LEMMA PopLoses ==
  ASSUME QueueTypes, NEW q \in Queues, pop_front(q)
  PROVE  QueueTypes' /\ 0 \in Places(q) /\ Loses(q, 0)
<1> DEFINE p == pointers[q]
           f == first[q]
           l == last[q]
           a == [p EXCEPT ![f] = Null]
           n == Length(p)
<1>1. /\ f \in Nat /\ l \in Nat /\ n \in Nat /\ l <= n /\ f < l
      /\ DOMAIN p = 0 .. n - 1 /\ size(q) = l - f /\ size(q) \in Nat
  BY Sizes DEF QueueTypes, size, pop_front, empty
<1>2. /\ pointers' = [pointers EXCEPT ![q] = a]
      /\ first' = [first EXCEPT ![q] = IF f + 1 = l THEN 0 ELSE f + 1]
      /\ last' = [last EXCEPT ![q] = IF f + 1 = l THEN 0 ELSE l]
  BY DEF pop_front, Indices, QueueTypes
<1>3. DOMAIN a = 0 .. n - 1
  BY <1>1
<1>4. ASSUME NEW j \in 0 .. size(q) - 2
      PROVE  a[(f + 1) + j] = p[f + (j + 1)]
  <2>1. (f + 1) + j \in 0 .. n - 1 /\ (f + 1) + j # f /\ (f + 1) + j = f + (j + 1)
    BY <1>1
  <2> QED
    BY <1>1, <2>1
<1> HIDE DEF p, f, l, a, n
<1>5. /\ pointers'[q] = a
      /\ first'[q] = IF f + 1 = l THEN 0 ELSE f + 1
      /\ last'[q] = IF f + 1 = l THEN 0 ELSE l
      /\ \A r \in Queues \ {q} : /\ pointers'[r] = pointers[r]
                                 /\ first'[r] = first[r] /\ last'[r] = last[r]
  BY <1>2 DEF QueueTypes
<1>6. QueueTypes'
  <2> DEFINE ff == IF f + 1 = l THEN 0 ELSE f + 1
             ll == IF f + 1 = l THEN 0 ELSE l
  <2>1. ff \in Nat /\ ll \in Nat /\ ff <= ll /\ (ff = ll => ff = 0) /\ ll <= n
    BY <1>1
  <2> HIDE DEF ff, ll
  <2>2. /\ first' = [first EXCEPT ![q] = ff]
        /\ last' = [last EXCEPT ![q] = ll]
    BY <1>2 DEF ff, ll
  <2> QED
    BY <1>1, <1>2, <1>3, <2>1, <2>2, QueueTypesKept
<1>7. size(q)' = size(q) - 1
  BY <1>1, <1>5 DEF size
<1>8. ASSUME NEW j \in 0 .. size(q) - 2
      PROVE  At(q, j)' = IF j < 0 THEN At(q, j) ELSE At(q, j + 1)
  <2>1. f + 1 # l /\ ~(j < 0)
    BY <1>1
  <2> QED
    BY <1>5, <1>4, <2>1 DEF At, p, f
<1>9. 0 \in Places(q)
  BY <1>1 DEF Places
<1> QED
  BY <1>5, <1>6, <1>7, <1>8, <1>9, OthersStay DEF Loses

\* A level that is erased had no places.
LEMMA DiscardStays ==
  ASSUME QueueTypes, NEW q \in Queues, Discard(q)
  PROVE  QueueTypes' /\ \A r \in Queues : Stays(r)
<1>1. first[q] = 0 /\ last[q] = 0 /\ size(q) = 0
  BY DEF Discard, empty, QueueTypes, size
<1> DEFINE a == <<>>
<1>2. \E n \in Nat : DOMAIN a = 0 .. n - 1 /\ 0 <= n
  <2>1. DOMAIN a = 0 .. 0 - 1 /\ 0 \in Nat /\ 0 <= 0
    OBVIOUS
  <2> QED
    BY <2>1, Zenon
<1> HIDE DEF a
<1>3. /\ pointers' = [pointers EXCEPT ![q] = a]
      /\ first' = [first EXCEPT ![q] = 0]
      /\ last' = [last EXCEPT ![q] = 0]
  BY <1>1 DEF Discard, QueueTypes, a
<1>4. QueueTypes'
  <2>1. 0 \in Nat /\ 0 <= 0
    OBVIOUS
  <2> QED
    BY <1>2, <1>3, <2>1, QueueTypesKept
<1>5. /\ first'[q] = 0 /\ last'[q] = 0
      /\ \A r \in Queues \ {q} : /\ pointers'[r] = pointers[r]
                                 /\ first'[r] = first[r] /\ last'[r] = last[r]
  BY <1>3 DEF QueueTypes
<1>6. Stays(q)
  BY <1>1, <1>5 DEF Stays, size, Places
<1> QED
  BY <1>4, <1>5, <1>6, OthersStay

-----------------------------------------------------------------------------
(* The pool *)

\* A finite number of slots is in use.
LEMMA InUseFinite ==
  /\ IsFiniteSet(Slots) /\ Cardinality(Slots) = PoolSize
  /\ IsFiniteSet(InUse) /\ Cardinality(InUse) \in Nat
<1>1. IsFiniteSet(Slots) /\ Cardinality(Slots) = PoolSize
  BY FS_Interval, QueueAssumption DEF Slots
<1>2. InUse \in SUBSET Slots
  BY DEF InUse
<1> QED
  BY <1>1, <1>2, FS_Subset, FS_CardinalityType

\* Places that stay and stay in use.
LEMMA StepKeepsPlaces ==
  ASSUME PlacesOwn, InUse' = InUse, \A r \in Queues : Stays(r)
  PROVE  PlacesOwn'
<1>1. \A r \in Queues : Places(r)' = Places(r)
  BY DEF Stays, Places
<1> QED
  BY <1>1 DEF PlacesOwn, Stays

\* One place more, with a slot that was not in use.
LEMMA GainKeepsPlaces ==
  ASSUME QueueTypes, PlacesOwn, NEW q \in Queues, NEW s, s \notin InUse,
         InUse' = InUse \cup {s}, Gains(q, s)
  PROVE  PlacesOwn'
<1> DEFINE m == size(q)
<1>1. m \in Nat /\ Places(q) = 0 .. m - 1 /\ Places(q)' = 0 .. m
  BY Sizes DEF Places, Gains
<1> HIDE DEF m
<1>3. \A j \in Places(q)' : \/ j \in Places(q) /\ At(q, j)' = At(q, j)
                            \/ j = m /\ At(q, j)' = s
  BY <1>1 DEF Gains, m
<1>4. \A r \in Queues \ {q} : /\ Places(r)' = Places(r)
                              /\ \A j \in Places(r) : At(r, j)' = At(r, j)
  BY DEF Gains, Stays, Places
<1>5. \A j \in Places(q) : j \in Places(q)' /\ At(q, j)' = At(q, j)
  BY <1>1 DEF Gains
<1>6. m \in Places(q)' /\ (\A j \in {m} : At(q, j)' = s)
  BY <1>1 DEF Gains, m
<1>7. ASSUME NEW r \in Queues, NEW j \in Places(r)'
      PROVE  \/ j \in Places(r) /\ At(r, j)' = At(r, j)
             \/ r = q /\ j = m /\ At(r, j)' = s
  BY <1>3, <1>4
<1>8. ASSUME NEW r \in Queues, NEW j \in Places(r)'
      PROVE  At(r, j)' \in InUse'
  BY <1>7 DEF PlacesOwn
<1>9. ASSUME NEW r \in Queues, NEW t \in Queues, NEW i \in Places(r)',
             NEW j \in Places(t)', At(r, i)' = At(t, j)'
      PROVE  r = t /\ i = j
  <2>1. CASE i \in Places(r) /\ At(r, i)' = At(r, i)
    <3>1. At(r, i)' # s
      BY <2>1 DEF PlacesOwn
    <3>2. j \in Places(t) /\ At(t, j)' = At(t, j)
      BY <1>7, <1>9, <3>1
    <3>3. At(r, i) = At(t, j)
      BY <1>9, <2>1, <3>2
    <3>4. \A x, y \in Queues : \A k \in Places(x), l \in Places(y) :
              At(x, k) = At(y, l) => x = y /\ k = l
      BY DEF PlacesOwn
    <3> QED
      BY <2>1, <3>2, <3>3, <3>4
  <2>2. CASE r = q /\ i = m /\ At(r, i)' = s
    <3>1. ~(j \in Places(t) /\ At(t, j)' = At(t, j))
      BY <1>9, <2>2 DEF PlacesOwn
    <3> QED
      BY <1>7, <2>2, <3>1
  <2> QED
    BY <1>7, <2>1, <2>2
<1>10. ASSUME NEW u \in InUse'
       PROVE  \E r \in Queues : \E j \in Places(r)' : At(r, j)' = u
  <2>1. CASE u = s
    <3>1. PICK j \in Places(q)' : At(q, j)' = s
      BY <1>6
    <3> QED
      BY <2>1, <3>1
  <2>2. CASE u \in InUse
    <3>1. PICK r \in Queues, j \in Nat : j \in Places(r) /\ At(r, j) = u
      <4>1. \A r \in Queues : Places(r) \subseteq Nat
        BY Sizes DEF Places
      <4> QED
        BY <2>2, <4>1 DEF PlacesOwn
    <3>2. j \in Places(r)' /\ At(r, j)' = u
      BY <1>4, <1>5, <3>1
    <3> QED
      BY <3>2
  <2> QED
    BY <2>1, <2>2
<1> QED
  BY <1>8, <1>9, <1>10 DEF PlacesOwn

\* One place less, with its slot.
LEMMA LossKeepsPlaces ==
  ASSUME QueueTypes, PlacesOwn, NEW q \in Queues, NEW i \in Places(q),
         InUse' = InUse \ {At(q, i)}, Loses(q, i)
  PROVE  PlacesOwn'
<1> DEFINE m == size(q)
           Was(r, j) == IF r = q /\ j >= i THEN j + 1 ELSE j
<1>1. /\ m \in Nat /\ Places(q) = 0 .. m - 1 /\ Places(q)' = 0 .. m - 2
      /\ i \in Nat /\ i < m
  BY Sizes DEF Places, Loses
<1>2. \A r \in Queues \ {q} : /\ Places(r)' = Places(r)
                              /\ \A j \in Places(r) : At(r, j)' = At(r, j)
  BY DEF Loses, Stays, Places
<1>3. \A r \in Queues : Places(r) \subseteq Int /\ Places(r)' \subseteq Int
  BY <1>1, <1>2, Sizes DEF Places
<1>4. ASSUME NEW r \in Queues, NEW j \in Places(r)'
      PROVE  /\ Was(r, j) \in Places(r) /\ At(r, j)' = At(r, Was(r, j))
             /\ ~(r = q /\ Was(r, j) = i)
  <2>1. CASE r = q
    <3>1. j \in 0 .. m - 2 /\ j \in Int
      BY <1>1, <2>1
    <3>2. At(q, j)' = IF j < i THEN At(q, j) ELSE At(q, j + 1)
      BY <3>1 DEF Loses
    <3>3. CASE j < i
      <4>1. Was(r, j) = j
        BY <1>1, <3>1, <3>3
      <4> HIDE DEF Was
      <4> QED
        BY <1>1, <2>1, <3>1, <3>2, <3>3, <4>1
    <3>4. CASE j >= i
      <4>1. Was(r, j) = j + 1
        BY <2>1, <3>4
      <4> HIDE DEF Was
      <4> QED
        BY <1>1, <2>1, <3>1, <3>2, <3>4, <4>1
    <3> QED
      BY <1>1, <3>1, <3>3, <3>4
  <2>2. CASE r # q
    BY <1>2, <2>2
  <2> QED
    BY <2>1, <2>2
<1>5. ASSUME NEW r \in Queues, NEW j \in Places(r)'
      PROVE  At(r, j)' \in InUse'
  <2> HIDE DEF Was
  <2> QED
    BY <1>4 DEF PlacesOwn
<1>6. ASSUME NEW r \in Queues, NEW t \in Queues, NEW k \in Places(r)',
             NEW j \in Places(t)', At(r, k)' = At(t, j)'
      PROVE  r = t /\ k = j
  <2>1. r = t /\ Was(r, k) = Was(t, j)
    <3> HIDE DEF Was
    <3> QED
      BY <1>4, <1>6 DEF PlacesOwn
  <2>2. k \in Int /\ j \in Int
    BY <1>3
  <2> QED
    BY <1>1, <2>1, <2>2
<1>7. ASSUME NEW u \in InUse'
      PROVE  \E r \in Queues : \E j \in Places(r)' : At(r, j)' = u
  <2>1. PICK r \in Queues, k \in Int : k \in Places(r) /\ At(r, k) = u
    BY <1>3 DEF PlacesOwn
  <2>2. ~(r = q /\ k = i)
    BY <2>1
  <2>3. CASE r = q /\ k > i
    <3>1. k - 1 \in Places(r)' /\ k - 1 \in 0 .. m - 2 /\ ~(k - 1 < i) /\ (k - 1) + 1 = k
      BY <1>1, <2>1, <2>3
    <3> DEFINE j == k - 1
    <3> HIDE DEF j
    <3>2. j \in Places(r)' /\ At(r, j)' = u
      BY <2>1, <2>3, <3>1 DEF Loses, j
    <3> QED
      BY <3>2
  <2>4. CASE r = q /\ k < i
    <3>1. k \in Places(r)' /\ k \in 0 .. m - 2
      BY <1>1, <2>1, <2>4
    <3>2. At(r, k)' = u
      BY <2>1, <2>4, <3>1 DEF Loses
    <3> QED
      BY <3>1, <3>2
  <2>5. CASE r # q
    BY <1>2, <2>1, <2>5
  <2> QED
    BY <1>1, <2>1, <2>2, <2>3, <2>4, <2>5
<1> HIDE DEF Was
<1> QED
  BY <1>5, <1>6, <1>7 DEF PlacesOwn

\* allocate gives out a slot that is not in use.
LEMMA AllocateKeeps ==
  ASSUME PoolTypes, FreeRest, CanAllocate, NEW o \in Orders, Allocate(o),
         UNCHANGED threw
  PROVE  /\ freeList[next] \in Slots \ InUse
         /\ InUse' = InUse \cup {freeList[next]}
         /\ PoolTypes' /\ FreeRest'
<1> USE QueueAssumption
<1> DEFINE s == freeList[next]
<1>1. next \in Free /\ next \in Slots /\ next \in Nat /\ next < PoolSize
  BY DEF PoolTypes, CanAllocate, Free, Slots
<1>2. s \in Slots /\ s \notin InUse
  BY <1>1 DEF PoolTypes, FreeRest
<1>3. /\ storage' = [storage EXCEPT ![s] = o]
      /\ allocated' = [allocated EXCEPT ![s] = TRUE]
      /\ next' = next + 1 /\ freeList' = freeList
  BY DEF Allocate
<1>4. s = freeList[next]
  OBVIOUS
<1> HIDE DEF s
<1>5. InUse' = InUse \cup {s}
  <2>1. ASSUME NEW t \in Slots PROVE allocated'[t] <=> allocated[t] \/ t = s
    BY <1>2, <1>3 DEF PoolTypes
  <2> QED
    BY <1>2, <2>1 DEF InUse
<1>6. PoolTypes'
  <2>1. storage' \in [Slots -> Orders \cup {Blank}]
    BY <1>3 DEF PoolTypes
  <2>2. allocated' \in [Slots -> BOOLEAN]
    BY <1>3 DEF PoolTypes
  <2> QED
    BY <1>1, <1>3, <2>1, <2>2 DEF PoolTypes
<1>7. Cardinality(InUse') = next + 1
  <2>1. Cardinality(InUse \cup {s}) = Cardinality(InUse) + 1
    BY <1>2, InUseFinite, FS_AddElement
  <2> QED
    BY <1>5, <2>1 DEF FreeRest
<1>8. Free' = Free \ {next}
  BY <1>1, <1>3 DEF Free
<1>9. FreeRest'
  <2>1. \A k \in Free' : freeList[k] \notin InUse'
    BY <1>1, <1>4, <1>5, <1>8 DEF FreeRest
  <2>2. \A k, l \in Free' : freeList[k] = freeList[l] => k = l
    BY <1>8 DEF FreeRest
  <2>3. \A t \in Slots \ InUse' : \E k \in Free' : freeList[k] = t
    BY <1>4, <1>5, <1>8 DEF FreeRest
  <2> QED
    BY <1>3, <1>7, <2>1, <2>2, <2>3 DEF FreeRest
<1> QED
  BY <1>2, <1>4, <1>5, <1>6, <1>9

\* deallocate of a slot in use does not throw and makes it the next one free.
LEMMA DeallocateKeeps ==
  ASSUME PoolTypes, FreeRest, NEW s \in InUse, Deallocate(s), UNCHANGED storage
  PROVE  /\ InUse' = InUse \ {s}
         /\ PoolTypes' /\ FreeRest'
<1> USE QueueAssumption
<1>1. s \in Slots /\ allocated[s]
  BY DEF InUse
<1>2. /\ allocated' = [allocated EXCEPT ![s] = FALSE]
      /\ freeList' = [freeList EXCEPT ![next - 1] = s]
      /\ next' = next - 1 /\ threw' = threw
  BY <1>1 DEF Deallocate
<1>3. next \in Nat /\ next > 0 /\ next <= PoolSize
  <2>1. InUse # {} /\ Cardinality(InUse) # 0
    BY InUseFinite, FS_EmptySet
  <2> QED
    BY <2>1 DEF PoolTypes, FreeRest
<1>4. next - 1 \in Slots /\ next - 1 \notin Free
  BY <1>3 DEF Slots, Free
<1>5. InUse' = InUse \ {s}
  <2>1. ASSUME NEW t \in Slots PROVE allocated'[t] <=> allocated[t] /\ t # s
    BY <1>1, <1>2 DEF PoolTypes
  <2> QED
    BY <1>1, <2>1 DEF InUse
<1>6. PoolTypes'
  <2>1. freeList' \in [Slots -> Slots]
    BY <1>1, <1>2 DEF PoolTypes
  <2>2. allocated' \in [Slots -> BOOLEAN]
    BY <1>2 DEF PoolTypes
  <2> QED
    BY <1>2, <1>3, <2>1, <2>2 DEF PoolTypes
<1>7. Cardinality(InUse') = next - 1
  <2>1. Cardinality(InUse \ {s}) = Cardinality(InUse) - 1
    BY InUseFinite, FS_RemoveElement
  <2> QED
    BY <1>5, <2>1 DEF FreeRest
<1>8. Free' = Free \cup {next - 1}
  BY <1>2, <1>3 DEF Free
<1>9. Free \subseteq Slots
  BY <1>3 DEF Free, Slots
<1>10. /\ freeList'[next - 1] = s
       /\ \A k \in Free : freeList'[k] = freeList[k]
  BY <1>2, <1>4, <1>9 DEF PoolTypes
<1> DEFINE e == next - 1
<1> HIDE DEF e
<1>11. FreeRest'
  <2>0. Free' = Free \cup {e} /\ e \notin Free /\ freeList'[e] = s
    BY <1>4, <1>8, <1>10 DEF e
  <2>1. \A k \in Free' : freeList'[k] \notin InUse'
    BY <1>5, <1>10, <2>0 DEF FreeRest
  <2>2. \A k, l \in Free' : freeList'[k] = freeList'[l] => k = l
    BY <1>10, <2>0 DEF FreeRest
  <2>3. \A t \in Slots \ InUse' : \E k \in Free' : freeList'[k] = t
    BY <1>5, <1>10, <2>0 DEF FreeRest
  <2> QED
    BY <1>2, <1>7, <2>1, <2>2, <2>3 DEF FreeRest
<1> QED
  BY <1>5, <1>6, <1>11

\* Steps that leave the pool's books alone.
LEMMA PoolStays ==
  ASSUME FreeRest, UNCHANGED <<freeList, allocated, next>>
  PROVE  FreeRest' /\ InUse' = InUse
<1>1. InUse' = InUse /\ Free' = Free
  BY DEF InUse, Free
<1> QED
  BY <1>1 DEF FreeRest

-----------------------------------------------------------------------------
(* No leaks *)

\* No slot is in use and the free list has all of them.
LEMMA QueueInvInit == Init => QueueInv
<1> SUFFICES ASSUME Init PROVE QueueInv
  OBVIOUS
<1> USE QueueAssumption DEF Init
<1>1. InUse = {} /\ Free = Slots
  BY DEF InUse, Free, Slots
<1>2. PoolTypes
  <2>1. freeList \in [Slots -> Slots]
    BY DEF Slots
  <2>2. allocated \in [Slots -> BOOLEAN]
    OBVIOUS
  <2>3. storage \in [Slots -> Orders \cup {Blank}] /\ next \in 0 .. PoolSize
    OBVIOUS
  <2> QED
    BY <2>1, <2>2, <2>3 DEF PoolTypes
<1>3. QueueTypes
  <2> DEFINE a == <<>>
  <2>1. DOMAIN a = 0 .. 0 - 1
    OBVIOUS
  <2>2. Length(a) = 0
    BY <2>1, LengthOf
  <2>3. pointers = [q \in Queues |-> a]
    OBVIOUS
  <2> HIDE DEF a
  <2> QED
    BY <2>1, <2>2, <2>3 DEF QueueTypes
<1>4. PlacesOwn
  BY <1>1 DEF PlacesOwn, Places, size
<1>5. FreeRest
  <2>1. \A k, l \in Free : freeList[k] = freeList[l] => k = l
    BY <1>1 DEF Slots
  <2>2. ASSUME NEW s \in Slots PROVE \E k \in Free : freeList[k] = s
    <3>1. PoolSize - 1 - s \in Slots /\ freeList[PoolSize - 1 - s] = s
      BY DEF Slots
    <3> QED
      BY <1>1, <3>1
  <2>3. next = Cardinality(InUse)
    BY <1>1, FS_EmptySet
  <2> QED
    BY <1>1, <2>1, <2>2, <2>3 DEF FreeRest
<1> QED
  BY <1>2, <1>3, <1>4, <1>5 DEF QueueInv

\* Every step keeps the invariant.
LEMMA QueueInvStep == QueueInv /\ [Next]_vars => QueueInv'
<1> SUFFICES ASSUME QueueInv, [Next]_vars PROVE QueueInv'
  OBVIOUS
<1>0. PoolTypes /\ QueueTypes /\ PlacesOwn /\ FreeRest
  BY DEF QueueInv
<1>1. ASSUME NEW q \in Queues, NEW o \in Orders, push_back(q, o)
      PROVE  QueueInv'
  <2>1. QueueTypes' /\ Gains(q, freeList[next])
    BY <1>0, <1>1, PushGains
  <2>2. /\ freeList[next] \in Slots \ InUse
        /\ InUse' = InUse \cup {freeList[next]}
        /\ PoolTypes' /\ FreeRest'
    BY <1>0, <1>1, AllocateKeeps DEF push_back
  <2>3. PlacesOwn'
    BY <1>0, <2>1, <2>2, GainKeepsPlaces
  <2> QED
    BY <2>1, <2>2, <2>3 DEF QueueInv
<1>2. ASSUME NEW q \in Queues, PushThrows(q)
      PROVE  QueueInv'
  <2>1. QueueTypes' /\ \A r \in Queues : Stays(r)
    BY <1>0, <1>2, ThrowStays
  <2>2. UNCHANGED <<storage, freeList, allocated, next, threw>>
    BY <1>2 DEF PushThrows
  <2>3. FreeRest' /\ PlacesOwn'
    BY <1>0, <2>1, <2>2, PoolStays, StepKeepsPlaces
  <2> QED
    BY <1>0, <2>1, <2>2, <2>3 DEF QueueInv, PoolTypes
<1>3. ASSUME NEW q \in Queues, NEW i \in Places(q), Loses(q, i), QueueTypes',
             Deallocate(At(q, i)), UNCHANGED storage
      PROVE  QueueInv'
  <2>1. At(q, i) \in InUse
    BY <1>0 DEF PlacesOwn
  <2>2. InUse' = InUse \ {At(q, i)} /\ PoolTypes' /\ FreeRest'
    BY <1>0, <1>3, <2>1, DeallocateKeeps
  <2>3. PlacesOwn'
    BY <1>0, <1>3, <2>2, LossKeepsPlaces
  <2> QED
    BY <1>3, <2>2, <2>3 DEF QueueInv
<1>4. ASSUME NEW q \in Queues, pop_front(q)
      PROVE  QueueInv'
  <2>1. QueueTypes' /\ 0 \in Places(q) /\ Loses(q, 0)
    BY <1>0, <1>4, PopLoses
  <2>2. first[q] + 0 = first[q]
    BY <1>0, Sizes
  <2>3. Deallocate(At(q, 0)) /\ UNCHANGED storage
    BY <1>4, <2>2 DEF pop_front, At
  <2> QED
    BY <1>3, <2>1, <2>3
<1>5. ASSUME NEW q \in Queues, NEW i \in Slots, erase_at(q, i)
      PROVE  QueueInv'
  <2>1. i \in Nat
    BY QueueAssumption DEF Slots
  <2>2. QueueTypes' /\ i \in Places(q) /\ Loses(q, i)
    BY <1>0, <1>5, <2>1, EraseLoses
  <2>3. Deallocate(At(q, i)) /\ UNCHANGED storage
    BY <1>5 DEF erase_at, At
  <2> QED
    BY <1>3, <2>2, <2>3
<1>6. ASSUME NEW q \in Queues, NEW i \in Slots, NEW o \in Orders, at(q, i, o)
      PROVE  QueueInv'
  <2>1. UNCHANGED <<freeList, allocated, next, pointers, first, last, threw>>
    BY <1>6 DEF at
  <2>2. \A r \in Queues : Stays(r)
    BY <2>1 DEF Stays, size, At
  <2>3. FreeRest' /\ PlacesOwn'
    BY <1>0, <2>1, <2>2, PoolStays, StepKeepsPlaces
  <2>4. PoolTypes' /\ QueueTypes'
    BY <1>0, <1>6, <2>1 DEF at, PoolTypes, QueueTypes, Length
  <2> QED
    BY <2>3, <2>4 DEF QueueInv
<1>7. ASSUME NEW q \in Queues, Discard(q)
      PROVE  QueueInv'
  <2>1. QueueTypes' /\ \A r \in Queues : Stays(r)
    BY <1>0, <1>7, DiscardStays
  <2>2. UNCHANGED <<storage, freeList, allocated, next, threw>>
    BY <1>7 DEF Discard
  <2>3. FreeRest' /\ PlacesOwn'
    BY <1>0, <2>1, <2>2, PoolStays, StepKeepsPlaces
  <2> QED
    BY <1>0, <2>1, <2>2, <2>3 DEF QueueInv, PoolTypes
<1>8. CASE UNCHANGED vars
  <2>1. \A r \in Queues : Stays(r)
    BY <1>8 DEF vars, Stays, size, At
  <2>2. FreeRest' /\ PlacesOwn'
    BY <1>0, <1>8, <2>1, PoolStays, StepKeepsPlaces DEF vars
  <2> QED
    BY <1>0, <1>8, <2>2 DEF QueueInv, PoolTypes, QueueTypes, vars
<1> QED
  BY <1>1, <1>2, <1>4, <1>5, <1>6, <1>7, <1>8 DEF Next

\* The pool and the queues agree in every behaviour.
LEMMA QueueInvariant == Spec => []QueueInv
  BY QueueInvInit, QueueInvStep, PTL DEF Spec

\* No slot is returned twice and none leaks, through compaction, growth,
\* erasure and exhaustion (OrderPool and OrderQueue).
THEOREM PoolNeverLeaks == Spec => []NoLeak
<1>1. ASSUME QueueInv PROVE NoLeak
  <2>0. PoolTypes /\ QueueTypes /\ PlacesOwn /\ FreeRest
    BY <1>1 DEF QueueInv
  <2>1. ASSUME NEW q \in Queues
        PROVE  /\ DOMAIN Held(q) = 1 .. size(q) /\ size(q) \in Nat
               /\ \A k \in 1 .. size(q) :
                      k - 1 \in Places(q) /\ Held(q)[k] = At(q, k - 1)
    <3>1. size(q) \in Nat /\ first[q] \in Nat
      BY <2>0, Sizes
    <3>2. ASSUME NEW k \in 1 .. size(q)
          PROVE  k - 1 \in Places(q) /\ Held(q)[k] = At(q, k - 1)
      <4>1. first[q] + k - 1 = first[q] + (k - 1)
        BY <3>1
      <4> QED
        BY <3>1, <4>1 DEF Places, Held, At
    <3> QED
      BY <3>1, <3>2 DEF Held
  <2>2. InUse = UNION {Range(Held(q)) : q \in Queues}
    <3>1. ASSUME NEW s \in InUse
          PROVE  \E q \in Queues : s \in Range(Held(q))
      <4>1. PICK q \in Queues : \E j \in Places(q) : At(q, j) = s
        BY <2>0 DEF PlacesOwn
      <4>2. PICK j \in Places(q) : At(q, j) = s
        BY <4>1
      <4>3. j + 1 \in 1 .. size(q) /\ (j + 1) - 1 = j
        BY <2>1 DEF Places
      <4>4. Held(q)[j + 1] = s
        BY <2>1, <4>2, <4>3
      <4> QED
        BY <2>1, <4>3, <4>4 DEF Range
    <3>2. ASSUME NEW q \in Queues, NEW s \in Range(Held(q))
          PROVE  s \in InUse
      BY <2>0, <2>1 DEF Range, PlacesOwn
    <3> QED
      BY <3>1, <3>2
  <2>3. ASSUME NEW q \in Queues, NEW r \in Queues, NEW i \in 1 .. size(q),
               NEW j \in 1 .. size(r), Held(q)[i] = Held(r)[j]
        PROVE  q = r /\ i = j
    <3>1. /\ i - 1 \in Places(q) /\ j - 1 \in Places(r)
          /\ At(q, i - 1) = At(r, j - 1)
      BY <2>1, <2>3
    <3>2. q = r /\ i - 1 = j - 1
      BY <2>0, <3>1 DEF PlacesOwn
    <3> QED
      BY <3>2
  <2>4. {freeList[k] : k \in Free} = Slots \ InUse
    <3>1. Free \subseteq Slots
      BY <2>0, QueueAssumption DEF PoolTypes, Free, Slots
    <3> QED
      BY <2>0, <3>1 DEF PoolTypes, FreeRest
  <2>5. Slots \ InUse = {s \in Slots : ~allocated[s]}
    BY DEF InUse
  <2> QED
    BY <2>0, <2>2, <2>3, <2>4, <2>5 DEF NoLeak, InUse, Free, PoolTypes, FreeRest
<1> QED
  BY <1>1, QueueInvariant, PTL

-----------------------------------------------------------------------------
(* The queues implement PooledQueues *)

\* The orders of each queue, as the refinement mapping reads them.
Seqs == [q \in Queues |-> [i \in 1 .. size(q) |-> storage[Held(q)[i]]]]

Contents == Orders \cup {Blank}

SeqPlaces == UNION {{q} \X DOMAIN Seqs[q] : q \in Queues}

\* What is at the places of the queues.
SeqsHold ==
    /\ Seqs = [q \in Queues |-> Seqs[q]]
    /\ \A q \in Queues :
           /\ Seqs[q] \in Seq(Contents) /\ Len(Seqs[q]) = size(q)
           /\ size(q) \in Nat /\ DOMAIN Seqs[q] = 1 .. size(q)
           /\ \A k \in 1 .. size(q) : /\ k - 1 \in Places(q)
                                      /\ At(q, k - 1) \in InUse
                                      /\ Seqs[q][k] = storage[At(q, k - 1)]

LEMMA SeqsAre == QueueInv => SeqsHold
<1>0. Seqs = [q \in Queues |-> Seqs[q]]
  BY DEF Seqs
<1> SUFFICES ASSUME QueueInv, NEW q \in Queues
             PROVE    /\ Seqs[q] \in Seq(Contents) /\ Len(Seqs[q]) = size(q)
                      /\ size(q) \in Nat /\ DOMAIN Seqs[q] = 1 .. size(q)
                      /\ \A k \in 1 .. size(q) :
                             /\ k - 1 \in Places(q)
                             /\ At(q, k - 1) \in InUse
                             /\ Seqs[q][k] = storage[At(q, k - 1)]
  BY <1>0 DEF SeqsHold
<1>2. size(q) \in Nat /\ first[q] \in Nat
  BY Sizes DEF QueueInv
<1>3. ASSUME NEW k \in 1 .. size(q)
      PROVE  /\ k - 1 \in Places(q) /\ At(q, k - 1) \in InUse
             /\ Seqs[q][k] = storage[At(q, k - 1)]
             /\ Seqs[q][k] \in Contents
  <2>1. first[q] + k - 1 = first[q] + (k - 1) /\ k - 1 \in Places(q)
    BY <1>2 DEF Places
  <2>2. At(q, k - 1) \in InUse /\ InUse \subseteq Slots
    BY <2>1 DEF QueueInv, PlacesOwn, InUse
  <2>3. Held(q)[k] = At(q, k - 1)
    BY <2>1 DEF Held, At
  <2>4. Seqs[q][k] = storage[At(q, k - 1)]
    BY <2>3 DEF Seqs
  <2> QED
    BY <2>1, <2>2, <2>4 DEF QueueInv, PoolTypes, Contents
<1>4. DOMAIN Seqs[q] = 1 .. size(q)
  BY DEF Seqs
<1>5. Seqs[q] = [k \in 1 .. size(q) |-> Seqs[q][k]]
  BY DEF Seqs
<1>6. Seqs[q] \in Seq(Contents) /\ Len(Seqs[q]) = size(q)
  BY <1>2, <1>3, <1>5
<1> QED
  BY <1>2, <1>3, <1>4, <1>6

\* The pool counts the places.
LEMMA PlacesCounted ==
  ASSUME QueueInv
  PROVE  Cardinality(SeqPlaces) = next
<1>0. SeqsHold
  BY SeqsAre
<1> USE <1>0
<1> DEFINE f == [p \in SeqPlaces |-> At(p[1], p[2] - 1)]
<1>1. ASSUME NEW p \in SeqPlaces
      PROVE  /\ p[1] \in Queues /\ p[2] \in 1 .. size(p[1])
             /\ p = <<p[1], p[2]>>
             /\ p[2] - 1 \in Places(p[1]) /\ f[p] \in InUse
             /\ p[2] \in Int
  <2>1. PICK q \in Queues : p \in {q} \X DOMAIN Seqs[q]
    BY DEF SeqPlaces
  <2>2. p[1] = q /\ p[2] \in 1 .. size(q) /\ p = <<p[1], p[2]>>
    BY <2>1 DEF SeqsHold
  <2> QED
    BY <2>2 DEF SeqsHold
<1>2. f \in [SeqPlaces -> InUse]
  BY <1>1
<1>3. ASSUME NEW p \in SeqPlaces, NEW r \in SeqPlaces, f[p] = f[r]
      PROVE  p = r
  <2>1. At(p[1], p[2] - 1) = At(r[1], r[2] - 1)
    BY <1>3
  <2>2. p[1] = r[1] /\ p[2] - 1 = r[2] - 1
    BY <1>1, <2>1 DEF QueueInv, PlacesOwn
  <2>3. p[2] = r[2]
    BY <1>1, <2>2
  <2> QED
    BY <1>1, <2>2, <2>3
<1>4. ASSUME NEW s \in InUse
      PROVE  \E p \in SeqPlaces : f[p] = s
  <2>1. PICK q \in Queues : \E j \in Places(q) : At(q, j) = s
    BY DEF QueueInv, PlacesOwn
  <2>2. PICK j \in Places(q) : At(q, j) = s
    BY <2>1
  <2>3. j + 1 \in 1 .. size(q) /\ (j + 1) - 1 = j
    BY DEF SeqsHold, Places
  <2>4. <<q, j + 1>> \in SeqPlaces
    BY <2>3 DEF SeqsHold, SeqPlaces
  <2>5. f[<<q, j + 1>>] = s
    BY <2>2, <2>3, <2>4
  <2> QED
    BY <2>4, <2>5
<1> HIDE DEF f
<1>5. f \in Injection(SeqPlaces, InUse) /\ f \in Surjection(SeqPlaces, InUse)
  BY <1>2, <1>3, <1>4, Fun_IsInj, Fun_IsSurj
<1>6. Cardinality(SeqPlaces) = Cardinality(InUse)
  BY <1>5, InUseFinite, FS_Injection
<1> QED
  BY <1>6 DEF QueueInv, FreeRest

\* A sequence without one of its elements.
LEMMA RemoveAtIs ==
  ASSUME NEW S, NEW s \in Seq(S), NEW t \in Seq(S), NEW i \in 1 .. Len(s),
         Len(t) = Len(s) - 1,
         \A k \in 1 .. Len(t) : t[k] = IF k < i THEN s[k] ELSE s[k + 1]
  PROVE  t = RemoveAt(s, i)
<1> DEFINE a == SubSeq(s, 1, i - 1)
           b == SubSeq(s, i + 1, Len(s))
<1>1. a \in Seq(S) /\ b \in Seq(S) /\ Len(a) = i - 1 /\ Len(b) = Len(s) - i
  OBVIOUS
<1>2. \A k \in 1 .. i - 1 : a[k] = s[k]
  OBVIOUS
<1>3. \A k \in 1 .. Len(s) - i : b[k] = s[i + k]
  OBVIOUS
<1> HIDE DEF a, b
<1>4. a \o b \in Seq(S) /\ Len(a \o b) = Len(s) - 1
  BY <1>1
<1>5. ASSUME NEW k \in 1 .. Len(t) PROVE (a \o b)[k] = t[k]
  <2>0. k \in Int /\ i \in Int /\ (k < i \/ k >= i) /\ (k >= i <=> ~(k < i))
    OBVIOUS
  <2>1. CASE k < i
    <3>1. (a \o b)[k] = a[k]
      BY <1>1, <2>1
    <3> QED
      BY <1>2, <2>1, <3>1
  <2>2. CASE k >= i
    <3> DEFINE d == k - Len(a)
    <3>1. d \in 1 .. Len(s) - i /\ i + d = k + 1
      BY <1>1, <2>2
    <3>2. (a \o b)[k] = b[d]
      BY <1>1, <2>2
    <3> HIDE DEF d
    <3>3. b[d] = s[k + 1]
      BY <1>3, <3>1
    <3>4. t[k] = s[k + 1]
      BY <2>0, <2>2
    <3> QED
      BY <3>2, <3>3, <3>4
  <2> QED
    BY <2>0, <2>1, <2>2
<1> DEFINE c == a \o b
<1>6. c \in Seq(S) /\ Len(c) = Len(t) /\ \A k \in 1 .. Len(t) : c[k] = t[k]
  BY <1>4, <1>5
<1> HIDE DEF c
<1>7. t = c
  BY <1>6
<1> QED
  BY <1>7 DEF RemoveAt, a, b, c

\* A queue that stays, with orders that stay, holds the same sequence.
LEMMA SameSeq ==
  ASSUME SeqsHold, SeqsHold', NEW r \in Queues, Stays(r),
         \A j \in Places(r) : storage'[At(r, j)] = storage[At(r, j)]
  PROVE  Seqs'[r] = Seqs[r]
<1>1. /\ Seqs'[r] \in Seq(Contents) /\ Seqs[r] \in Seq(Contents)
      /\ Len(Seqs[r]) = size(r) /\ Len(Seqs'[r]) = size(r)
      /\ size(r)' = size(r)
  BY DEF SeqsHold, Stays
<1>2. ASSUME NEW k \in 1 .. size(r)
      PROVE  Seqs'[r][k] = Seqs[r][k]
  <2>1. k - 1 \in Places(r) /\ Seqs[r][k] = storage[At(r, k - 1)]
    BY DEF SeqsHold
  <2>2. At(r, k - 1)' = At(r, k - 1)
    BY <2>1 DEF Stays
  <2>3. Seqs'[r][k] = storage'[At(r, k - 1)']
    BY <1>1 DEF SeqsHold
  <2> QED
    BY <2>1, <2>2, <2>3
<1> QED
  BY <1>1, <1>2

\* One queue changes.
LEMMA OneSeq ==
  ASSUME SeqsHold, SeqsHold', NEW q \in Queues, NEW e, Seqs'[q] = e,
         \A r \in Queues \ {q} : Seqs'[r] = Seqs[r]
  PROVE  Seqs' = [Seqs EXCEPT ![q] = e]
  BY DEF SeqsHold

\* push_back appends the order.
LEMMA PushAppends ==
  ASSUME QueueInv, SeqsHold, SeqsHold', NEW q \in Queues, NEW o \in Orders,
         push_back(q, o)
  PROVE  /\ next < PoolSize
         /\ Seqs' = [Seqs EXCEPT ![q] = Append(Seqs[q], o)]
<1> DEFINE s == freeList[next]
           m == size(q)
<1>0. PoolTypes /\ QueueTypes /\ PlacesOwn /\ FreeRest
  BY DEF QueueInv
<1>1. Gains(q, s)
  BY <1>0, PushGains
<1>2. s \in Slots \ InUse
  BY <1>0, AllocateKeeps DEF push_back
<1>3. storage' = [storage EXCEPT ![s] = o] /\ next < PoolSize
  BY DEF push_back, Allocate, CanAllocate
<1>4. storage'[s] = o /\ \A u \in InUse : storage'[u] = storage[u]
  BY <1>0, <1>2, <1>3 DEF PoolTypes, InUse
<1> HIDE DEF s, m
<1>5. ASSUME NEW r \in Queues \ {q} PROVE Seqs'[r] = Seqs[r]
  <2>1. \A j \in Places(r) : storage'[At(r, j)] = storage[At(r, j)]
    BY <1>0, <1>4 DEF PlacesOwn
  <2> QED
    BY <1>1, <2>1, SameSeq DEF Gains
<1>6. /\ Seqs'[q] \in Seq(Contents) /\ Seqs[q] \in Seq(Contents)
      /\ Len(Seqs[q]) = m /\ Len(Seqs'[q]) = m + 1 /\ m \in Nat
      /\ size(q)' = m + 1
  BY <1>1 DEF SeqsHold, Gains, m
<1>7. ASSUME NEW k \in 1 .. m PROVE Seqs'[q][k] = Seqs[q][k]
  <2>1. k - 1 \in Places(q) /\ Seqs[q][k] = storage[At(q, k - 1)]
        /\ At(q, k - 1) \in InUse
    BY DEF SeqsHold, m
  <2>2. At(q, k - 1)' = At(q, k - 1)
    BY <1>1, <2>1 DEF Gains
  <2>3. Seqs'[q][k] = storage'[At(q, k - 1)']
    BY <1>6 DEF SeqsHold
  <2> QED
    BY <1>4, <2>1, <2>2, <2>3
<1>8. ASSUME NEW k \in {m + 1} PROVE Seqs'[q][k] = o
  <2>1. k \in 1 .. m + 1 /\ k - 1 \in {m}
    BY <1>6
  <2>2. At(q, k - 1)' = s
    BY <1>1, <2>1 DEF Gains, m
  <2>3. Seqs'[q][k] = storage'[At(q, k - 1)']
    BY <1>6, <2>1 DEF SeqsHold
  <2> QED
    BY <1>4, <2>2, <2>3
<1>9. Seqs'[q] = Append(Seqs[q], o)
  <2> DEFINE x == Seqs[q]
             y == Seqs'[q]
  <2>1. /\ x \in Seq(Contents) /\ y \in Seq(Contents) /\ Len(x) = m /\ m \in Nat
        /\ Len(y) = m + 1 /\ (\A k \in 1 .. m : y[k] = x[k]) /\ y[m + 1] = o
        /\ o \in Contents
    BY <1>6, <1>7, <1>8 DEF Contents
  <2> HIDE DEF x, y
  <2>2. y = Append(x, o)
    BY <2>1
  <2> QED
    BY <2>2 DEF x, y
<1> QED
  BY <1>3, <1>5, <1>9, OneSeq

\* erase_at and pop_front take an order out.
LEMMA LossRemoves ==
  ASSUME QueueInv, SeqsHold, SeqsHold', NEW q \in Queues, NEW i \in Places(q),
         Loses(q, i), UNCHANGED storage
  PROVE  /\ i + 1 \in DOMAIN Seqs[q]
         /\ Seqs' = [Seqs EXCEPT ![q] = RemoveAt(Seqs[q], i + 1)]
<1> DEFINE m == size(q)
<1>1. ASSUME NEW r \in Queues \ {q} PROVE Seqs'[r] = Seqs[r]
  BY SameSeq DEF Loses
<1>2. /\ Seqs'[q] \in Seq(Contents) /\ Seqs[q] \in Seq(Contents)
      /\ Len(Seqs[q]) = m /\ Len(Seqs'[q]) = m - 1 /\ m \in Nat
      /\ size(q)' = m - 1 /\ i \in 0 .. m - 1 /\ DOMAIN Seqs[q] = 1 .. m
  BY DEF SeqsHold, Loses, Places
<1> HIDE DEF m
<1>3. ASSUME NEW k \in 1 .. m - 1
      PROVE  Seqs'[q][k] = IF k < i + 1 THEN Seqs[q][k] ELSE Seqs[q][k + 1]
  <2>1. Seqs'[q][k] = storage[At(q, k - 1)']
    BY <1>2 DEF SeqsHold
  <2>2. /\ k - 1 \in 0 .. m - 2 /\ (k - 1) + 1 = k /\ (k + 1) - 1 = k
        /\ (k - 1 < i <=> k < i + 1)
    BY <1>2
  <2>3. At(q, k - 1)' = IF k - 1 < i THEN At(q, k - 1) ELSE At(q, k)
    BY <2>2 DEF Loses, m
  <2>4. /\ Seqs[q][k] = storage[At(q, k - 1)]
        /\ Seqs[q][k + 1] = storage[At(q, k)]
    <3>1. k \in 1 .. m /\ k + 1 \in 1 .. m
      BY <1>2
    <3>2. \A l \in 1 .. m : Seqs[q][l] = storage[At(q, l - 1)]
      BY DEF SeqsHold, m
    <3>3. Seqs[q][k + 1] = storage[At(q, (k + 1) - 1)]
      BY <3>1, <3>2
    <3> QED
      BY <2>2, <3>1, <3>2, <3>3
  <2> QED
    BY <2>1, <2>2, <2>3, <2>4
<1>4. Seqs'[q] = RemoveAt(Seqs[q], i + 1)
  <2>1. i + 1 \in 1 .. Len(Seqs[q]) /\ Len(Seqs'[q]) = Len(Seqs[q]) - 1
    BY <1>2
  <2>2. \A k \in 1 .. Len(Seqs'[q]) :
            Seqs'[q][k] = IF k < i + 1 THEN Seqs[q][k] ELSE Seqs[q][k + 1]
    BY <1>2, <1>3
  <2> DEFINE x == Seqs[q]
             y == Seqs'[q]
             p == i + 1
  <2>3. /\ x \in Seq(Contents) /\ y \in Seq(Contents) /\ p \in 1 .. Len(x)
        /\ Len(y) = Len(x) - 1
        /\ \A k \in 1 .. Len(y) : y[k] = IF k < p THEN x[k] ELSE x[k + 1]
    BY <1>2, <2>1, <2>2
  <2> HIDE DEF x, y, p
  <2>4. y = RemoveAt(x, p)
    BY <2>3, RemoveAtIs
  <2> QED
    BY <2>4 DEF x, y, p
<1>5. i + 1 \in DOMAIN Seqs[q]
  BY <1>2
<1> QED
  BY <1>1, <1>4, <1>5, OneSeq

\* An order is written through a reference.
LEMMA WriteWrites ==
  ASSUME QueueInv, SeqsHold, SeqsHold', NEW q \in Queues, NEW i \in Slots,
         NEW o \in Orders, at(q, i, o)
  PROVE  /\ i + 1 \in DOMAIN Seqs[q]
         /\ Seqs' = [Seqs EXCEPT ![q] = [Seqs[q] EXCEPT ![i + 1] = o]]
<1> DEFINE m == size(q)
           s == At(q, i)
<1>0. PoolTypes /\ QueueTypes /\ PlacesOwn
  BY DEF QueueInv
<1>1. \A r \in Queues : Stays(r)
  BY DEF at, Stays, size, At
<1>2. /\ i \in Places(q) /\ storage' = [storage EXCEPT ![s] = o]
      /\ i \in 0 .. m - 1
  BY <1>0, Sizes, QueueAssumption DEF at, At, Places, size, Slots
<1>3. s \in InUse /\ storage'[s] = o /\ \A u \in InUse \ {s} : storage'[u] = storage[u]
  BY <1>0, <1>2 DEF PlacesOwn, PoolTypes, InUse
<1>4. \A r \in Queues : \A j \in Places(r) :
          At(r, j) \in InUse /\ (At(r, j) = s => r = q /\ j = i)
  BY <1>0, <1>2 DEF PlacesOwn
<1> HIDE DEF m, s
<1>5. ASSUME NEW r \in Queues \ {q} PROVE Seqs'[r] = Seqs[r]
  BY <1>1, <1>3, <1>4, SameSeq
<1>6. /\ Seqs'[q] \in Seq(Contents) /\ Seqs[q] \in Seq(Contents)
      /\ Len(Seqs[q]) = m /\ Len(Seqs'[q]) = m /\ m \in Nat
      /\ size(q)' = m /\ DOMAIN Seqs[q] = 1 .. m
  BY <1>1 DEF SeqsHold, Stays, m
<1>7. ASSUME NEW k \in 1 .. m
      PROVE  Seqs'[q][k] = IF k = i + 1 THEN o ELSE Seqs[q][k]
  <2>1. k - 1 \in Places(q) /\ Seqs[q][k] = storage[At(q, k - 1)]
    BY DEF SeqsHold, m
  <2>2. At(q, k - 1)' = At(q, k - 1)
    BY <1>1, <2>1 DEF Stays
  <2>3. Seqs'[q][k] = storage'[At(q, k - 1)']
    BY <1>6 DEF SeqsHold
  <2>4. CASE k = i + 1
    <3>1. k - 1 = i
      BY <1>2, <2>4
    <3> QED
      BY <1>3, <2>2, <2>3, <2>4, <3>1 DEF s
  <2>5. CASE k # i + 1
    <3>1. k - 1 # i
      BY <1>2, <2>5
    <3>2. At(q, k - 1) \in InUse \ {s}
      BY <1>4, <2>1, <3>1
    <3> QED
      BY <1>3, <2>1, <2>2, <2>3, <2>5, <3>2
  <2> QED
    BY <2>4, <2>5
<1>8. Seqs'[q] = [Seqs[q] EXCEPT ![i + 1] = o] /\ i + 1 \in DOMAIN Seqs[q]
  <2> DEFINE x == Seqs[q]
             y == Seqs'[q]
             p == i + 1
  <2>1. /\ x \in Seq(Contents) /\ y \in Seq(Contents) /\ Len(x) = m /\ m \in Nat
        /\ Len(y) = m /\ (\A k \in 1 .. m : y[k] = IF k = p THEN o ELSE x[k])
        /\ p \in 1 .. m
    BY <1>2, <1>6, <1>7
  <2> HIDE DEF x, y, p
  <2>2. y = [x EXCEPT ![p] = o] /\ p \in DOMAIN x
    BY <2>1
  <2> QED
    BY <2>2 DEF x, y, p
<1> QED
  BY <1>5, <1>8, OneSeq

\* Every queue is a sequence of orders, oldest first, and a push goes through
\* while fewer than PoolSize orders are held: what module OrderBook assumes of
\* its price levels.
THEOREM QueuesImplementSequences == Spec => QueuesAreSequences
<1>1. Init => Abstract!Init
  <2> SUFFICES ASSUME Init PROVE Seqs = [q \in Queues |-> <<>>]
    BY DEF Abstract!Init, Seqs
  <2>1. \A q \in Queues : size(q) = 0
    BY DEF Init, size
  <2>2. \A q \in Queues : [i \in 1 .. size(q) |-> storage[Held(q)[i]]] = <<>>
    BY <2>1
  <2> QED
    BY <2>2 DEF Seqs
<1>2. ASSUME QueueInv, SeqsHold, SeqsHold', [Next]_vars
      PROVE  \/ Seqs' = Seqs
             \/ \E q \in Queues : \E o \in Orders :
                    /\ Cardinality(SeqPlaces) < PoolSize
                    /\ Seqs' = [Seqs EXCEPT ![q] = Append(Seqs[q], o)]
             \/ \E q \in Queues : \E i \in DOMAIN Seqs[q] :
                    Seqs' = [Seqs EXCEPT ![q] = RemoveAt(Seqs[q], i)]
             \/ \E q \in Queues : \E i \in DOMAIN Seqs[q] : \E o \in Orders :
                    Seqs' = [Seqs EXCEPT ![q] = [Seqs[q] EXCEPT ![i] = o]]
  <2>0. PoolTypes /\ QueueTypes /\ PlacesOwn
    BY <1>2 DEF QueueInv
  <2>1. ASSUME NEW q \in Queues, NEW o \in Orders, push_back(q, o)
        PROVE  /\ Cardinality(SeqPlaces) < PoolSize
               /\ Seqs' = [Seqs EXCEPT ![q] = Append(Seqs[q], o)]
    BY <1>2, <2>1, PushAppends, PlacesCounted
  <2>2. ASSUME \A r \in Queues : Stays(r), UNCHANGED storage
        PROVE  Seqs' = Seqs
    <3>1. \A r \in Queues : Seqs'[r] = Seqs[r]
      BY <1>2, <2>2, SameSeq
    <3> QED
      BY <1>2, <3>1 DEF SeqsHold
  <2>3. ASSUME NEW q \in Queues, PushThrows(q)
        PROVE  Seqs' = Seqs
    BY <2>0, <2>2, <2>3, ThrowStays DEF PushThrows
  <2>4. ASSUME NEW q \in Queues, pop_front(q)
        PROVE  \E i \in DOMAIN Seqs[q] :
                   Seqs' = [Seqs EXCEPT ![q] = RemoveAt(Seqs[q], i)]
    <3>1. 0 \in Places(q) /\ Loses(q, 0) /\ UNCHANGED storage
      BY <2>0, <2>4, PopLoses DEF pop_front
    <3>2. /\ 0 + 1 \in DOMAIN Seqs[q]
          /\ Seqs' = [Seqs EXCEPT ![q] = RemoveAt(Seqs[q], 0 + 1)]
      BY <1>2, <3>1, LossRemoves
    <3> QED
      BY <3>2
  <2>5. ASSUME NEW q \in Queues, NEW i \in Slots, erase_at(q, i)
        PROVE  \E k \in DOMAIN Seqs[q] :
                   Seqs' = [Seqs EXCEPT ![q] = RemoveAt(Seqs[q], k)]
    <3>1. i \in Nat
      BY QueueAssumption DEF Slots
    <3>2. i \in Places(q) /\ Loses(q, i) /\ UNCHANGED storage
      BY <2>0, <2>5, <3>1, EraseLoses DEF erase_at
    <3>3. /\ i + 1 \in DOMAIN Seqs[q]
          /\ Seqs' = [Seqs EXCEPT ![q] = RemoveAt(Seqs[q], i + 1)]
      BY <1>2, <3>2, LossRemoves
    <3> QED
      BY <3>3
  <2>6. ASSUME NEW q \in Queues, NEW i \in Slots, NEW o \in Orders, at(q, i, o)
        PROVE  \E k \in DOMAIN Seqs[q] :
                   Seqs' = [Seqs EXCEPT ![q] = [Seqs[q] EXCEPT ![k] = o]]
    BY <1>2, <2>6, WriteWrites
  <2>7. ASSUME NEW q \in Queues, Discard(q)
        PROVE  Seqs' = Seqs
    BY <2>0, <2>2, <2>7, DiscardStays DEF Discard
  <2>8. ASSUME UNCHANGED vars
        PROVE  Seqs' = Seqs
    BY <2>8 DEF vars, Seqs, Held, size
  <2> QED
    BY <1>2, <2>1, <2>3, <2>4, <2>5, <2>6, <2>7, <2>8 DEF Next
<1>3. QueueInv /\ SeqsHold /\ SeqsHold' /\ [Next]_vars
      => [Abstract!Next]_([q \in Queues |-> [i \in 1 .. size(q) |-> storage[Held(q)[i]]]])
  <2> SUFFICES ASSUME QueueInv, SeqsHold, SeqsHold', [Next]_vars, Seqs' # Seqs
               PROVE  Abstract!Next
    BY DEF Seqs
  <2>1. ASSUME NEW q \in Queues, NEW o \in Orders,
               Cardinality(SeqPlaces) < PoolSize,
               Seqs' = [Seqs EXCEPT ![q] = Append(Seqs[q], o)]
        PROVE  Abstract!PushBack(q, o)
    <3>1. Abstract!Cardinality(SeqPlaces) = Cardinality(SeqPlaces)
      BY DEF Abstract!Cardinality, Cardinality
    <3>2. Abstract!Places = SeqPlaces
      BY DEF Abstract!Places, Seqs, SeqPlaces
    <3> QED
      BY <2>1, <3>1, <3>2 DEF Abstract!PushBack, Abstract!Total, Seqs
  <2>2. ASSUME NEW q \in Queues, NEW i \in DOMAIN Seqs[q],
               Seqs' = [Seqs EXCEPT ![q] = RemoveAt(Seqs[q], i)]
        PROVE  Abstract!EraseAt(q, i)
    BY <2>2 DEF Abstract!EraseAt, Abstract!RemoveAt, RemoveAt, Seqs
  <2>3. ASSUME NEW q \in Queues, NEW i \in DOMAIN Seqs[q], NEW o \in Orders,
               Seqs' = [Seqs EXCEPT ![q] = [Seqs[q] EXCEPT ![i] = o]]
        PROVE  Abstract!Write(q, i, o)
    BY <2>3 DEF Abstract!Write, Seqs
  <2>4. \/ \E q \in Queues : \E o \in Orders : Abstract!PushBack(q, o)
        \/ \E q \in Queues : \E i \in DOMAIN Seqs[q] : Abstract!EraseAt(q, i)
        \/ \E q \in Queues : \E i \in DOMAIN Seqs[q] : \E o \in Orders :
               Abstract!Write(q, i, o)
    BY <1>2, <2>1, <2>2, <2>3
  <2> QED
    BY <2>4, Zenon DEF Abstract!Next, Seqs
<1> QED
  BY <1>1, <1>3, SeqsAre, QueueInvariant, PTL
     DEF Spec, QueuesAreSequences, Abstract!Spec
=============================================================================
