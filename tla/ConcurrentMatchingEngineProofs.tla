-------------------- MODULE ConcurrentMatchingEngineProofs --------------------
(***************************************************************************)
(* Proofs about the ring, for every capacity and every set of orders, and   *)
(* about the concurrent engine around it, for every number of controllers   *)
(* and every choice of policies.                                            *)
(***************************************************************************)
EXTENDS ConcurrentMatchingEngine, TLAPS

-----------------------------------------------------------------------------
(* The ring and its indices.                                                *)

\* The index after i: the next slot, or slot 0 after the last one.
LEMMA SuccValue ==
  ASSUME NEW i \in Slots
  PROVE  Succ(i) = IF i = Capacity - 1 THEN 0 ELSE i + 1
<1>1. CASE i = Capacity - 1
  <2>1. i + 1 = Capacity
    BY <1>1, RingAssumption
  <2>2. Capacity % Capacity = 0
    BY RingAssumption
  <2> QED
    BY <1>1, <2>1, <2>2 DEF Succ
<1>2. CASE i # Capacity - 1
  <2>1. i + 1 \in 0 .. Capacity - 1
    BY <1>2, RingAssumption DEF Slots
  <2>2. (i + 1) % Capacity = i + 1
    BY <2>1, RingAssumption
  <2> QED
    BY <1>2, <2>2 DEF Succ
<1> QED
  BY <1>1, <1>2

\* Stepping an index stays in the buffer and never brings two slots together.
LEMMA SuccProperties ==
  /\ \A i \in Slots : Succ(i) \in Slots
  /\ \A i, j \in Slots : Succ(i) = Succ(j) => i = j
  BY SuccValue, RingAssumption DEF Slots

-----------------------------------------------------------------------------
(* The inductive invariant: what each thread still knows after its test of  *)
(* the other thread's index, whatever the other thread did since.           *)

ProducerHasRoom ==
    pushPc # "idle" => Succ(tail) # head /\ pushing \in Orders

SlotWritten == pushPc = "publish" => buffer[tail] = pushing

ConsumerHasOrder == popPc # "idle" => head # tail

RingInv ==
    /\ RingTypeOK
    /\ ProducerHasRoom
    /\ SlotWritten
    /\ ConsumerHasOrder

\* The ring starts empty, with no call in progress.
LEMMA RingInvInit == RingInit => RingInv
  BY RingAssumption DEF RingInit, RingInv, RingTypeOK, ProducerHasRoom,
     SlotWritten, ConsumerHasOrder, Slots

\* Every step of push and of pop keeps the invariant.
LEMMA RingInvStep == RingInv /\ [RingNext]_ringVars => RingInv'
<1> SUFFICES ASSUME RingInv, [RingNext]_ringVars
             PROVE  RingInv'
  OBVIOUS
<1> USE DEF RingInv, RingTypeOK, ProducerHasRoom, SlotWritten, ConsumerHasOrder
<1>1. CASE UNCHANGED ringVars
  BY <1>1 DEF ringVars, pushVars, popVars, Succ
<1>2. CASE \E o \in Orders : PushBegin(o)
  BY <1>2 DEF PushBegin, isFull, popVars, Succ
<1>3. CASE PushFull
  BY <1>3, <1>1 DEF PushFull
<1>4. CASE PushWrite
  BY <1>4 DEF PushWrite, popVars, Succ
<1>5. CASE PushPublish
  BY <1>5, SuccProperties DEF PushPublish, popVars
<1>6. CASE PopBegin
  BY <1>6 DEF PopBegin, isEmpty, pushVars, Succ
<1>7. CASE PopEmpty
  BY <1>7, <1>1 DEF PopEmpty
<1>8. CASE PopRead
  BY <1>8 DEF PopRead, pushVars, Succ
<1>9. CASE PopPublish
  <2>1. head' = Succ(head) /\ popPc' = "idle"
    BY <1>9 DEF PopPublish
  <2>2. UNCHANGED <<buffer, popped, tail, pushPc, pushing>>
    BY <1>9 DEF PopPublish, pushVars
  <2>3. head # tail
    BY <1>9 DEF PopPublish
  <2>4. Succ(tail) # Succ(head)
    BY <2>3, SuccProperties
  <2>5. Succ(tail)' = Succ(tail)
    BY <2>2 DEF Succ
  <2> QED
    BY <2>1, <2>2, <2>4, <2>5, SuccProperties
<1> QED
  BY <1>1, <1>2, <1>3, <1>4, <1>5, <1>6, <1>7, <1>8, <1>9 DEF RingNext

\* The invariant holds throughout.
LEMMA RingInvariant == RingSpec => []RingInv
  BY RingInvInit, RingInvStep, PTL DEF RingSpec

\* Indices and slots keep their types, for every capacity.
THEOREM RingTypeCorrect == RingSpec => []RingTypeOK
<1>1. RingInv => RingTypeOK
  BY DEF RingInv
<1> QED
  BY <1>1, RingInvariant, PTL

\* The two threads never touch the contents of one slot at the same time, so
\* the plain copies of Order objects in push and pop are free of data races.
THEOREM RingRaceFree == RingSpec => []NoSlotRace
<1>1. RingInv => NoSlotRace
  BY DEF RingInv, NoSlotRace, ConsumerHasOrder
<1> QED
  BY <1>1, RingInvariant, PTL

-----------------------------------------------------------------------------
(* The ring implements the FIFO queue.                                      *)

\* The slot of the k-th order, without the remainder.
LEMMA SlotValue ==
  ASSUME NEW h \in Slots, NEW k \in 1 .. Capacity
  PROVE  (h + k - 1) % Capacity =
             IF h + k - 1 < Capacity THEN h + k - 1 ELSE h + k - 1 - Capacity
<1>1. CASE h + k - 1 < Capacity
  BY <1>1, RingAssumption DEF Slots
<1>2. CASE h + k - 1 >= Capacity
  <2> DEFINE r == h + k - 1 - Capacity
  <2>1. r \in 0 .. Capacity - 1 /\ h + k - 1 = Capacity + r
    BY <1>2, RingAssumption DEF Slots
  <2> HIDE DEF r
  <2>2. (Capacity + r) % Capacity = r
    BY <2>1, RingAssumption
  <2> QED
    BY <1>2, <2>1, <2>2, RingAssumption DEF Slots
<1> QED
  BY <1>1, <1>2, RingAssumption DEF Slots

\* size and Contents as functions of the indices and the slots, to speak of
\* them before and after a step.
SizeOf(h, t) == IF t >= h THEN t - h ELSE Capacity - h + t

SlotOf(h, k) == IF h + k - 1 < Capacity THEN h + k - 1 ELSE h + k - 1 - Capacity

ContentsOf(b, h, t) ==
    [k \in 1 .. SizeOf(h, t) |-> b[(h + k - 1) % Capacity]]

Slotfuls == [Slots -> Orders \cup {Blank}]

\* The number of orders in the ring stays below its capacity.
LEMMA SizeType ==
  ASSUME NEW h \in Slots, NEW t \in Slots
  PROVE  SizeOf(h, t) \in 0 .. Capacity - 1
  BY RingAssumption DEF SizeOf, Slots

\* The contents of the ring, slot by slot.
LEMMA ContentsValue ==
  ASSUME NEW b \in Slotfuls, NEW h \in Slots, NEW t \in Slots
  PROVE  /\ ContentsOf(b, h, t) \in Seq(Orders \cup {Blank})
         /\ Len(ContentsOf(b, h, t)) = SizeOf(h, t)
         /\ ContentsOf(b, h, t) = [k \in 1 .. SizeOf(h, t) |-> b[SlotOf(h, k)]]
         /\ \A k \in 1 .. SizeOf(h, t) : SlotOf(h, k) \in Slots
<1>1. SizeOf(h, t) \in 0 .. Capacity - 1
  BY SizeType
<1>2. \A k \in 1 .. SizeOf(h, t) : (h + k - 1) % Capacity = SlotOf(h, k)
  BY <1>1, SlotValue, RingAssumption DEF SlotOf
<1>3. \A k \in 1 .. SizeOf(h, t) : SlotOf(h, k) \in Slots
  BY <1>1, RingAssumption DEF SlotOf, Slots
<1>4. ContentsOf(b, h, t) = [k \in 1 .. SizeOf(h, t) |-> b[SlotOf(h, k)]]
  BY <1>2 DEF ContentsOf
<1>5. \A k \in 1 .. SizeOf(h, t) : b[SlotOf(h, k)] \in Orders \cup {Blank}
  BY <1>3 DEF Slotfuls
<1> QED
  BY <1>1, <1>3, <1>4, <1>5

\* Storing into the slot at the tail does not touch the contents: that slot
\* is the one the ring keeps unused.
LEMMA WriteOutside ==
  ASSUME NEW b \in Slotfuls, NEW h \in Slots, NEW t \in Slots,
         NEW o \in Orders
  PROVE  ContentsOf([b EXCEPT ![t] = o], h, t) = ContentsOf(b, h, t)
<1> DEFINE c == [b EXCEPT ![t] = o]
<1>1. c \in Slotfuls
  BY DEF Slotfuls
<1>2. \A k \in 1 .. SizeOf(h, t) : SlotOf(h, k) # t
  BY RingAssumption DEF SlotOf, SizeOf, Slots
<1>3. \A k \in 1 .. SizeOf(h, t) : c[SlotOf(h, k)] = b[SlotOf(h, k)]
  BY <1>2, ContentsValue DEF Slotfuls
<1> HIDE DEF c
<1>4. ContentsOf(c, h, t) = [k \in 1 .. SizeOf(h, t) |-> c[SlotOf(h, k)]]
  BY <1>1, ContentsValue
<1>5. ContentsOf(b, h, t) = [k \in 1 .. SizeOf(h, t) |-> b[SlotOf(h, k)]]
  BY ContentsValue
<1>6. ContentsOf(c, h, t) = ContentsOf(b, h, t)
  BY <1>3, <1>4, <1>5
<1> QED
  BY <1>6 DEF c

\* Storing the tail appends the order of the slot it leaves.
LEMMA TailAppends ==
  ASSUME NEW b \in Slotfuls, NEW h \in Slots, NEW t \in Slots,
         Succ(t) # h
  PROVE  /\ ContentsOf(b, h, Succ(t)) = Append(ContentsOf(b, h, t), b[t])
         /\ SizeOf(h, t) < Capacity - 1
<1>1. Succ(t) \in Slots
  BY SuccProperties
<1>2. SizeOf(h, Succ(t)) = SizeOf(h, t) + 1 /\ SizeOf(h, t) < Capacity - 1
  BY SuccValue, RingAssumption DEF SizeOf, Slots
<1>3. SlotOf(h, SizeOf(h, t) + 1) = t
  BY RingAssumption DEF SlotOf, SizeOf, Slots
<1>4. SizeOf(h, t) \in Nat
  BY SizeType
<1>5. Append(ContentsOf(b, h, t), b[t]) =
          [k \in 1 .. SizeOf(h, t) + 1 |-> b[SlotOf(h, k)]]
  <2> DEFINE c == ContentsOf(b, h, t)
             n == SizeOf(h, t)
  <2>1. c \in Seq(Orders \cup {Blank}) /\ Len(c) = n
        /\ c = [k \in 1 .. n |-> b[SlotOf(h, k)]]
    BY ContentsValue
  <2>2. n \in Nat /\ b[SlotOf(h, n + 1)] = b[t]
    BY <1>3, <1>4
  <2>3. b[t] \in Orders \cup {Blank}
    BY DEF Slotfuls
  <2> HIDE DEF c, n
  <2>4. Append(c, b[t]) = [k \in 1 .. n + 1 |-> IF k = n + 1 THEN b[t] ELSE c[k]]
    BY <2>1, <2>2, <2>3
  <2>5. \A k \in 1 .. n + 1 : (IF k = n + 1 THEN b[t] ELSE c[k]) = b[SlotOf(h, k)]
    BY <2>1, <2>2
  <2>6. Append(c, b[t]) = [k \in 1 .. n + 1 |-> b[SlotOf(h, k)]]
    BY <2>4, <2>5
  <2> QED
    BY <2>6 DEF c, n
<1> QED
  BY <1>1, <1>2, <1>5, ContentsValue

\* Storing the head drops the oldest order.
LEMMA HeadDrops ==
  ASSUME NEW b \in Slotfuls, NEW h \in Slots, NEW t \in Slots, h # t
  PROVE  /\ ContentsOf(b, h, t) # <<>>
         /\ Head(ContentsOf(b, h, t)) = b[h]
         /\ ContentsOf(b, Succ(h), t) = Tail(ContentsOf(b, h, t))
<1> DEFINE c == ContentsOf(b, h, t)
           n == SizeOf(h, t)
<1>1. n \in 1 .. Capacity - 1 /\ SizeOf(Succ(h), t) = n - 1
  BY SuccValue, RingAssumption DEF SizeOf, Slots
<1>2. c \in Seq(Orders \cup {Blank}) /\ Len(c) = n
      /\ c = [k \in 1 .. n |-> b[SlotOf(h, k)]]
  BY ContentsValue
<1>3. SlotOf(h, 1) = h
  BY RingAssumption DEF SlotOf, Slots
<1>4. \A k \in 1 .. n - 1 : SlotOf(Succ(h), k) = SlotOf(h, k + 1)
  BY <1>1, SuccValue, RingAssumption DEF SlotOf, Slots
<1>5. ContentsOf(b, Succ(h), t) = [k \in 1 .. n - 1 |-> b[SlotOf(Succ(h), k)]]
  BY <1>1, SuccProperties, ContentsValue
<1> HIDE DEF c, n
<1>6. c # <<>> /\ Head(c) = b[h]
  BY <1>1, <1>2, <1>3
<1>7. Tail(c) = [k \in 1 .. n - 1 |-> c[k + 1]]
  BY <1>1, <1>2
<1>8. \A k \in 1 .. n - 1 : c[k + 1] = b[SlotOf(Succ(h), k)]
  BY <1>1, <1>2, <1>4
<1>9. ContentsOf(b, Succ(h), t) = Tail(c)
  BY <1>5, <1>7, <1>8
<1> QED
  BY <1>6, <1>9 DEF c

\* The queue the ring stands for, as the refinement mapping gives it.
Queue == IF popPc = "publish" THEN Tail(Contents) ELSE Contents

\* The mapping in terms of the indices, before and after a step.
LEMMA QueueValue ==
  /\ Contents = ContentsOf(buffer, head, tail)
  /\ Contents' = ContentsOf(buffer', head', tail')
  /\ Queue' = IF popPc' = "publish" THEN Tail(Contents') ELSE Contents'
  BY DEF Contents, ContentsOf, SizeOf, size, Queue

\* Appending behind a queue that is not empty leaves its head alone.
LEMMA TailOfAppend ==
  ASSUME NEW S, NEW c \in Seq(S), NEW o \in S, c # <<>>
  PROVE  Tail(Append(c, o)) = Append(Tail(c), o) /\ Len(Tail(c)) = Len(c) - 1
  OBVIOUS

\* Every step of the ring is a step of the queue or leaves it unchanged.
LEMMA RingStepIsFifoStep ==
  ASSUME RingInv, RingInv', [RingNext]_ringVars
  PROVE  \/ \E o \in Orders :
               Len(Queue) < Capacity - 1 /\ Queue' = Append(Queue, o) /\ popped' = popped
         \/ Queue # <<>> /\ popped' = Head(Queue) /\ Queue' = Tail(Queue)
         \/ Queue' = Queue /\ popped' = popped
<1>t. /\ buffer \in Slotfuls /\ head \in Slots /\ tail \in Slots
      /\ ProducerHasRoom /\ SlotWritten /\ ConsumerHasOrder
  BY DEF RingInv, RingTypeOK, Slotfuls
<1>s. /\ Contents \in Seq(Orders \cup {Blank})
      /\ Len(Contents) = SizeOf(head, tail)
  BY <1>t, ContentsValue, QueueValue
<1>0. CASE UNCHANGED <<buffer, head, tail, popped>>
           /\ (popPc = "publish" <=> popPc' = "publish")
  BY <1>0, QueueValue DEF Queue
<1>1. CASE UNCHANGED ringVars
  BY <1>0, <1>1 DEF ringVars, pushVars, popVars
<1>2. CASE \E o \in Orders : PushBegin(o)
  BY <1>0, <1>2 DEF PushBegin, popVars
<1>3. CASE PushFull
  BY <1>1, <1>3 DEF PushFull
<1>4. CASE PushWrite
  <2>1. ContentsOf(buffer', head', tail') = ContentsOf(buffer, head, tail)
    BY <1>t, <1>4, WriteOutside DEF PushWrite, popVars, ProducerHasRoom
  <2> QED
    BY <1>4, <2>1, QueueValue DEF PushWrite, popVars, Queue
<1>5. CASE PushPublish
  <2>1. /\ buffer' = buffer /\ head' = head /\ tail' = Succ(tail)
        /\ popPc' = popPc /\ popped' = popped /\ pushPc = "publish"
    BY <1>5 DEF PushPublish, popVars
  <2>2. Contents' = Append(Contents, pushing) /\ Len(Contents) < Capacity - 1
    BY <1>t, <1>s, <2>1, TailAppends, QueueValue DEF ProducerHasRoom, SlotWritten
  <2>3. pushing \in Orders
    BY <1>t, <2>1 DEF ProducerHasRoom
  <2>4. CASE popPc = "publish"
    <3>1. Contents # <<>>
      BY <1>t, <2>4, HeadDrops, QueueValue DEF ConsumerHasOrder
    <3>2. Tail(Append(Contents, pushing)) = Append(Tail(Contents), pushing)
          /\ Len(Tail(Contents)) = Len(Contents) - 1
      BY <1>s, <2>3, <3>1, TailOfAppend
    <3>3. Queue = Tail(Contents) /\ Queue' = Append(Queue, pushing)
      BY <2>1, <2>2, <2>4, <3>2, QueueValue DEF Queue
    <3>4. Len(Queue) < Capacity - 1
      BY <1>s, <2>2, <3>2, <3>3, <1>t, SizeType, RingAssumption
    <3> QED
      BY <2>1, <2>3, <3>3, <3>4
  <2>5. CASE popPc # "publish"
    BY <2>1, <2>2, <2>3, <2>5, QueueValue DEF Queue
  <2> QED
    BY <2>4, <2>5
<1>6. CASE PopBegin
  BY <1>0, <1>6 DEF PopBegin, pushVars
<1>7. CASE PopEmpty
  BY <1>1, <1>7 DEF PopEmpty
<1>8. CASE PopRead
  <2>1. /\ popPc = "read" /\ popPc' = "publish" /\ popped' = buffer[head]
        /\ buffer' = buffer /\ head' = head /\ tail' = tail
    BY <1>8 DEF PopRead, pushVars
  <2>2. Contents # <<>> /\ Head(Contents) = buffer[head]
    BY <1>t, <2>1, HeadDrops, QueueValue DEF ConsumerHasOrder
  <2>3. Queue = Contents /\ Queue' = Tail(Contents)
    BY <2>1, QueueValue DEF Queue
  <2> QED
    BY <2>1, <2>2, <2>3
<1>9. CASE PopPublish
  <2>1. /\ popPc = "publish" /\ popPc' = "idle" /\ popped' = popped
        /\ buffer' = buffer /\ head' = Succ(head) /\ tail' = tail
    BY <1>9 DEF PopPublish, pushVars
  <2>2. Contents' = Tail(Contents)
    BY <1>t, <2>1, HeadDrops, QueueValue DEF ConsumerHasOrder
  <2> QED
    BY <2>1, <2>2, QueueValue DEF Queue
<1> QED
  BY <1>1, <1>2, <1>3, <1>4, <1>5, <1>6, <1>7, <1>8, <1>9 DEF RingNext

\* The lock-free ring implements the FIFO queue of Capacity - 1 orders: push
\* and pop lose, duplicate, reorder and alter nothing, for every capacity,
\* every set of orders and every interleaving of the two threads.
THEOREM RingImplementsFifo == RingSpec => RingIsFifo
<1>1. RingInit => Fifo!Init
  <2> SUFFICES ASSUME RingInit PROVE Fifo!Init
    OBVIOUS
  <2>1. size = 0 /\ popPc = "idle" /\ popped = Blank
    BY DEF RingInit, size
  <2>2. Contents = <<>>
    BY <2>1 DEF Contents
  <2> QED
    BY <2>1, <2>2 DEF Fifo!Init
<1>2. ASSUME RingInv, RingInv', [RingNext]_ringVars
      PROVE  [Fifo!Next]_<<Queue, popped>>
  BY <1>2, RingStepIsFifoStep DEF Fifo!Next, Fifo!Put, Fifo!Take, Queue
<1>3. RingInv /\ RingInv' /\ [RingNext]_ringVars
      => [Fifo!Next]_<<IF popPc = "publish" THEN Tail(Contents) ELSE Contents, popped>>
  BY <1>2 DEF Queue
<1> QED
  BY <1>1, <1>3, RingInvariant, PTL DEF RingSpec, RingIsFifo, Fifo!Spec

-----------------------------------------------------------------------------
(* start and stop.  The mutex makes one controller at a time decide, and    *)
(* the consumer thread exists from a start to the join of the stop that     *)
(* ends it.                                                                 *)

ControlTypes ==
    /\ running \in BOOLEAN
    /\ control \in [Controllers -> {"idle", "start", "stop", "join"}]
    /\ consumer \in {"none", "check", "drain", "pop", "process", "exited"}
    /\ terminated \in BOOLEAN

\* A controller inside start or stop holds the mutex.
Exclusive == \A c \in Controllers : control[c] # "idle" => lock = c

\* A running engine has a consumer that has not begun to leave.
RunningHasConsumer == running => consumer \in {"check", "pop", "process"}

\* An engine that does not run has no consumer, but for one being joined.
StoppedHasNone ==
    ~running => consumer = "none" \/ \E c \in Controllers : control[c] = "join"

\* A stop that waits in join waits for a thread.
JoinHasConsumer ==
    \A c \in Controllers : control[c] = "join" => ~running /\ consumer # "none"

ControlInv ==
    /\ ControlTypes
    /\ Exclusive
    /\ RunningHasConsumer
    /\ StoppedHasNone
    /\ JoinHasConsumer
    /\ NeverTerminates

\* Nothing runs at first.
LEMMA ControlInvInit == Init => ControlInv
  BY DEF Init, ControlInv, ControlTypes, Exclusive, RunningHasConsumer,
     StoppedHasNone, JoinHasConsumer, NeverTerminates

\* The steps of controllers, consumer and producer keep the invariant.
LEMMA ControlInvStep == ControlInv /\ [Next]_vars => ControlInv'
<1> SUFFICES ASSUME ControlInv, [Next]_vars
             PROVE  ControlInv'
  OBVIOUS
<1> USE DEF ControlInv, ControlTypes, Exclusive, RunningHasConsumer,
            StoppedHasNone, JoinHasConsumer, NeverTerminates
<1>0. CASE UNCHANGED <<running, control, consumer, terminated, lock>>
  BY <1>0
<1>1. ASSUME NEW c \in Controllers, NEW place \in {"start", "stop"},
             Lock(c, place)
      PROVE  ControlInv'
  BY <1>1, ConcurrentAssumption DEF Lock
<1>2. ASSUME NEW c \in Controllers, Start(c)
      PROVE  ControlInv'
  <2>1. \A d \in Controllers : d # c => control[d] = "idle"
    BY <1>2 DEF Start
  <2>2. CASE running
    BY <1>2, <2>1, <2>2 DEF Start, Unlock
  <2>3. CASE ~running
    <3>1. consumer = "none"
      BY <1>2, <2>1, <2>3 DEF Start
    <3> QED
      BY <1>2, <2>1, <2>3, <3>1 DEF Start, Unlock, Joinable
  <2> QED
    BY <2>2, <2>3
<1>3. ASSUME NEW c \in Controllers, StopNothing(c)
      PROVE  ControlInv'
  <2>1. \A d \in Controllers : d # c => control[d] = "idle"
    BY <1>3 DEF StopNothing
  <2> QED
    BY <1>3, <2>1 DEF StopNothing, Unlock
<1>4. ASSUME NEW c \in Controllers, StopBegin(c)
      PROVE  ControlInv'
  <2>1. \A d \in Controllers : d # c => control[d] = "idle"
    BY <1>4 DEF StopBegin
  <2> QED
    BY <1>4, <2>1 DEF StopBegin
<1>5. ASSUME NEW c \in Controllers, Join(c)
      PROVE  ControlInv'
  <2>1. \A d \in Controllers : d # c => control[d] = "idle"
    BY <1>5 DEF Join
  <2> QED
    BY <1>5, <2>1 DEF Join, Unlock
<1>6. CASE \E p \in PolicySet : SetBackpressurePolicy(p)
  BY <1>0, <1>6 DEF SetBackpressurePolicy
<1>7. CASE (\E o \in Orders : Submit(o)) \/ SubmitSteps
  BY <1>0, <1>7 DEF Submit, SubmitSteps, ReadPolicy, Wait, Refused, Push,
     controlSide
<1>8. CASE Consumer
  <2>1. UNCHANGED <<running, control, lock, terminated>>
    BY <1>8 DEF Consumer, LoopTest, DrainTest, Pop, Process, producerSide
  <2>2. /\ consumer \notin {"none", "exited"}
        /\ consumer' \in {"check", "drain", "pop", "process", "exited"}
        /\ consumer' \in {"drain", "exited"} => ~running \/ consumer = "drain"
    BY <1>8 DEF Consumer, LoopTest, DrainTest, Pop, Process
  <2> QED
    BY <2>1, <2>2
<1>9. CASE UNCHANGED vars
  BY <1>0, <1>9 DEF vars
<1> QED
  BY <1>1, <1>2, <1>3, <1>4, <1>5, <1>6, <1>7, <1>8, <1>9
     DEF Next, Controller

\* The invariant holds throughout.
LEMMA ControlInvariant == Spec => []ControlInv
  BY ControlInvInit, ControlInvStep, PTL DEF Spec

\* No sequence of starts and stops, by however many threads, assigns a new
\* thread to a consumer_thread_ that was not joined (start, stop).
THEOREM RestartsAreSafe == Spec => []NeverTerminates
<1>1. ControlInv => NeverTerminates
  BY DEF ControlInv
<1> QED
  BY <1>1, ControlInvariant, PTL

-----------------------------------------------------------------------------
(* The engine uses its ring as one producer and one consumer.               *)

\* submitOrder pushes the order it was given, one push at a time.
ProducerPushes ==
    /\ order \in Orders \cup {Blank}
    /\ producer \in {"idle", "policy", "wait", "push"}
    /\ producer # "idle" => order \in Orders
    /\ pushPc # "idle" => producer = "push" /\ pushing = order

\* The consumer loop is in one pop at a time.
ConsumerPops == popPc # "idle" => consumer = "pop"

\* The ring of an engine that has not started is empty and unused.
LEMMA UsesRingInit == Init => ProducerPushes /\ RingInit
  BY DEF Init, RingInit, ProducerPushes

\* Every step of the engine keeps the calls of the producer in order and is a
\* step of the ring or leaves the ring alone.
LEMMA UsesRingStep ==
  ASSUME ProducerPushes, [Next]_vars
  PROVE  ProducerPushes' /\ [RingNext]_ringVars
<1> USE DEF ProducerPushes
<1>0. CASE UNCHANGED <<ringVars, order, producer>>
  BY <1>0 DEF ringVars, pushVars
<1>1. CASE \E c \in Controllers : Controller(c)
  BY <1>0, <1>1 DEF Controller, Lock, Start, StopNothing, StopBegin, Join
<1>2. CASE \E p \in PolicySet : SetBackpressurePolicy(p)
  BY <1>0, <1>2 DEF SetBackpressurePolicy
<1>3. CASE \E o \in Orders : Submit(o)
  BY <1>3 DEF Submit, ringVars, pushVars
<1>4. CASE ReadPolicy \/ Wait
  BY <1>4 DEF ReadPolicy, Wait, ringVars, pushVars
<1>5. CASE Refused
  BY <1>5 DEF Refused, PushFull, RingNext, ringVars, pushVars
<1>6. CASE Push
  BY <1>6 DEF Push, PushBegin, PushWrite, PushPublish, RingNext, pushVars, popVars
<1>7. CASE LoopTest \/ DrainTest \/ Process
  BY <1>0, <1>7 DEF LoopTest, DrainTest, Process, producerSide
<1>8. CASE Pop
  <2>1. RingNext
    BY <1>8 DEF Pop, RingNext
  <2>2. UNCHANGED <<order, producer, pushPc, pushing>>
    BY <1>8 DEF Pop, PopEmpty, PopBegin, PopRead, PopPublish, producerSide,
       ringVars, pushVars
  <2> QED
    BY <2>1, <2>2
<1>9. CASE UNCHANGED vars
  BY <1>0, <1>9 DEF vars
<1> QED
  BY <1>1, <1>2, <1>3, <1>4, <1>5, <1>6, <1>7, <1>8, <1>9
     DEF Next, SubmitSteps, Consumer

\* The engine keeps to the ring's contract of one producer and one consumer.
LEMMA EngineUsesRing == Spec => RingSpec /\ []ProducerPushes
<1>1. ProducerPushes /\ [Next]_vars => ProducerPushes' /\ [RingNext]_ringVars
  BY UsesRingStep
<1> QED
  BY <1>1, UsesRingInit, PTL DEF Spec, RingSpec

\* In the engine too, whatever its controllers do, the ring is a FIFO queue
\* and its slots are free of data races.
THEOREM EngineRingIsFifo == Spec => RingIsFifo /\ []NoSlotRace
  BY EngineUsesRing, RingImplementsFifo, RingRaceFree, PTL

-----------------------------------------------------------------------------
(* Nothing is lost. *)

\* The consumer is in a pop only in that part of its loop, and the slot it has
\* copied is not written again before it is given up.
PopInv ==
    /\ ConsumerPops
    /\ popPc = "publish" => popped = buffer[head]

OrdersAndBlank == Orders \cup {Blank}

\* The order the consumer has taken out of the ring and not yet processed.
InHand == IF consumer = "process" THEN <<popped>> ELSE <<>>

FlowTypes == accepted \in Seq(OrdersAndBlank) /\ handled \in Seq(OrdersAndBlank)

FlowInv == PopInv /\ FlowTypes /\ NothingLost

\* Nothing was accepted and nothing handled at first.
LEMMA FlowInvInit == Init => FlowInv
<1> SUFFICES ASSUME Init PROVE FlowInv
  OBVIOUS
<1>1. size = 0
  BY DEF Init, RingInit, size
<1>2. Contents = <<>>
  BY <1>1 DEF Contents
<1>3. accepted = <<>> /\ handled = <<>> /\ consumer # "process"
  BY DEF Init
<1>4. NothingLost
  BY <1>2, <1>3 DEF NothingLost
<1> QED
  BY <1>4 DEF Init, RingInit, FlowInv, PopInv, ConsumerPops, FlowTypes

\* The parts are sequences, and the contents depend on the ring alone.
LEMMA FlowParts ==
  ASSUME RingInv, FlowTypes
  PROVE  /\ Contents \in Seq(OrdersAndBlank)
         /\ InHand \in Seq(OrdersAndBlank)
         /\ Contents = ContentsOf(buffer, head, tail)
         /\ Contents' = ContentsOf(buffer', head', tail')
         /\ NothingLost <=> accepted = handled \o InHand \o Contents
<1>1. /\ buffer \in Slotfuls /\ head \in Slots /\ tail \in Slots
      /\ popped \in OrdersAndBlank
  BY DEF RingInv, RingTypeOK, Slotfuls, OrdersAndBlank
<1>2. Contents \in Seq(OrdersAndBlank)
  BY <1>1, ContentsValue, QueueValue DEF OrdersAndBlank
<1>3. InHand \in Seq(OrdersAndBlank)
  BY <1>1 DEF InHand
<1> QED
  BY <1>2, <1>3, QueueValue DEF NothingLost, InHand

\* Every step keeps each accepted order in exactly one place, in order.
LEMMA FlowInvStep ==
  ASSUME RingInv, ControlInv, ProducerPushes, FlowInv, [Next]_vars
  PROVE  FlowInv'
<1>t. /\ PopInv /\ FlowTypes /\ NothingLost
      /\ buffer \in Slotfuls /\ head \in Slots /\ tail \in Slots
      /\ ProducerHasRoom /\ SlotWritten /\ ConsumerHasOrder
      /\ popped \in OrdersAndBlank
  BY DEF FlowInv, RingInv, RingTypeOK, Slotfuls, OrdersAndBlank
<1>s. /\ Contents \in Seq(OrdersAndBlank)
      /\ InHand \in Seq(OrdersAndBlank)
      /\ accepted = handled \o InHand \o Contents
  BY <1>t, FlowParts
<1>0. ASSUME UNCHANGED <<ringVars, accepted, handled>>,
             consumer # "process", consumer' # "process",
             consumer # "pop" \/ consumer' = "pop"
      PROVE  FlowInv'
  BY <1>0, <1>t DEF ringVars, pushVars, popVars, FlowInv, PopInv, ConsumerPops,
     FlowTypes, NothingLost, Contents, size
<1>9. CASE UNCHANGED <<ringVars, accepted, handled, consumer>>
  BY <1>9, <1>t DEF ringVars, pushVars, popVars, FlowInv, PopInv, ConsumerPops,
     FlowTypes, NothingLost, Contents, size
<1>1. ASSUME NEW c \in Controllers, Controller(c)
      PROVE  FlowInv'
  <2>1. CASE Lock(c, "start") \/ Lock(c, "stop") \/ StopNothing(c) \/ StopBegin(c)
    BY <2>1, <1>9 DEF Lock, StopNothing, StopBegin
  <2>2. CASE Join(c)
    BY <2>2, <1>0 DEF Join
  <2>3. CASE Start(c)
    <3>1. CASE running
      BY <2>3, <3>1, <1>9 DEF Start
    <3>2. CASE ~running
      <4>1. consumer = "none"
        BY <2>3, <3>2 DEF Start, ControlInv, ControlTypes, Exclusive,
           StoppedHasNone
      <4> QED
        BY <2>3, <3>2, <4>1, <1>0 DEF Start
    <3> QED
      BY <3>1, <3>2
  <2> QED
    BY <1>1, <2>1, <2>2, <2>3 DEF Controller
<1>2. CASE \E p \in PolicySet : SetBackpressurePolicy(p)
  BY <1>2, <1>9 DEF SetBackpressurePolicy
<1>3. CASE (\E o \in Orders : Submit(o)) \/ ReadPolicy \/ Wait \/ Refused
  BY <1>3, <1>9 DEF Submit, ReadPolicy, Wait, Refused, PushFull, controlSide
<1>4. CASE Push
  <2>0. UNCHANGED <<consumer, handled, popVars>> /\ producer = "push"
    BY <1>4 DEF Push, PushBegin, PushWrite, PushPublish, controlSide
  <2>h. InHand' = InHand
    BY <2>0 DEF InHand, popVars
  <2>1. CASE PushBegin(order) /\ UNCHANGED accepted
    BY <2>0, <2>1, <1>t DEF PushBegin, popVars, FlowInv, PopInv, ConsumerPops,
       FlowTypes, NothingLost, Contents, size
  <2>2. CASE PushWrite /\ UNCHANGED accepted
    <3>1. Contents' = Contents
      BY <1>t, <2>2, WriteOutside, FlowParts DEF PushWrite, popVars,
         ProducerHasRoom
    <3>2. PopInv'
      BY <1>t, <2>0, <2>2 DEF PushWrite, popVars, PopInv, ConsumerPops,
         ConsumerHasOrder, Slotfuls
    <3> QED
      BY <1>t, <2>0, <2>2, <3>1, <3>2 DEF FlowInv, FlowTypes, NothingLost,
         popVars
  <2>3. CASE PushPublish /\ accepted' = Append(accepted, order)
    <3>1. order \in OrdersAndBlank /\ buffer[tail] = order
      BY <1>t, <2>3 DEF PushPublish, ProducerPushes, SlotWritten, OrdersAndBlank
    <3>2. Contents' = Append(Contents, order)
      BY <1>t, <2>0, <2>3, <3>1, TailAppends, FlowParts DEF PushPublish,
         popVars, ProducerHasRoom
    <3>3. accepted' = handled \o InHand \o Append(Contents, order)
      <4> DEFINE taken == handled \o InHand
      <4>1. taken \in Seq(OrdersAndBlank) /\ Contents \in Seq(OrdersAndBlank)
        BY <1>s, <1>t DEF FlowTypes
      <4>2. accepted = taken \o Contents
        BY <1>s
      <4> HIDE DEF taken
      <4>3. Append(taken \o Contents, order) = taken \o Append(Contents, order)
        BY <4>1, <3>1
      <4> QED
        BY <2>3, <4>2, <4>3 DEF taken
    <3>4. FlowTypes' /\ PopInv'
      BY <1>t, <2>0, <2>3, <3>1 DEF PushPublish, popVars, FlowTypes, PopInv,
         ConsumerPops
    <3> QED
      BY <2>0, <2>h, <3>2, <3>3, <3>4 DEF FlowInv, NothingLost, InHand
  <2> QED
    BY <1>4, <2>1, <2>2, <2>3 DEF Push
<1>5. CASE LoopTest \/ DrainTest
  BY <1>5, <1>0 DEF LoopTest, DrainTest, producerSide
<1>6. CASE Pop
  <2>0. UNCHANGED <<accepted, handled>> /\ consumer = "pop"
    BY <1>6 DEF Pop, producerSide
  <2>1. CASE PopEmpty /\ consumer' = "check"
    BY <2>0, <2>1, <1>t DEF PopEmpty, ringVars, pushVars, popVars, FlowInv,
       PopInv, ConsumerPops, FlowTypes, NothingLost, Contents, size
  <2>2. CASE (PopBegin \/ PopRead) /\ consumer' = "pop"
    BY <2>0, <2>2, <1>t DEF PopBegin, PopRead, pushVars, FlowInv, PopInv,
       ConsumerPops, FlowTypes, NothingLost, Contents, size
  <2>3. CASE PopPublish /\ consumer' = "process"
    <3>1. popped = buffer[head] /\ head # tail /\ popped' = popped
      BY <1>t, <2>3 DEF PopPublish, PopInv, ConsumerHasOrder
    <3>2. /\ Contents # <<>> /\ Head(Contents) = popped
          /\ Contents' = Tail(Contents)
      BY <1>t, <2>3, <3>1, HeadDrops, FlowParts DEF PopPublish, pushVars
    <3>3. accepted = handled \o <<>> \o Contents
      BY <1>s, <2>0 DEF InHand
    <3>4. accepted = handled \o <<popped>> \o Tail(Contents)
      BY <1>s, <1>t, <3>2, <3>3 DEF FlowTypes
    <3>5. NothingLost'
      BY <2>0, <2>3, <3>1, <3>2, <3>4 DEF NothingLost
    <3> QED
      BY <1>t, <2>0, <2>3, <3>5 DEF PopPublish, FlowInv, PopInv, ConsumerPops,
         FlowTypes
  <2> QED
    BY <1>6, <2>1, <2>2, <2>3 DEF Pop
<1>7. CASE Process
  <2>1. /\ handled' = Append(handled, popped) /\ UNCHANGED <<ringVars, accepted>>
        /\ consumer = "process" /\ consumer' = "check"
    BY <1>7 DEF Process, producerSide
  <2>2. accepted = handled \o <<popped>> \o Contents
    BY <1>s, <2>1 DEF InHand
  <2>3. accepted = Append(handled, popped) \o <<>> \o Contents
    BY <1>s, <1>t, <2>2 DEF FlowTypes
  <2>4. Contents' = Contents
    BY <2>1 DEF ringVars, pushVars, popVars, Contents, size
  <2>5. NothingLost'
    BY <2>1, <2>3, <2>4 DEF NothingLost
  <2> QED
    BY <1>t, <2>1, <2>5 DEF FlowInv, PopInv, ConsumerPops, FlowTypes, ringVars,
       popVars
<1>8. CASE UNCHANGED vars
  BY <1>8, <1>9 DEF vars
<1> QED
  BY <1>1, <1>2, <1>3, <1>4, <1>5, <1>6, <1>7, <1>8
     DEF Next, SubmitSteps, Consumer

\* The invariant holds throughout.
LEMMA FlowInvariant == Spec => []FlowInv
<1>1. RingInv /\ ControlInv /\ ProducerPushes /\ FlowInv /\ [Next]_vars => FlowInv'
  BY FlowInvStep
<1> QED
  BY <1>1, FlowInvInit, EngineUsesRing, RingInvariant, ControlInvariant, PTL
     DEF Spec

\* Every accepted order is handed to the matching engine exactly once and in
\* the order of acceptance, through any starts and stops (submitOrder,
\* consumerLoop).
THEOREM EngineLosesNothing == Spec => []NothingLost
<1>1. FlowInv => NothingLost
  BY DEF FlowInv
<1> QED
  BY <1>1, FlowInvariant, PTL

-----------------------------------------------------------------------------
(* Drain on stop. *)

\* A stop waits for orders that were accepted when it began, and a consumer
\* that has left has handled all of them.
DueInv ==
    /\ \A c \in Controllers : due[c] \in 0 .. Len(accepted)
    /\ due \in [Controllers -> Nat]
    /\ consumer = "exited" =>
           \A c \in Controllers : control[c] = "join" => due[c] <= Len(handled)

\* No stop waits at first.
LEMMA DueInvInit == Init => DueInv
  BY DEF Init, DueInv

\* A consumer leaves only after it has found the ring empty, and then it has
\* handled every order accepted so far.
LEMMA DueInvStep ==
  ASSUME RingInv, ControlInv, FlowInv, FlowInv', DueInv, [Next]_vars
  PROVE  DueInv'
<1>t. /\ Len(accepted) \in Nat /\ Len(handled) \in Nat
      /\ accepted \in Seq(OrdersAndBlank) /\ handled \in Seq(OrdersAndBlank)
  BY DEF FlowInv, FlowTypes
<1>a. accepted' = accepted \/ \E o : accepted' = Append(accepted, o)
  <2>1. CASE Push
    BY <2>1 DEF Push
  <2>2. CASE ~Push
    BY <2>2 DEF Next, vars, Controller, Lock, Start, StopNothing, StopBegin,
       Join, SetBackpressurePolicy, Submit, SubmitSteps, ReadPolicy, Wait,
       Refused, Consumer, LoopTest, DrainTest, Pop, Process, producerSide
  <2> QED
    BY <2>1, <2>2
<1>b. Len(accepted') \in Nat /\ Len(accepted) <= Len(accepted')
  BY <1>a, <1>t
<1>0. ASSUME UNCHANGED <<due, control>>,
             consumer' = "exited" => consumer = "exited",
             handled' = handled \/ handled' = Append(handled, popped)
      PROVE  DueInv'
  <2>1. Len(handled') \in Nat /\ Len(handled) <= Len(handled')
    BY <1>0, <1>t
  <2> QED
    BY <1>0, <1>b, <1>t, <2>1 DEF DueInv
<1>1. ASSUME NEW c \in Controllers, Controller(c)
      PROVE  DueInv'
  <2>1. CASE Lock(c, "start") \/ Lock(c, "stop")
    BY <2>1 DEF Lock, DueInv, ControlInv, ControlTypes
  <2>2. CASE Start(c) \/ StopNothing(c) \/ Join(c)
    BY <2>2 DEF Start, StopNothing, Join, Unlock, DueInv, ControlInv,
       ControlTypes
  <2>3. CASE StopBegin(c)
    <3>1. consumer' # "exited"
      BY <2>3 DEF StopBegin, ControlInv, RunningHasConsumer
    <3> QED
      BY <2>3, <3>1, <1>t DEF StopBegin, DueInv
  <2> QED
    BY <1>1, <2>1, <2>2, <2>3 DEF Controller
<1>2. CASE \E p \in PolicySet : SetBackpressurePolicy(p)
  BY <1>0, <1>2 DEF SetBackpressurePolicy
<1>3. CASE (\E o \in Orders : Submit(o)) \/ SubmitSteps
  BY <1>0, <1>3 DEF Submit, SubmitSteps, ReadPolicy, Wait, Refused, Push,
     controlSide
<1>4. CASE LoopTest \/ Pop \/ Process
  BY <1>0, <1>4 DEF LoopTest, Pop, Process, producerSide
<1>5. CASE DrainTest /\ ~isEmpty
  BY <1>0, <1>5 DEF DrainTest, producerSide
<1>6. CASE DrainTest /\ isEmpty
  <2>1. size = 0
    BY <1>6 DEF RingInv, RingTypeOK, Slots, isEmpty, size
  <2>2. Contents = <<>>
    BY <2>1 DEF Contents
  <2>3. accepted = handled
    BY <1>6, <1>t, <2>2 DEF DrainTest, FlowInv, NothingLost
  <2>4. UNCHANGED <<due, control, accepted, handled>>
    BY <1>6 DEF DrainTest, producerSide
  <2> QED
    BY <2>3, <2>4, <1>t DEF DueInv
<1>7. CASE UNCHANGED vars
  BY <1>0, <1>7 DEF vars
<1> QED
  BY <1>1, <1>2, <1>3, <1>4, <1>5, <1>6, <1>7 DEF Next, Consumer

\* The invariant holds throughout.
LEMMA DueInvariant == Spec => []DueInv
<1>1. RingInv /\ ControlInv /\ FlowInv /\ FlowInv' /\ DueInv /\ [Next]_vars => DueInv'
  BY DueInvStep
<1> QED
  BY <1>1, DueInvInit, EngineUsesRing, RingInvariant, ControlInvariant,
     FlowInvariant, PTL DEF Spec

\* When stop returns the consumer thread is gone and every order accepted
\* before that stop took effect has been handled (stop, consumerLoop).
THEOREM StopDrainsRing == Spec => DrainOnStop
<1> DEFINE Drained ==
        \A c \in Controllers :
            control[c] \in {"stop", "join"} /\ control'[c] = "idle" =>
                /\ consumer' = "none"
                /\ control[c] = "join" => Len(handled) >= due[c]
<1>1. ASSUME ControlInv, FlowInv, DueInv, Next
      PROVE  Drained
  <2> SUFFICES ASSUME NEW c \in Controllers,
                      control[c] \in {"stop", "join"}, control'[c] = "idle"
               PROVE  /\ consumer' = "none"
                      /\ control[c] = "join" => Len(handled) >= due[c]
    OBVIOUS
  <2>t. /\ control \in [Controllers -> {"idle", "start", "stop", "join"}]
        /\ Exclusive /\ StoppedHasNone /\ DueInv
        /\ Len(handled) \in Nat /\ due \in [Controllers -> Nat]
    BY <1>1 DEF ControlInv, ControlTypes, FlowInv, FlowTypes, DueInv
  <2>1. \A d \in Controllers : d # c => control[d] = "idle"
    BY <2>t DEF Exclusive
  <2>2. StopNothing(c) \/ Join(c)
    <3>1. CASE \E d \in Controllers : Controller(d)
      <4>1. PICK d \in Controllers : Controller(d)
        BY <3>1
      <4>2. d # c => control'[c] = control[c]
        BY <4>1, <2>t DEF Controller, Lock, Start, StopNothing, StopBegin, Join,
           Unlock
      <4>3. d = c
        BY <4>2
      <4> QED
        BY <4>1, <4>3, <2>t DEF Controller, Lock, Start, StopBegin
    <3>2. CASE ~\E d \in Controllers : Controller(d)
      <4>1. control' = control
        BY <1>1, <3>2 DEF Next, SetBackpressurePolicy, Submit, SubmitSteps,
           ReadPolicy, Wait, Refused, Push, controlSide, Consumer, LoopTest,
           DrainTest, Pop, Process, producerSide
      <4> QED
        BY <4>1
    <3> QED
      BY <3>1, <3>2
  <2>3. CASE StopNothing(c)
    BY <2>3, <2>1, <2>t DEF StopNothing, StoppedHasNone
  <2>4. CASE Join(c)
    BY <2>4, <2>t DEF Join, DueInv
  <2> QED
    BY <2>2, <2>3, <2>4
<1>2. ControlInv /\ FlowInv /\ DueInv /\ [Next]_vars => [Drained]_vars
  BY <1>1
<1>3. Spec => [][Drained]_vars
  BY <1>2, ControlInvariant, FlowInvariant, DueInvariant, PTL DEF Spec
<1> QED
  BY <1>3 DEF DrainOnStop
=============================================================================
