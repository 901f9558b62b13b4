----------------------------- MODULE JournalRing -----------------------------
(***************************************************************************)
(* The ring between the engine thread and the journal's writer thread,     *)
(* src/JournalRingBuffer.cpp.  Unlike RingBuffer it counts records with    *)
(* free-running 64-bit counters, reduced to a slot only on access, and     *)
(* uses every slot; here head_ belongs to the producer and tail_ to the    *)
(* consumer.  The counters wrap at Modulus, 2^64 in the code.              *)
(***************************************************************************)
EXTENDS Integers, Sequences

CONSTANTS Records,   \* serialized records of a valid size
          Unset,     \* a slot never written: size 0
          Capacity,  \* capacity_: a power of two
          Modulus,   \* 2^64
          Start      \* the counters at the beginning

\* The constructor throws unless the capacity is a power of two, and the
\* header asserts that it is small against the range of the counters; so it
\* divides their modulus.
ASSUME JournalRingAssumption ==
    /\ Capacity \in Nat \ {0}
    /\ Modulus \in Nat \ {0}
    /\ 2 * Capacity <= Modulus
    /\ Modulus % Capacity = 0
    /\ Start \in 0 .. Modulus - 1
    /\ Unset \notin Records

VARIABLES ring,    \* ring_
          head,    \* head_, written by the producer
          tail,    \* tail_, written by the consumer
          pushPc,  \* where tryPush is
          record,  \* the argument of tryPush
          popPc,   \* where tryPop is
          view     \* the output argument of tryPop

pushVars == <<head, pushPc, record>>
popVars == <<tail, popPc, view>>
ringVars == <<ring, pushVars, popVars>>

Slots == 0 .. Capacity - 1

Plus(counter) == (counter + 1) % Modulus

\* head - tail in unsigned arithmetic.
Count == (head - tail) % Modulus

\* Mutant of full: signed comparison of the counters.
MutFullSigned == head - tail >= Capacity

full == Count >= Capacity

empty == head = tail

SlotOf(counter) == counter % Capacity

-----------------------------------------------------------------------------
(* tryPush, by the engine thread.  An invalid record is refused at once.    *)

PushFull ==
    /\ pushPc = "idle"
    /\ full
    /\ UNCHANGED ringVars

PushBegin(r) ==
    /\ pushPc = "idle"
    /\ ~full
    /\ record' = r
    /\ pushPc' = "write"
    /\ UNCHANGED <<ring, head, popVars>>

PushWrite ==
    /\ pushPc = "write"
    /\ ring' = [ring EXCEPT ![SlotOf(head)] = record]
    /\ pushPc' = "publish"
    /\ UNCHANGED <<head, record, popVars>>

PushPublish ==
    /\ pushPc = "publish"
    /\ head' = Plus(head)
    /\ pushPc' = "idle"
    /\ UNCHANGED <<ring, record, popVars>>

-----------------------------------------------------------------------------
(* tryPop, by the writer thread *)

\* The writer calls tryPop after its wait has seen a record, and nobody else
\* takes one: the call that finds the ring empty does not happen.  `view'
\* keeps the last record returned.
PopBegin ==
    /\ popPc = "idle"
    /\ ~empty
    /\ popPc' = "read"
    /\ UNCHANGED <<ring, tail, view, pushVars>>

\* A slot without a valid size is skipped, and its view has size 0 as well.
PopRead ==
    /\ popPc = "read"
    /\ view' = ring[SlotOf(tail)]
    /\ popPc' = "publish"
    /\ UNCHANGED <<ring, tail, pushVars>>

PopPublish ==
    /\ popPc = "publish"
    /\ tail' = Plus(tail)
    /\ popPc' = "idle"
    /\ UNCHANGED <<ring, view, pushVars>>

-----------------------------------------------------------------------------

\* The counters start at 0 in the code.  A behaviour that begins at Start is
\* the rest of one in which that many records have passed; what they left in
\* the slots is never read.
RingInit ==
    /\ ring = [i \in Slots |-> Unset]
    /\ head = Start
    /\ tail = Start
    /\ pushPc = "idle"
    /\ record = Unset
    /\ popPc = "idle"
    /\ view = Unset

-----------------------------------------------------------------------------
(* Properties *)

\* The two threads never touch the contents of one slot at the same time.
NoJournalSlotRace ==
    ~(pushPc = "write" /\ popPc = "read" /\ SlotOf(head) = SlotOf(tail))

=============================================================================
