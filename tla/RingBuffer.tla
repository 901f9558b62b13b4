------------------------------ MODULE RingBuffer ------------------------------
(***************************************************************************)
(* The lock-free single-producer single-consumer ring of                   *)
(* src/RingBuffer.cpp.  One thread calls push, another calls pop; a call   *)
(* is cut at every access to something the other thread also touches: the  *)
(* load of the other index, the copy of the slot, the store of the own     *)
(* index.  The relaxed load of an index by the only thread that writes it  *)
(* returns its value.  The acquire loads and release stores make the       *)
(* interleavings of these steps the executions of the code.                *)
(***************************************************************************)
EXTENDS Integers, Sequences

CONSTANTS Orders,     \* the orders pushed
          Blank,      \* the default-constructed Order()
          Capacity    \* size of the buffer: a power of two

\* The constructor throws for a size below 2.  It also asks for a power of
\* two, which is what makes `& mask_' the remainder by Capacity.
ASSUME RingAssumption == Capacity \in Nat /\ Capacity >= 2

ASSUME BlankAssumption == Blank \notin Orders

VARIABLES buffer,   \* buffer_
          head,     \* head_, written by the consumer
          tail,     \* tail_, written by the producer
          pushPc,   \* where push is: idle, write (slot), publish (tail_)
          pushing,  \* the argument of push
          popPc,    \* where pop is: idle, read (slot), publish (head_)
          popped    \* the output argument of pop

pushVars == <<tail, pushPc, pushing>>
popVars == <<head, popPc, popped>>
ringVars == <<buffer, pushVars, popVars>>

Slots == 0 .. Capacity - 1

Succ(i) == (i + 1) % Capacity

isEmpty == head = tail

\* Mutant of isFull: every slot is used before the buffer counts as full.
MutIsFullLate == FALSE

isFull == Succ(tail) = head

size == IF tail >= head THEN tail - head ELSE Capacity - head + tail

\* The orders in the buffer, oldest first.
Contents == [k \in 1 .. size |-> buffer[(head + k - 1) % Capacity]]

-----------------------------------------------------------------------------
(* push, by the producer *)

PushFull ==
    /\ pushPc = "idle"
    /\ isFull
    /\ UNCHANGED ringVars

PushBegin(o) ==
    /\ pushPc = "idle"
    /\ ~isFull
    /\ pushing' = o
    /\ pushPc' = "write"
    /\ UNCHANGED <<buffer, tail, popVars>>

\* Mutant of PushWrite: the order goes to the slot after the tail.
MutWriteAhead ==
    /\ pushPc = "write"
    /\ buffer' = [buffer EXCEPT ![Succ(tail)] = pushing]
    /\ pushPc' = "publish"
    /\ UNCHANGED <<tail, pushing, popVars>>

PushWrite ==
    /\ pushPc = "write"
    /\ buffer' = [buffer EXCEPT ![tail] = pushing]
    /\ pushPc' = "publish"
    /\ UNCHANGED <<tail, pushing, popVars>>

PushPublish ==
    /\ pushPc = "publish"
    /\ tail' = Succ(tail)
    /\ pushPc' = "idle"
    /\ UNCHANGED <<buffer, pushing, popVars>>

-----------------------------------------------------------------------------
(* pop, by the consumer *)

PopEmpty ==
    /\ popPc = "idle"
    /\ isEmpty
    /\ UNCHANGED ringVars

PopBegin ==
    /\ popPc = "idle"
    /\ ~isEmpty
    /\ popPc' = "read"
    /\ UNCHANGED <<buffer, head, popped, pushVars>>

PopRead ==
    /\ popPc = "read"
    /\ popped' = buffer[head]
    /\ popPc' = "publish"
    /\ UNCHANGED <<buffer, head, pushVars>>

PopPublish ==
    /\ popPc = "publish"
    /\ head' = Succ(head)
    /\ popPc' = "idle"
    /\ UNCHANGED <<buffer, popped, pushVars>>

-----------------------------------------------------------------------------

RingInit ==
    /\ buffer = [i \in Slots |-> Blank]
    /\ head = 0
    /\ tail = 0
    /\ pushPc = "idle"
    /\ pushing = Blank
    /\ popPc = "idle"
    /\ popped = Blank

RingNext ==
    \/ \E o \in Orders : PushBegin(o)
    \/ PushFull
    \/ PushWrite
    \/ PushPublish
    \/ PopBegin
    \/ PopEmpty
    \/ PopRead
    \/ PopPublish

RingSpec == RingInit /\ [][RingNext]_ringVars

-----------------------------------------------------------------------------
(* Properties *)

\* Indices stay inside the buffer and the slots hold orders.
RingTypeOK ==
    /\ buffer \in [Slots -> Orders \cup {Blank}]
    /\ head \in Slots
    /\ tail \in Slots
    /\ pushPc \in {"idle", "write", "publish"}
    /\ pushing \in Orders \cup {Blank}
    /\ popPc \in {"idle", "read", "publish"}
    /\ popped \in Orders \cup {Blank}

\* The producer never copies into the slot the consumer is copying from:
\* the plain (non-atomic) accesses to buffer_ are free of data races.
NoSlotRace == ~(pushPc = "write" /\ popPc = "read" /\ tail = head)

\* The ring is a FIFO of Capacity - 1 orders: nothing is lost, duplicated,
\* reordered or altered, and what was never pushed is never popped.  A push
\* takes effect when it stores tail_, a pop when it has copied the slot.
Fifo == INSTANCE BoundedFifo WITH
    Items <- Orders,
    NoItem <- Blank,
    Bound <- Capacity - 1,
    queue <- IF popPc = "publish" THEN Tail(Contents) ELSE Contents,
    out <- popped

RingIsFifo == Fifo!Spec
=============================================================================
