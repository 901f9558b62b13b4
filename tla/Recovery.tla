------------------------------- MODULE Recovery -------------------------------
(***************************************************************************)
(* Crash and recovery of one engine: src/Recovery.cpp, the recovery entry  *)
(* points of src/MatchingEngine.cpp and recoverShard of                    *)
(* src/ShardedJournalManager.cpp, around the engine of MatchingEngine.     *)
(*                                                                         *)
(* The journal subscribes to the engine's events.  Module Journal shows    *)
(* that the file is at every moment a prefix of what was published,        *)
(* perhaps with one incomplete record behind it; here the file holds all   *)
(* that was published, and a crash keeps a prefix of it.  The journal      *)
(* reopens the file for appending as it is.                                *)
(*                                                                         *)
(* replay runs alone, on a new engine, so it is one step.  Crashing in the *)
(* middle of it leaves the file as it was, and replay starts again.        *)
(***************************************************************************)
EXTENDS MatchingEngine, FiniteSets

CONSTANTS MaxRecords,  \* bound: no operation starts with more in the file
          MaxCrashes,  \* bound
          Torn         \* an incomplete record

ASSUME RecoveryAssumption ==
    /\ MaxRecords \in Nat
    /\ MaxCrashes \in Nat

VARIABLES file,      \* the records in the journal's file
          sequence,  \* sequence_counter_
          crashes    \* ghost: how often the process has crashed

recoveryVars == <<file, sequence, crashes>>
allVars == <<vars, recoveryVars>>

\* What the journal keeps of an event.  `rem' of a cancel is a ghost: the
\* record has only the id.
Record(seq, event) ==
    CASE event.kind = "accepted" ->
             [kind |-> "NEW_ORDER", seq |-> seq, id |-> event.id,
              trader |-> event.trader,
              side |-> IF event.isBuy THEN "BUY" ELSE "SELL",
              price |-> event.price, qty |-> event.qty, rem |-> event.rem,
              type |-> event.type, prio |-> event.prio]
      [] event.kind = "cancelled" ->
             [kind |-> "CANCEL_ORDER", seq |-> seq, id |-> event.id,
              rem |-> event.rem]
      [] event.kind = "trade" ->
             [kind |-> "FILL", seq |-> seq, id |-> event.resting,
              qty |-> event.qty]

-----------------------------------------------------------------------------
(* replay.  Its state: ok, the book, last_sequence_, first_record_,         *)
(* max_priority_seq_seen_ and new_orders_replayed_.                         *)

EmptyBook == [side \in Sides |-> [p \in Prices |-> <<>>]]

ReplayInit ==
    [ok |-> TRUE, book |-> EmptyBook, lastSequence |-> 0, first |-> TRUE,
     maxPriority |-> 0, newOrders |-> 0]

\* The entries of b with this id: one at most, because restoreOrder refuses
\* an id the book already has.
EntriesOf(b, id) == {e \in Entries(b) : b[e[1]][e[2]][e[3]].id = id}

validateSequence(s, r) == s.first \/ r.seq = s.lastSequence + 1

validatePrioritySequence(s, r) == s.newOrders = 0 \/ r.prio > s.maxPriority

\* The price goes back from ticks to a price.
TicksToPrice(ticks) == ticks * SubTick

restoreOrder(s, r) ==
    LET o == [id |-> r.id, trader |-> r.trader, side |-> r.side,
              type |-> r.type, price |-> TicksToPrice(r.price), qty |-> r.qty,
              rem |-> r.rem, prio |-> r.prio]
    IN  IF /\ r.type = "LIMIT"
           /\ r.rem \in 1 .. r.qty
           /\ validatePrioritySequence(s, r)
           /\ o.price > 0
           /\ EntriesOf(s.book, r.id) = {}
           /\ Cardinality(Entries(s.book)) < PoolCapacity
        THEN [s EXCEPT !.book[o.side][o.price] = Append(@, o),
                       !.maxPriority = r.prio, !.newOrders = @ + 1]
        ELSE [s EXCEPT !.ok = FALSE]

restoreCancel(s, r) ==
    IF EntriesOf(s.book, r.id) = {}
    THEN [s EXCEPT !.ok = FALSE]
    ELSE LET e == CHOOSE e \in EntriesOf(s.book, r.id) : TRUE
         IN  [s EXCEPT !.book[e[1]][e[2]] = RemoveAt(@, e[3])]

\* Mutant of applyFill: an order that is used up stays in its queue.
MutFillKeeps(s, r) ==
    IF \E e \in EntriesOf(s.book, r.id) : s.book[e[1]][e[2]][e[3]].rem >= r.qty
    THEN LET e == CHOOSE e \in EntriesOf(s.book, r.id) : TRUE
         IN  [s EXCEPT !.book[e[1]][e[2]][e[3]].rem = @ - r.qty]
    ELSE [s EXCEPT !.ok = FALSE]

applyFill(s, r) ==
    IF \E e \in EntriesOf(s.book, r.id) : s.book[e[1]][e[2]][e[3]].rem >= r.qty
    THEN LET e == CHOOSE e \in EntriesOf(s.book, r.id) : TRUE
         IN  IF s.book[e[1]][e[2]][e[3]].rem = r.qty
             THEN [s EXCEPT !.book[e[1]][e[2]] = RemoveAt(@, e[3])]
             ELSE [s EXCEPT !.book[e[1]][e[2]][e[3]].rem = @ - r.qty]
    ELSE [s EXCEPT !.ok = FALSE]

\* One record: its sequence number, then its effect.
processRecord(s, r) ==
    LET t == [s EXCEPT !.first = FALSE, !.lastSequence = r.seq]
    IN  IF ~s.ok THEN s
        ELSE IF ~validateSequence(s, r) THEN [s EXCEPT !.ok = FALSE]
        ELSE CASE r.kind = "NEW_ORDER" -> restoreOrder(t, r)
               [] r.kind = "CANCEL_ORDER" -> restoreCancel(t, r)
               [] r.kind = "FILL" -> applyFill(t, r)

Apply(records) ==
    LET after[k \in 0 .. Len(records)] ==
            IF k = 0 THEN ReplayInit
                     ELSE processRecord(after[k - 1], records[k])
    IN  after[Len(records)]

\* What replay of a file may end with.  The bytes of an incomplete record run
\* into what is behind it: the checksum fails, or that is too short to make up
\* what is missing and replay takes it for the truncated tail.  Two whole
\* records are always long enough.
Replays(f) ==
    LET k == SelectInSeq(f, LAMBDA r : r = Torn)
        s == Apply(SubSeq(f, 1, IF k = 0 THEN Len(f) ELSE k - 1))
        halted == [s EXCEPT !.ok = FALSE]
        whole == {j \in k + 1 .. Len(f) : f[j] # Torn}
    IN  CASE k \in {0, Len(f)} -> {s}
          [] k \in 1 .. Len(f) - 1 /\ Cardinality(whole) < 2 -> {s, halted}
          [] k \in 1 .. Len(f) - 1 /\ Cardinality(whole) >= 2 -> {halted}

\* Ghost: what the orders of a recovered book had traded.
FilledIn(b) ==
    [id \in OrderIds |->
        IF EntriesOf(b, id) = {} THEN 0
        ELSE AlreadyFilled(At(b, CHOOSE e \in EntriesOf(b, id) : TRUE))]

\* Mutant of getNextPrioritySequence: the largest value seen is used again.
MutPriorityAgain(s) == s.maxPriority

getNextPrioritySequence(s) == IF s.newOrders = 0 THEN 0 ELSE s.maxPriority + 1

-----------------------------------------------------------------------------
(* Actions *)

\* The publisher hands the event to the journal.
Journalled ==
    /\ PublishEvent
    /\ file' = Append(file, Record(sequence, Events[sent + 1]))
    /\ sequence' = sequence + 1
    /\ UNCHANGED crashes

Operation ==
    /\ Len(file) < MaxRecords
    /\ \/ ProcessOrder
       \/ CancelOrder
       \/ ReplaceOrder
       \/ ReplaceFails
       \/ PriorityExhausted
    /\ UNCHANGED recoveryVars

Proceed == (Match \/ Return) /\ UNCHANGED recoveryVars

\* The process ends.  Of the file a prefix is left, perhaps cut inside a
\* record, and a new engine waits for replay.
Crash ==
    /\ crashes < MaxCrashes
    /\ pc # "recover"
    /\ \E k \in 0 .. Len(file) :
           \/ file' = SubSeq(file, 1, k)
           \/ k < Len(file) /\ file' = Append(SubSeq(file, 1, k), Torn)
    /\ crashes' = crashes + 1
    /\ book' = EmptyBook
    /\ stp' = "NONE"
    /\ nextTradeId' = 1
    /\ pc' = "recover"
    /\ incoming' = NoOrder
    /\ old' = NoOrder
    /\ trades' = <<>>
    /\ filled' = [id \in OrderIds |-> 0]
    /\ state' = "READY"
    /\ priority' = 0
    /\ sent' = 0
    /\ sequence' = 0
    /\ UNCHANGED used

\* replay halts the engine at the first record it cannot apply.
RecoverFails ==
    /\ pc = "recover"
    /\ \E s \in Replays(file) : ~s.ok /\ book' = s.book
    /\ state' = "HALTED"
    /\ pc' = "idle"
    /\ UNCHANGED <<stp, nextTradeId, incoming, old, trades, filled, priority,
                   sent, used, recoveryVars>>

\* Mutant of Recover: the number of the last record is used again.
MutSequenceAgain ==
    /\ pc = "recover"
    /\ \E s \in Replays(file) :
           /\ s.ok
           /\ book' = s.book
           /\ filled' = FilledIn(s.book)
           /\ priority' = getNextPrioritySequence(s)
           /\ sequence' = s.lastSequence
    /\ pc' = "idle"
    /\ UNCHANGED <<stp, nextTradeId, incoming, old, trades, state, sent, used,
                   file, crashes>>

\* seedPrioritySequence, markReady, and the sequence counter of recoverShard.
\* No priority value above PriorityMax - 1 was ever handed out.
Recover ==
    /\ pc = "recover"
    /\ \E s \in Replays(file) :
           /\ s.ok
           /\ book' = s.book
           /\ filled' = FilledIn(s.book)
           /\ priority' = getNextPrioritySequence(s)
           /\ sequence' = s.lastSequence + 1
    /\ pc' = "idle"
    /\ UNCHANGED <<stp, nextTradeId, incoming, old, trades, state, sent, used,
                   file, crashes>>

RecoveryInit ==
    /\ Init
    /\ file = <<>>
    /\ sequence = 0
    /\ crashes = 0

RecoveryNext ==
    \/ Operation
    \/ Proceed
    \/ Journalled
    \/ Crash
    \/ Recover
    \/ RecoverFails

RecoverySpec == RecoveryInit /\ [][RecoveryNext]_allVars

-----------------------------------------------------------------------------
(* What the theorems ask of the constants, besides FreshIds.                 *)

\* Prices are whole ticks: a price survives doubleToTicks and back.
WholeTicks == \A p \in Prices : TicksToPrice(doubleToTicks(p)) = p

\* The pool has a slot for every order there can be, as restoreOrder demands.
PoolHasRoom == IsFiniteSet(OrderIds) /\ Cardinality(OrderIds) <= PoolCapacity

-----------------------------------------------------------------------------
(* Properties.  The policy is NONE: what self-trade prevention removes from  *)
(* the book is not journalled.                                               *)

IsNewOrder(r) == r # Torn /\ r.kind = "NEW_ORDER"

Increasing(f) ==
    \A k, l \in DOMAIN f :
        k < l /\ IsNewOrder(f[k]) /\ IsNewOrder(f[l]) => f[k].prio < f[l].prio

\* No record was cut off before the last one, no replace kept its priority,
\* and no order with nothing left was cancelled: see ReplayAccepts.
Clean(f) ==
    /\ \A k \in DOMAIN f : f[k] # Torn
    /\ Increasing(f)
    /\ \A k \in DOMAIN f : f[k].kind = "CANCEL_ORDER" => f[k].rem > 0

\* The orders of the queue q that have something left.
LiveOrders(q) ==
    LET live[k \in 0 .. Len(q)] ==
            IF k = 0 THEN <<>>
            ELSE IF q[k].rem > 0 THEN Append(live[k - 1], q[k])
            ELSE live[k - 1]
    IN  live[Len(q)]

LiveBook == [side \in Sides |-> [p \in Prices |-> LiveOrders(book[side][p])]]

\* Wherever a crash cuts the events of an operation, in this life of the
\* engine or an earlier one, replay accepts the file and builds a book that is
\* not crossed, unless a replace kept its priority or an order with nothing
\* left was cancelled (Recovery.cpp, restoreOrder, restoreCancel, applyFill).
ReplayAccepts ==
    Clean(file) =>
        LET s == Apply(file)
        IN  /\ s.ok
            /\ \A p, q \in Prices :
                   s.book["BUY"][p] # <<>> /\ s.book["SELL"][q] # <<>> => p < q

\* Between two operations the journal is enough to rebuild the book: every
\* live order, with what is left of it, its priority and its place in the
\* queue.
RecoveredBook ==
    Clean(file) /\ pc = "idle" /\ state = "READY" => Apply(file).book = LiveBook

\* The orders in the journal have increasing priorities, as replay demands.
PrioritiesIncrease == Increasing(file)
=============================================================================
