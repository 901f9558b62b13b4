---------------------------- MODULE MatchingEngine ----------------------------
(***************************************************************************)
(* The single-threaded matching engine of src/MatchingEngine.cpp and       *)
(* include/MatchingEngine.h around one OrderBook: the health gate, the     *)
(* priority counter, and the events handed to the publisher after each     *)
(* operation.  A publisher is attached and no journal is; what a failing   *)
(* journal adds to isHealthy belongs to the journal's own model.           *)
(*                                                                         *)
(* The caller is a client thread that issues one operation at a time:      *)
(* processOrder with any well-formed order (what the Order constructor     *)
(* accepts), cancelOrder and replaceOrder with any id, price and quantity, *)
(* setSTPPolicy.  A call the code refuses without a trace is a stuttering  *)
(* step and has no action.                                                 *)
(***************************************************************************)
EXTENDS OrderBook

CONSTANTS Policies,     \* the STP policies the client chooses from
          PriorityMax,  \* the last priority value, UINT64_MAX in the code
          SubTick,      \* price units per tick; 1 when prices are whole ticks
          FreshIds      \* TRUE: clients never reuse an order id

ASSUME EngineAssumption ==
    /\ Policies \subseteq STPPolicies
    /\ PriorityMax \in Nat
    /\ SubTick \in Nat \ {0}
    /\ FreshIds \in BOOLEAN

VARIABLES state,     \* state_
          priority,  \* priority_counter_
          sent,      \* events of the current operation already published
          used       \* ghost: order ids submitted so far

engineVars == <<state, priority, sent, used>>
vars == <<bookVars, engineVars>>

isHealthy == state # "HALTED"

\* A new operation may start.
Ready == pc = "idle" /\ isHealthy

-----------------------------------------------------------------------------
(* Events *)

\* price * 1000000 + 0.5, truncated.
doubleToTicks(p) == (2 * p + SubTick) \div (2 * SubTick)

TradeEvent(t) ==
    [kind |-> "trade", resting |-> t.resting, aggressor |-> t.aggressor,
     trader |-> t.aggressorTrader, qty |-> t.qty,
     price |-> doubleToTicks(t.price),
     aggressorIsBuy |-> incoming.side = "BUY"]

OrderAcceptedEvent(o) ==
    [kind |-> "accepted", id |-> o.id, trader |-> o.trader,
     isBuy |-> o.side = "BUY", price |-> doubleToTicks(o.price),
     qty |-> o.qty, rem |-> o.rem, type |-> o.type, prio |-> o.prio]

OrderCancelledEvent(o) ==
    [kind |-> "cancelled", id |-> o.id, trader |-> o.trader, rem |-> o.rem]

\* The engine announces what is left of a LIMIT order as accepted, going by
\* the order it holds and not by the book.
AnnouncesAccepted == incoming.rem > 0 /\ incoming.type = "LIMIT"

\* What the operation in progress publishes, in order.
Events ==
    (IF old = NoOrder THEN <<>> ELSE <<OrderCancelledEvent(old)>>)
    \o [k \in DOMAIN trades |-> TradeEvent(trades[k])]
    \o (IF AnnouncesAccepted THEN <<OrderAcceptedEvent(incoming)>> ELSE <<>>)

PublishEvent ==
    /\ pc = "done"
    /\ sent < Len(Events)
    /\ sent' = sent + 1
    /\ UNCHANGED <<bookVars, state, priority, used>>

\* The operation returns to its caller.
Return ==
    /\ pc = "done"
    /\ sent = Len(Events)
    /\ pc' = "idle"
    /\ incoming' = NoOrder
    /\ old' = NoOrder
    /\ trades' = <<>>
    /\ sent' = 0
    /\ UNCHANGED <<book, stp, nextTradeId, filled, state, priority, used>>

-----------------------------------------------------------------------------
(* Operations *)

HasPriority == priority < PriorityMax

\* Mutant of tryNextPriority: the counter wraps at its end.
MutPriorityWraps == priority' = (priority + 1) % (PriorityMax + 1)

tryNextPriority == HasPriority /\ priority' = priority + 1

Halt ==
    /\ state' = "HALTED"
    /\ UNCHANGED <<bookVars, priority, sent, used>>

\* The orders the Order constructor builds: a MARKET order drops its price.
NewOrders ==
    {o \in [id : OrderIds, trader : Traders, side : Sides, type : Types,
            price : Prices \cup {0}, qty : Quantities] :
        /\ (o.type = "MARKET") <=> (o.price = 0)
        /\ FreshIds => o.id \notin used}

ProcessOrder ==
    /\ Ready
    /\ tryNextPriority
    /\ \E o \in NewOrders :
           /\ StartMatch([id |-> o.id, trader |-> o.trader, side |-> o.side,
                          type |-> o.type, price |-> o.price, qty |-> o.qty,
                          rem |-> o.qty, prio |-> priority])
           /\ used' = used \cup {o.id}
    /\ UNCHANGED <<book, stp, nextTradeId, old, trades, filled, state, sent>>

CancelOrder ==
    /\ Ready
    /\ \E id \in OrderIds : cancelOrder(id)
    /\ UNCHANGED engineVars

\* A replace that changes the price or raises the quantity goes to the back.
LosesPriority(o, price, qty) == price # o.price \/ qty > o.qty

NeedsPriority(o, price, qty) == qty > 0 /\ LosesPriority(o, price, qty)

ReplacePriority(o, price, qty) ==
    IF NeedsPriority(o, price, qty) THEN priority ELSE o.prio

\* replaceOrder has found the order of `id' at (side, p, i).
ReplaceCall(id, side, p, i, price, qty) ==
    LET o == book[side][p][i]
    IN  /\ Ready
        /\ IsLocated(id, side, p, i)
        /\ IF NeedsPriority(o, price, qty)
           THEN tryNextPriority
           ELSE priority' = priority
        /\ UNCHANGED <<state, sent, used>>

ReplaceOrder ==
    \E id \in OrderIds, side \in Sides, p, price \in Prices, qty \in 0 .. MaxQty :
        \E i \in DOMAIN book[side][p] :
            /\ ReplaceCall(id, side, p, i, price, qty)
            /\ replaceOrder(side, p, i, price, qty,
                            ReplacePriority(book[side][p][i], price, qty))

\* A refused replace has already taken its priority value.
ReplaceFails ==
    \E id \in OrderIds, side \in Sides, p, price \in Prices, qty \in Quantities :
        \E i \in DOMAIN book[side][p] :
            /\ ReplaceCall(id, side, p, i, price, qty)
            /\ ReplaceRefused(book[side][p][i], qty)
            /\ NeedsPriority(book[side][p][i], price, qty)
            /\ UNCHANGED bookVars

\* The priority counter is at its end: the operation halts the engine.
PriorityExhausted ==
    /\ Ready
    /\ ~HasPriority
    /\ Halt

SetSTPPolicy ==
    /\ \E policy \in Policies : setSTPPolicy(policy)
    /\ UNCHANGED engineVars

Match ==
    /\ MatchOrder
    /\ UNCHANGED engineVars

-----------------------------------------------------------------------------

Init ==
    /\ BookInit
    /\ state = "READY"
    /\ priority = 0
    /\ sent = 0
    /\ used = {}

Next ==
    \/ ProcessOrder
    \/ CancelOrder
    \/ ReplaceOrder
    \/ ReplaceFails
    \/ PriorityExhausted
    \/ SetSTPPolicy
    \/ Match
    \/ PublishEvent
    \/ Return

Spec == Init /\ [][Next]_vars

-----------------------------------------------------------------------------
(* Properties *)

\* Every variable keeps its type: in particular no order is left with a
\* negative remaining quantity, or with more than it started with, by a
\* replace that lowers the quantity of a partly filled order.
TypeOK ==
    /\ book \in [Sides -> [Prices -> Seq(RestingOrder)]]
    /\ stp \in STPPolicies
    /\ nextTradeId \in Nat \ {0}
    /\ pc \in {"idle", "begin", "purge", "match", "done"}
    /\ incoming \in Order \cup {NoOrder}
    /\ old \in RestingOrder \cup {NoOrder}
    /\ trades \in Seq(Trade)
    /\ filled \in [OrderIds -> Nat]
    /\ state \in {"READY", "HALTED"}
    /\ priority \in 0 .. PriorityMax
    /\ sent \in Nat
    /\ used \subseteq OrderIds

\* The book is never locked or crossed: whatever sequence of orders, cancels
\* and replaces was processed, every bid is below every ask, so no two
\* resting orders could still trade (matchOrder, OrderBook.cpp).
BookUncrossed ==
    \A p, q \in Prices :
        book["BUY"][p] # <<>> /\ book["SELL"][q] # <<>> => p < q

\* The quantity an order has lost is exactly what it traded: partial fills,
\* in-place reductions and re-matching replaces together neither lose nor
\* invent quantity (matchOrder and replaceOrder).
FilledMatchesTrades ==
    FreshIds =>
        /\ \A side \in Sides, p \in Prices : \A i \in DOMAIN book[side][p] :
               AlreadyFilled(book[side][p][i]) = filled[book[side][p][i].id]
        /\ incoming # NoOrder => AlreadyFilled(incoming) = filled[incoming.id]

\* When ids are not reused, an order rests in one place only and no two
\* resting orders share a priority value, up to the end of the priority
\* counter (tryNextPriority, replaceOrder).
RestingUnique ==
    FreshIds =>
        \A s1, s2 \in Sides, p1, p2 \in Prices :
            \A i \in DOMAIN book[s1][p1], j \in DOMAIN book[s2][p2] :
                LET a == book[s1][p1][i]
                    b == book[s2][p2][j]
                IN  a.id = b.id \/ a.prio = b.prio =>
                        s1 = s2 /\ p1 = p2 /\ i = j

\* A FOK order that has been processed traded in full or not at all, under
\* every policy that removes no liquidity canFullyFill has counted.
FOKAtomic ==
    stp # "CANCEL_OLDEST" /\ pc = "done" /\ incoming.type = "FOK" =>
        incoming.rem \in {0, incoming.qty}

\* Under CANCEL_NEWEST and CANCEL_BOTH no trade has one trader on both sides.
NoSelfTrade ==
    stp \in {"CANCEL_NEWEST", "CANCEL_BOTH"} =>
        \A k \in DOMAIN trades :
            trades[k].restingTrader # trades[k].aggressorTrader

\* An order announced to the publisher as accepted is in the book, with the
\* price, quantity and priority announced, as long as the policy in force does
\* not cancel incoming orders and the pool has a slot for it.
AcceptedRests ==
    /\ pc = "done"
    /\ AnnouncesAccepted
    /\ stp \in {"NONE", "CANCEL_OLDEST"}
    /\ getOrderCount < PoolCapacity
    => \E i \in DOMAIN book[incoming.side][incoming.price] :
           book[incoming.side][incoming.price][i] = incoming

\* A queue keeps its order: two orders that stay never change places, and an
\* order that joins goes behind all that stay (push_back and erase_at).
KeepsPlaces(q, r) ==
    \A k, l \in DOMAIN r :
        k < l /\ (\E j \in DOMAIN q : q[j].id = r[l].id) =>
            \E i, j \in DOMAIN q :
                i < j /\ q[i].id = r[k].id /\ q[j].id = r[l].id

QueuesAreFIFO ==
    [][\A side \in Sides, p \in Prices :
           KeepsPlaces(book[side][p], book'[side][p])]_vars

\* No order of that id is in the book.
Gone(id) ==
    \A side \in Sides, p \in Prices : \A i \in DOMAIN book[side][p] :
        book[side][p][i].id # id

\* A sweep leaves nothing behind: through all the trades of one operation the
\* price never gets better again, no order trades twice, nobody on the other
\* side is left at a price better than one that traded, and an order stays in
\* the book partly filled only if it is the last one and used the incoming
\* order up (the loop of matchOrder, with its levels emptied on the way).
SweepOrdered ==
    FreshIds =>
        \A k \in DOMAIN trades :
            LET side == Opposite(incoming.side)
                price == trades[k].price
            IN  /\ \A l \in DOMAIN trades : k < l =>
                       /\ ~Better(side, trades[l].price, price)
                       /\ trades[l].resting # trades[k].resting
                /\ \A p \in Prices : book[side][p] # <<>> => ~Better(side, p, price)
                /\ k < Len(trades) \/ incoming.rem > 0 => Gone(trades[k].resting)

\* How far matchOrder is from its end: the phases it has still to enter, then
\* the orders and the quantity it has still to go through.
Phase == [idle |-> 0, done |-> 1, match |-> 2, purge |-> 3]

Remaining == getOrderCount + (IF incoming = NoOrder THEN 0 ELSE incoming.rem)

ComesNearer ==
    \/ Phase[pc'] < Phase[pc]
    \/ pc' = pc /\ Remaining' < Remaining

\* matchOrder ends: once in a loop, no step of it fails to bring it nearer to
\* its end, so its loops cannot go on for ever, whatever finished orders, own
\* orders and emptied levels they meet.  (A step is always possible: where the
\* policy can be changed, a deadlock could only be a call that is stuck.)
MatchingEnds ==
    pc \in {"purge", "match"} => ~ENABLED (MatchOrder /\ ~ComesNearer)

\* A FOK order that has been processed traded in full or not at all.
FOKAlwaysAtomic ==
    pc = "done" /\ incoming.type = "FOK" =>
        incoming.rem \in {0, incoming.qty}
=============================================================================
