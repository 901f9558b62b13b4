------------------------------ MODULE OrderBook ------------------------------
(***************************************************************************)
(* The limit order book of src/OrderBook.cpp: the resting orders of one    *)
(* symbol and the matching of one incoming order against them.             *)
(*                                                                         *)
(* The sorted std::vector<PriceLevel> of each side is a function from      *)
(* prices to queues; a level exists exactly when its queue is not empty,   *)
(* because the code erases every level it empties and inserts a level only *)
(* after its first push_back succeeded.  front() is then the best price    *)
(* with a queue.  A queue is a sequence of orders, oldest first.           *)
(*                                                                         *)
(* matchOrder is one call, and nothing else touches the book while it      *)
(* runs: the book belongs to one thread.  It is cut into steps, one per    *)
(* iteration of its loop, with `pc' naming the place reached:              *)
(*    idle -> begin -> match -> done -> idle                               *)
(* begin: the FOK gate and self-trade prevention (purge: CANCEL_BOTH is    *)
(* erasing orders); match: the loop; done: matchOrder has returned and the *)
(* engine is publishing what happened.                                     *)
(***************************************************************************)
EXTENDS Integers, SequencesExt

CONSTANTS OrderIds,      \* order_id values, compared only for equality
          Traders,       \* trader_id values, compared only for equality
          Prices,        \* the positive prices, in fractions of a tick
          MaxQty,        \* bound: the largest quantity of an order
          PoolCapacity   \* slots of the OrderPool (2000000 by default)

ASSUME BookAssumption ==
    /\ Prices \subseteq Nat \ {0}
    /\ IsFiniteSet(Prices)
    /\ MaxQty \in Nat \ {0}
    /\ PoolCapacity \in Nat

VARIABLES book,        \* book[side][price]: the queue of resting orders
          stp,         \* stp_policy_
          nextTradeId, \* next_trade_id_
          pc,          \* where the operation in progress is
          incoming,    \* the order being matched, or what a replace made of it
          old,         \* copy of the order a cancel or a replace removes
          trades,      \* trades executed by the operation in progress
          filled       \* ghost: quantity each order id has traded so far

bookVars == <<book, stp, nextTradeId, pc, incoming, old, trades, filled>>

Sides == {"BUY", "SELL"}
Types == {"MARKET", "LIMIT", "IOC", "FOK"}
STPPolicies == {"NONE", "CANCEL_NEWEST", "CANCEL_OLDEST", "CANCEL_BOTH"}

Quantities == 1 .. MaxQty

Opposite(side) == IF side = "BUY" THEN "SELL" ELSE "BUY"

\* MARKET orders carry price 0 and every other order a positive price.
Order ==
    {o \in [id : OrderIds, trader : Traders, side : Sides, type : Types,
            price : Prices \cup {0}, qty : Quantities, rem : 0 .. MaxQty,
            prio : Nat] :
        /\ (o.type = "MARKET") <=> (o.price = 0)
        /\ o.rem <= o.qty}

\* What the default constructor Order() builds: no order at all.
NoOrder ==
    [id |-> 0, trader |-> 0, side |-> "BUY", type |-> "MARKET",
     price |-> 0, qty |-> 0, rem |-> 0, prio |-> 0]

RestingOrder == {o \in Order : o.type = "LIMIT"}

Trade ==
    [id : Nat, resting : OrderIds, aggressor : OrderIds,
     restingTrader : Traders, aggressorTrader : Traders,
     price : Prices, qty : Quantities]

-----------------------------------------------------------------------------
(* Reading the book *)

\* p is a strictly better price than q for an order resting on `side'.
Better(side, p, q) == IF side = "BUY" THEN p > q ELSE p < q

\* Mutant of IsFront: any level, as if the levels were not kept sorted.
MutAnyLevel(side, p) == book[side][p] # <<>>

\* p is the price of the front level of `side'.
IsFront(side, p) ==
    /\ book[side][p] # <<>>
    /\ \A q \in Prices : book[side][q] # <<>> => ~Better(side, q, p)

\* Mutant of Crosses: an equal price does not trade.
MutCrossesStrictly(o, p) ==
    o.type = "MARKET" \/ IF o.side = "BUY" THEN o.price > p ELSE o.price < p

\* An order o may trade at price p of the opposite side.
Crosses(o, p) ==
    \/ o.type = "MARKET"
    \/ IF o.side = "BUY" THEN o.price >= p ELSE o.price <= p

\* The position (q, j) of a queue entry of `side' comes before (p, i).
Before(side, q, j, p, i) == Better(side, q, p) \/ (q = p /\ j < i)

\* The places <<side, price, i>> of the orders in the book b.
Entries(b) ==
    UNION {{<<k[1], k[2], i>> : i \in DOMAIN b[k[1]][k[2]]} :
              k \in Sides \X Prices}

getOrderCount == Cardinality(Entries(book))

At(b, e) == b[e[1]][e[2]][e[3]]

\* What is left of the orders at a set of places, counted unit by unit.
Units(b, places) == UNION {{e} \X (1 .. At(b, e).rem) : e \in places}

Quantity(b, places) == Cardinality(Units(b, places))

\* The places that o crosses, and those of them that come before e.
Crossed(b, o) ==
    {e \in Entries(b) : e[1] = Opposite(o.side) /\ Crosses(o, e[2])}

Ahead(b, o, e) ==
    {d \in Crossed(b, o) : Before(e[1], d[2], d[3], e[2], e[3])}

\* Mutant of canFullyFill: the walk does not stop at the limit price.
MutFillAtAnyPrice(o) ==
    Quantity(book, Crossed(book, [o EXCEPT !.type = "MARKET"])) >= o.rem

canFullyFill(o) == Quantity(book, Crossed(book, o)) >= o.rem

\* Mutant of wouldSelfTrade: the own order is consumed before it is compared.
MutSelfTradeLate(o) ==
    \E e \in Crossed(book, o) :
        /\ At(book, e).trader = o.trader
        /\ At(book, e).rem > 0
        /\ Quantity(book, Ahead(book, o, e) \cup {e}) < o.rem

\* An own live order is reached before the quantity ahead of it uses up o.
wouldSelfTrade(o) ==
    \E e \in Crossed(book, o) :
        /\ At(book, e).trader = o.trader
        /\ At(book, e).rem > 0
        /\ Quantity(book, Ahead(book, o, e)) < o.rem

\* The entry at (side, p, i) is the one a search for `id' stops at: bids
\* before asks, best price first, oldest first.
IsLocated(id, side, p, i) ==
    /\ book[side][p][i].id = id
    /\ \A q \in Prices : \A j \in DOMAIN book[side][q] :
           book[side][q][j].id = id => ~Before(side, q, j, p, i)
    /\ side = "SELL" =>
           \A q \in Prices : \A j \in DOMAIN book["BUY"][q] :
               book["BUY"][q][j].id # id

-----------------------------------------------------------------------------
(* Changing the book *)

\* Mutant of Erased: the last entry takes the place of the erased one.
MutErasedBySwap(side, p, i) ==
    [book EXCEPT ![side][p] = Front([book[side][p] EXCEPT ![i] = Last(book[side][p])])]

\* The queues of `book' without the entry at (side, p, i).
Erased(side, p, i) == [book EXCEPT ![side][p] = RemoveAt(@, i)]

\* The queues of `book' with o at the back of its level.
Joined(o) == [book EXCEPT ![o.side][o.price] = Append(@, o)]

\* Mutant of addOrder: the last slot of the pool is never handed out.
MutAddOrderShort(o) ==
    IF getOrderCount + 1 < PoolCapacity
    THEN book' = Joined(o)
    ELSE book' = book

\* addOrder joins the back of the queue, or fails when the pool is exhausted.
addOrder(o) ==
    IF getOrderCount < PoolCapacity
    THEN book' = Joined(o)
    ELSE book' = book

setSTPPolicy(policy) ==
    /\ pc = "idle"
    /\ stp # policy
    /\ stp' = policy
    /\ UNCHANGED <<book, nextTradeId, pc, incoming, old, trades, filled>>

\* matchOrder is called with o.
StartMatch(o) ==
    /\ pc' = "begin"
    /\ incoming' = o

cancelOrder(id) ==
    /\ \E side \in Sides, p \in Prices : \E i \in DOMAIN book[side][p] :
           /\ IsLocated(id, side, p, i)
           /\ old' = book[side][p][i]
           /\ book' = Erased(side, p, i)
    /\ pc' = "done"
    /\ UNCHANGED <<stp, nextTradeId, incoming, trades, filled>>

-----------------------------------------------------------------------------
(* replaceOrder.  The four cases for an order found at (side, p, i).       *)

AlreadyFilled(o) == o.qty - o.rem

\* Mutant of ReplaceRefused: the quantity already traded is not looked at.
MutNeverRefused(o, qty) == FALSE

\* The new quantity is below what has traded: nothing changes.
ReplaceRefused(o, qty) == qty > 0 /\ qty < AlreadyFilled(o)

ReplaceByCancel(side, p, i) ==
    /\ book' = Erased(side, p, i)
    /\ pc' = "done"
    /\ incoming' = NoOrder

ReplaceInPlace(side, p, i, qty) ==
    LET o == book[side][p][i]
        new == [o EXCEPT !.qty = qty, !.rem = qty - AlreadyFilled(o)]
    IN  /\ book' = [book EXCEPT ![side][p][i] = new]
        /\ pc' = "done"
        /\ incoming' = new

\* Mutant of ReplaceByRematch: the replacement forgets what was filled.
MutRematchUnfilled(side, p, i, price, qty, prio) ==
    LET new == [book[side][p][i] EXCEPT !.price = price, !.qty = qty,
                                        !.rem = qty, !.prio = prio]
    IN  /\ book' = Erased(side, p, i)
        /\ incoming' = new
        /\ pc' = "begin"

ReplaceByRematch(side, p, i, price, qty, prio) ==
    LET o == book[side][p][i]
        new == [o EXCEPT !.price = price, !.qty = qty,
                         !.rem = qty - AlreadyFilled(o), !.prio = prio]
    IN  /\ book' = Erased(side, p, i)
        /\ incoming' = new
        /\ pc' = IF new.rem = 0 THEN "done" ELSE "begin"

replaceOrder(side, p, i, price, qty, prio) ==
    LET o == book[side][p][i]
    IN  /\ ~ReplaceRefused(o, qty)
        /\ \/ qty = 0 /\ ReplaceByCancel(side, p, i)
           \/ /\ qty > 0 /\ price = p /\ qty < o.qty
              /\ ReplaceInPlace(side, p, i, qty)
           \/ /\ qty > 0 /\ (price # p \/ qty >= o.qty)
              /\ ReplaceByRematch(side, p, i, price, qty, prio)
        /\ old' = o
        /\ UNCHANGED <<stp, nextTradeId, trades, filled>>

-----------------------------------------------------------------------------
(* matchOrder: the gates in front of the loop                              *)

PassesFOK == incoming.type = "FOK" => canFullyFill(incoming)

SelfTradeStopped == stp # "NONE" /\ wouldSelfTrade(incoming)

RejectFOK ==
    /\ pc = "begin"
    /\ ~PassesFOK
    /\ pc' = "done"
    /\ UNCHANGED <<book, stp, nextTradeId, incoming, old, trades, filled>>

EnterLoop ==
    /\ pc = "begin"
    /\ PassesFOK
    /\ ~SelfTradeStopped
    /\ pc' = "match"
    /\ UNCHANGED <<book, stp, nextTradeId, incoming, old, trades, filled>>

StpCancelNewest ==
    /\ pc = "begin"
    /\ PassesFOK
    /\ SelfTradeStopped
    /\ stp = "CANCEL_NEWEST"
    /\ pc' = "done"
    /\ UNCHANGED <<book, stp, nextTradeId, incoming, old, trades, filled>>

\* The first live order of the incoming trader on the other side is at (p, i),
\* in a level the incoming order crosses.
IsOwn(o) == o.trader = incoming.trader /\ o.rem > 0

FirstOwn(side, p, i) ==
    /\ Crosses(incoming, p)
    /\ IsOwn(book[side][p][i])
    /\ \A q \in Prices : \A j \in DOMAIN book[side][q] :
           IsOwn(book[side][q][j]) => ~Before(side, q, j, p, i)

EraseFirstOwn ==
    LET side == Opposite(incoming.side)
    IN  \E p \in Prices : \E i \in DOMAIN book[side][p] :
            /\ FirstOwn(side, p, i)
            /\ book' = Erased(side, p, i)

\* Only the first own order goes; the incoming order then matches on.
StpCancelOldest ==
    /\ pc = "begin"
    /\ PassesFOK
    /\ SelfTradeStopped
    /\ stp = "CANCEL_OLDEST"
    /\ EraseFirstOwn
    /\ pc' = "match"
    /\ UNCHANGED <<stp, nextTradeId, incoming, old, trades, filled>>

\* Every own order in the crossed levels goes, and so does the incoming one.
StpCancelBoth ==
    /\ pc = "begin"
    /\ PassesFOK
    /\ SelfTradeStopped
    /\ stp = "CANCEL_BOTH"
    /\ pc' = "purge"
    /\ UNCHANGED <<book, stp, nextTradeId, incoming, old, trades, filled>>

PurgeOwn ==
    /\ pc = "purge"
    /\ EraseFirstOwn
    /\ UNCHANGED <<stp, nextTradeId, pc, incoming, old, trades, filled>>

PurgeEnd ==
    LET side == Opposite(incoming.side)
    IN  /\ pc = "purge"
        /\ \A p \in Prices : \A i \in DOMAIN book[side][p] :
               Crosses(incoming, p) => ~IsOwn(book[side][p][i])
        /\ pc' = "done"
        /\ UNCHANGED <<book, stp, nextTradeId, incoming, old, trades, filled>>

-----------------------------------------------------------------------------
(* matchOrder: the loop                                                    *)

\* The loop looks at the front level p of the other side.
AtLevel(p) ==
    /\ pc = "match"
    /\ incoming.rem > 0
    /\ IsFront(Opposite(incoming.side), p)
    /\ Crosses(incoming, p)

\* Mutant of PopFilled: the loop passes over the order without removing it.
MutPopNothing ==
    /\ \E p \in Prices :
           AtLevel(p) /\ Head(book[Opposite(incoming.side)][p]).rem = 0
    /\ UNCHANGED bookVars

\* Orders that a replace left with nothing to trade are dropped on the way.
PopFilled ==
    LET side == Opposite(incoming.side)
    IN  \E p \in Prices :
            /\ AtLevel(p)
            /\ Head(book[side][p]).rem = 0
            /\ book' = [book EXCEPT ![side][p] = Tail(@)]
            /\ UNCHANGED <<stp, nextTradeId, pc, incoming, old, trades, filled>>

TradeQty(r) == IF incoming.rem <= r.rem THEN incoming.rem ELSE r.rem

\* The queue q after its first order traded quantity n.
FrontFilled(q, n) ==
    IF Head(q).rem = n THEN Tail(q) ELSE [q EXCEPT ![1].rem = @ - n]

ExecuteTrade ==
    LET side == Opposite(incoming.side)
    IN  \E p \in Prices :
            LET r == Head(book[side][p])
                n == TradeQty(r)
            IN  /\ AtLevel(p)
                /\ r.rem > 0
                /\ r.id # incoming.id
                /\ incoming' = [incoming EXCEPT !.rem = @ - n]
                /\ book' = [book EXCEPT ![side][p] = FrontFilled(@, n)]
                /\ trades' = Append(trades,
                      [id |-> nextTradeId,
                       resting |-> r.id, aggressor |-> incoming.id,
                       restingTrader |-> r.trader,
                       aggressorTrader |-> incoming.trader,
                       price |-> p, qty |-> n])
                /\ nextTradeId' = nextTradeId + 1
                /\ filled' = [filled EXCEPT ![r.id] = @ + n,
                                            ![incoming.id] = @ + n]
                /\ UNCHANGED <<stp, pc, old>>

\* The Trade constructor refuses equal ids after both quantities have been
\* reduced: the exception leaves matchOrder and the engine, nothing is
\* published, and the resting order stays, with nothing left if it was used up.
TradeThrows ==
    LET side == Opposite(incoming.side)
    IN  \E p \in Prices :
            LET r == Head(book[side][p])
                n == TradeQty(r)
            IN  /\ AtLevel(p)
                /\ r.rem > 0
                /\ r.id = incoming.id
                /\ book' = [book EXCEPT ![side][p][1].rem = @ - n]
                /\ nextTradeId' = nextTradeId + 1
                /\ pc' = "idle"
                /\ incoming' = NoOrder
                /\ old' = NoOrder
                /\ trades' = <<>>
                /\ UNCHANGED <<stp, filled>>

\* The loop has ended; what is left of a LIMIT order rests.
EndMatch ==
    LET side == Opposite(incoming.side)
    IN  /\ pc = "match"
        /\ \/ incoming.rem = 0
           \/ \A p \in Prices : book[side][p] # <<>> => ~Crosses(incoming, p)
        /\ IF incoming.rem > 0 /\ incoming.type = "LIMIT"
           THEN addOrder(incoming)
           ELSE book' = book
        /\ pc' = "done"
        /\ UNCHANGED <<stp, nextTradeId, incoming, old, trades, filled>>

MatchOrder ==
    \/ RejectFOK
    \/ EnterLoop
    \/ StpCancelNewest
    \/ StpCancelOldest
    \/ StpCancelBoth
    \/ PurgeOwn
    \/ PurgeEnd
    \/ PopFilled
    \/ ExecuteTrade
    \/ TradeThrows
    \/ EndMatch

BookInit ==
    /\ book = [side \in Sides |-> [p \in Prices |-> <<>>]]
    /\ stp = "NONE"
    /\ nextTradeId = 1
    /\ pc = "idle"
    /\ incoming = NoOrder
    /\ old = NoOrder
    /\ trades = <<>>
    /\ filled = [id \in OrderIds |-> 0]
=============================================================================
