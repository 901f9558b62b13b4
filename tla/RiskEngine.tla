----------------------------- MODULE RiskEngine -----------------------------
(***************************************************************************)
(* The risk gate of one shard, src/RiskEngine.cpp, driven through the      *)
(* lifecycle its header prescribes: validate, then onFill for every resting*)
(* order the incoming order trades with, then onOrderResting for what is   *)
(* left, and onOrderCancelled for cancels; validateReplace for replaces.   *)
(* One thread makes all these calls.  Next to the live engine a second one *)
(* follows the restore calls for the same events, as a recovery would make *)
(* them, and takes over when the process restarts.                         *)
(*                                                                         *)
(* The book is that of src/OrderBook.cpp with self-trade prevention off    *)
(* and prices left out: which orders meet, and whether a replace keeps its *)
(* price, is open; quantities are not.  An order that a replace has left   *)
(* with nothing remaining stays in the book, as it does there.             *)
(* All orders are of one symbol with a reference price and within          *)
(* the price band, so a position key is a trader; keys of different        *)
(* symbols share nothing.  A call that validate rejects leaves no trace.   *)
(***************************************************************************)
EXTENDS Integers, FiniteSetsExt, Functions

CONSTANTS OrderIds,  \* order_id values
          Traders,   \* the position keys
          MaxQty,    \* bound: the largest quantity of an order
          IntMax,    \* INT64_MAX
          Limits,    \* the values setMaxOrderSize and setMaxPosition are given
          MaxRefusals  \* bound: calls of onOrderResting that return false

ASSUME RiskAssumption ==
    /\ MaxQty \in Nat \ {0}
    /\ IntMax \in Nat \ {0}
    /\ Limits \subseteq Nat
    /\ MaxRefusals \in Nat

VARIABLES live,      \* the engine behind the on* calls
          replayed,  \* the engine behind the restore* calls
          maxOrder,  \* max_order_qty_
          maxPos,    \* max_position_
          book,      \* the resting orders by id
          active,    \* the order being matched, if any
          inPlace,   \* it keeps its place in the book and is not matched
          refused,   \* ghost: resting orders onOrderResting has refused
          refusals,  \* ghost: how often it has
          diverged,  \* ghost: it has since the last restart
          voided     \* ghost: an order with nothing left has been cancelled

vars == <<live, replayed, maxOrder, maxPos, book, active, inPlace, refused,
          refusals, diverged, voided>>

Sides == {"BUY", "SELL"}

\* No order is being matched.
Idle == active = {}

\* A function without, and with, an entry.
Without(f, x) == [y \in DOMAIN f \ {x} |-> f[y]]
With(f, x, v) == [y \in DOMAIN f \cup {x} |-> IF y = x THEN v ELSE f[y]]

-----------------------------------------------------------------------------
(* The state transitions.  An engine is a record: positions, which has a    *)
(* zero entry where positions_ has none, order_risk_ and state_corrupt_.    *)

NoPosition == [position |-> 0, BUY |-> 0, SELL |-> 0]

NewEngine ==
    [positions |-> [t \in Traders |-> NoPosition], orders |-> <<>>,
     corrupt |-> FALSE]

\* order_risk_ may take the order.
CanRest(e, o, rem) ==
    /\ ~e.corrupt
    /\ rem \in 1 .. o.qty
    /\ o.type = "LIMIT"
    /\ o.id \notin DOMAIN e.orders

\* Mutant of WithinLimit: the limit itself is not allowed.
MutLimitStrict(e, o, rem) == e.positions[o.trader][o.side] + rem < maxPos

\* new_working is within max_position_.
WithinLimit(e, o, rem) == e.positions[o.trader][o.side] + rem <= maxPos

applyResting(e, o, rem) ==
    [e EXCEPT !.positions[o.trader][o.side] = @ + rem,
              !.orders = With(@, o.id, [trader |-> o.trader, side |-> o.side,
                                        reserved |-> rem])]

\* The reservation of `id' and its counter have n to give.
CanRelease(e, id, n) ==
    /\ ~e.corrupt
    /\ n > 0
    /\ id \in DOMAIN e.orders
    /\ n <= e.orders[id].reserved
    /\ n <= e.positions[e.orders[id].trader][e.orders[id].side]

Released(orders, id, n) ==
    IF orders[id].reserved = n THEN Without(orders, id)
    ELSE [orders EXCEPT ![id].reserved = @ - n]

applyCancelled(e, id, n) ==
    LET o == e.orders[id]
    IN  [e EXCEPT !.positions[o.trader][o.side] = @ - n,
                  !.orders = Released(@, id, n)]

Signed(side, n) == IF side = "BUY" THEN n ELSE -n

\* canAddSigned and canSubSigned.
Fits(n) == n \in -IntMax - 1 .. IntMax

CanFill(e, id, n) ==
    /\ CanRelease(e, id, n)
    /\ LET o == e.orders[id]
       IN  Fits(e.positions[o.trader].position + Signed(o.side, n))

applyFill(e, id, n) ==
    LET o == e.orders[id]
    IN  [e EXCEPT !.positions[o.trader].position = @ + Signed(o.side, n),
                  !.positions[o.trader][o.side] = @ - n,
                  !.orders = Released(@, id, n)]

\* The live calls change nothing when they return false; the restore calls
\* mark the engine corrupt.  All calls modelled here test state_corrupt_ before
\* they look at anything else, so what a corrupt engine holds is left out.
CorruptEngine == [NewEngine EXCEPT !.corrupt = TRUE]

onFill(id, n) == IF CanFill(live, id, n) THEN applyFill(live, id, n) ELSE live

onOrderCancelled(id, n) ==
    IF CanRelease(live, id, n) THEN applyCancelled(live, id, n) ELSE live

\* Mutant of restoreAccepted: today's limits apply to the past.
MutRestoreLimited(o, rem) ==
    IF CanRest(replayed, o, rem) /\ WithinLimit(replayed, o, rem)
    THEN applyResting(replayed, o, rem)
    ELSE CorruptEngine

restoreAccepted(o, rem) ==
    IF CanRest(replayed, o, rem) THEN applyResting(replayed, o, rem)
    ELSE CorruptEngine

restoreFill(id, n) ==
    IF CanFill(replayed, id, n) THEN applyFill(replayed, id, n)
    ELSE CorruptEngine

restoreCancelled(id, n) ==
    IF CanRelease(replayed, id, n) THEN applyCancelled(replayed, id, n)
    ELSE CorruptEngine

-----------------------------------------------------------------------------
(* Validation *)

\* Exposure of a trader on one side: what the position would be if every
\* working order on that side traded.
Exposure(e, t, side) ==
    Signed(side, e.positions[t].position) + e.positions[t][side]

\* Mutant of validate: the working orders are left out of the projection.
MutValidatePosition(o) ==
    /\ ~live.corrupt
    /\ o.qty <= maxOrder
    /\ Signed(o.side, live.positions[o.trader].position) + o.qty <= maxPos

\* Every sum that does not fit is above max_position_ as well.
validate(o) ==
    /\ ~live.corrupt
    /\ o.qty <= maxOrder
    /\ Exposure(live, o.trader, o.side) + o.qty <= maxPos

\* o would replace the order with its id: same trader, same side.
validateReplace(o) ==
    /\ ~live.corrupt
    /\ o.qty <= maxOrder
    /\ o.id \in DOMAIN live.orders
    /\ live.orders[o.id].reserved <= live.positions[o.trader][o.side]
    /\ Exposure(live, o.trader, o.side) - live.orders[o.id].reserved + o.qty
           <= maxPos

-----------------------------------------------------------------------------
(* The caller *)

Submit(o) ==
    /\ Idle
    /\ o.id \notin DOMAIN book
    /\ validate(o)
    /\ active' = {[id |-> o.id, trader |-> o.trader, side |-> o.side,
                   type |-> o.type, qty |-> o.qty, rem |-> o.qty]}
    /\ UNCHANGED <<live, replayed, maxOrder, maxPos, book, inPlace, refused,
                   refusals, diverged, voided>>

\* The order is taken out with what was left of it and comes back with its
\* new quantity: in its old place if it is reduced at the same price, and
\* through matching otherwise.
Replace(id, qty, samePrice) ==
    /\ Idle
    /\ id \in DOMAIN book
    /\ LET o == book[id]
           new == [o EXCEPT !.qty = qty, !.rem = qty - (o.qty - o.rem)]
       IN  /\ new.rem >= 0
           /\ validateReplace(new)
           /\ live' = onOrderCancelled(id, o.rem)
           /\ replayed' = restoreCancelled(id, o.rem)
           /\ active' = {new}
           /\ inPlace' = (samePrice /\ qty < o.qty)
    /\ book' = Without(book, id)
    /\ UNCHANGED <<maxOrder, maxPos, refused, refusals, diverged, voided>>

\* The incoming order trades with a resting one.
Trade(id) ==
    \E o \in active :
        LET r == book[id]
            n == Min({o.rem, r.rem})
        IN  /\ ~inPlace
            /\ id \in DOMAIN book
            /\ n > 0
            /\ r.side # o.side
            /\ book' = IF r.rem = n THEN Without(book, id)
                       ELSE [book EXCEPT ![id].rem = @ - n]
            /\ active' = {[o EXCEPT !.rem = @ - n]}
            /\ live' = onFill(id, n)
            /\ replayed' = restoreFill(id, n)
            /\ refused' = refused \cap DOMAIN book'
            /\ UNCHANGED <<maxOrder, maxPos, inPlace, refusals, diverged,
                           voided>>

\* The incoming order comes to a resting one with nothing left, which the
\* book drops without telling anyone.
PopEmpty(id) ==
    /\ ~inPlace
    /\ id \in DOMAIN book
    /\ book[id].rem = 0
    /\ \E o \in active : o.rem > 0 /\ o.side # book[id].side
    /\ book' = Without(book, id)
    /\ UNCHANGED <<live, replayed, maxOrder, maxPos, active, inPlace, refused,
                   refusals, diverged, voided>>

\* Mutant of Rest: the whole quantity is reserved.
MutReserveAll ==
    \E o \in active :
        /\ o.rem > 0
        /\ o.type = "LIMIT"
        /\ CanRest(live, o, o.qty) /\ WithinLimit(live, o, o.qty)
        /\ live' = applyResting(live, o, o.qty)
        /\ replayed' = restoreAccepted(o, o.rem)
        /\ book' = With(book, o.id, o)
        /\ active' = {}
        /\ inPlace' = FALSE
        /\ UNCHANGED <<maxOrder, maxPos, refused, refusals, diverged, voided>>

\* What is left rests in the book and is reserved.
Rest ==
    \E o \in active :
        /\ o.rem > 0
        /\ o.type = "LIMIT"
        /\ CanRest(live, o, o.rem) /\ WithinLimit(live, o, o.rem)
        /\ live' = applyResting(live, o, o.rem)
        /\ replayed' = restoreAccepted(o, o.rem)
        /\ book' = With(book, o.id, o)
        /\ active' = {}
        /\ inPlace' = FALSE
        /\ UNCHANGED <<maxOrder, maxPos, refused, refusals, diverged, voided>>

\* onOrderResting returns false: the order rests all the same.
RestRefused ==
    \E o \in active :
        /\ o.rem > 0
        /\ o.type = "LIMIT"
        /\ ~(CanRest(live, o, o.rem) /\ WithinLimit(live, o, o.rem))
        /\ refusals < MaxRefusals
        /\ refused' = refused \cup {o.id}
        /\ refusals' = refusals + 1
        /\ diverged' = TRUE
        /\ replayed' = restoreAccepted(o, o.rem)
        /\ book' = With(book, o.id, o)
        /\ active' = {}
        /\ inPlace' = FALSE
        /\ UNCHANGED <<live, maxOrder, maxPos, voided>>

\* Nothing is left, or the order may not rest.
Finish ==
    /\ ~inPlace
    /\ \E o \in active : o.rem = 0 \/ o.type # "LIMIT"
    /\ active' = {}
    /\ UNCHANGED <<live, replayed, maxOrder, maxPos, book, inPlace, refused,
                   refusals, diverged, voided>>

\* An order reduced to what it has traded stays in the book with nothing
\* left; no call is made for it.
KeepEmpty ==
    /\ inPlace
    /\ \E o \in active : o.rem = 0 /\ book' = With(book, o.id, o)
    /\ active' = {}
    /\ inPlace' = FALSE
    /\ UNCHANGED <<live, replayed, maxOrder, maxPos, refused, refusals,
                   diverged, voided>>

\* The cancelled event of an order with nothing left carries the quantity 0,
\* which neither call accepts.
Cancel(id) ==
    /\ Idle
    /\ id \in DOMAIN book
    /\ live' = onOrderCancelled(id, book[id].rem)
    /\ replayed' = restoreCancelled(id, book[id].rem)
    /\ book' = Without(book, id)
    /\ refused' = refused \ {id}
    /\ voided' = (voided \/ book[id].rem = 0)
    /\ UNCHANGED <<maxOrder, maxPos, active, inPlace, refusals, diverged>>

\* A limit above INT64_MAX is ignored.
setMaxOrderSize(n) ==
    /\ Idle
    /\ n <= IntMax
    /\ maxOrder' = n
    /\ UNCHANGED <<live, replayed, maxPos, book, active, inPlace, refused,
                   refusals, diverged, voided>>

setMaxPosition(n) ==
    /\ Idle
    /\ n <= IntMax
    /\ maxPos' = n
    /\ maxOrder' = Min({maxOrder, n})
    /\ UNCHANGED <<live, replayed, book, active, inPlace, refused,
                   refusals, diverged, voided>>

\* The orders of the book with something left.
LiveIds == {id \in DOMAIN book : book[id].rem > 0}

\* A new process with the restored engine; limits are set again afterwards.
\* No event tells of an order with nothing left, so the new book has none.
Restart ==
    /\ Idle
    /\ live # replayed \/ LiveIds # DOMAIN book
    /\ live' = replayed
    /\ book' = [id \in LiveIds |-> book[id]]
    /\ refused' = {}
    /\ diverged' = FALSE
    /\ UNCHANGED <<replayed, maxOrder, maxPos, active, inPlace, refusals,
                   voided>>

-----------------------------------------------------------------------------

NewOrders ==
    [id : OrderIds, trader : Traders, side : Sides, type : {"LIMIT", "IOC"},
     qty : 1 .. MaxQty]

Init ==
    /\ live = NewEngine
    /\ replayed = NewEngine
    /\ maxOrder \in Limits
    /\ maxPos \in Limits
    /\ book = <<>>
    /\ active = {}
    /\ inPlace = FALSE
    /\ refused = {}
    /\ refusals = 0
    /\ diverged = FALSE
    /\ voided = FALSE

Next ==
    \/ \E o \in NewOrders : Submit(o)
    \/ \E id \in OrderIds, qty \in 1 .. MaxQty, samePrice \in BOOLEAN :
           Replace(id, qty, samePrice)
    \/ \E id \in OrderIds : Trade(id) \/ PopEmpty(id) \/ Cancel(id)
    \/ Rest
    \/ RestRefused
    \/ Finish
    \/ KeepEmpty
    \/ \E n \in Limits : setMaxOrderSize(n) \/ setMaxPosition(n)
    \/ Restart

Spec == Init /\ [][Next]_vars

-----------------------------------------------------------------------------
(* Properties *)

\* What the orders of a trader on one side reserve, unit by unit.
Reserved(orders, t, side) ==
    UNION {{id} \X (1 .. orders[id].reserved) :
              id \in {i \in DOMAIN orders : /\ orders[i].trader = t
                                            /\ orders[i].side = side}}

\* checkInvariant, for the orders `ids' of the book: e tracks exactly these,
\* each with what is left of it, and its counters are the sums of its
\* reservations.
Tracks(e, ids) ==
    /\ DOMAIN e.orders = ids
    /\ \A id \in ids : e.orders[id] = [trader |-> book[id].trader,
                                       side |-> book[id].side,
                                       reserved |-> book[id].rem]
    /\ \A t \in Traders, side \in Sides :
           e.positions[t][side] = Cardinality(Reserved(e.orders, t, side))

\* Through any sequence of partial fills, replaces, cancels and restarts the
\* live engine tracks every order of the book with something left, but for the
\* orders onOrderResting refused, and nothing else.  (checkInvariant counts the
\* orders with nothing left too, and is false while there is one.)
TracksBook == ~live.corrupt => Tracks(live, LiveIds \ refused)

\* A recovering engine accepts every event the live one was told of, under
\* any limits, until an order with nothing left is cancelled, which leaves it
\* corrupt for good.  As long as it is not, it has every order with something
\* left, and is in the state of the live one if that has refused no order
\* (restoreAccepted, restoreFill, restoreCancelled).
RestoreReproduces ==
    /\ replayed.corrupt <=> voided
    /\ ~voided => /\ Tracks(replayed, LiveIds)
                  /\ ~diverged => replayed = live

\* No call of the live path raises an exposure above max_position_: what has
\* been validated, partly traded and rested, or replaced, stays within it.
ExposureBounded ==
    [][active' # active =>
         \A t \in Traders, side \in Sides :
             Exposure(live', t, side) > Exposure(live, t, side) =>
                 Exposure(live', t, side) <= maxPos]_vars

\* A validated order is refused by onOrderResting only if its trader's
\* position is on the other side, which the check there leaves out.
RefusedAgainstPosition ==
    [][\A id \in refused' \ refused :
           LET o == book'[id]
           IN  Signed(o.side, live.positions[o.trader].position) < 0]_vars
=============================================================================
