------------------------- MODULE MatchingEngineProofs -------------------------
(***************************************************************************)
(* Theorems about the matching engine, for every value of the constants.   *)
(***************************************************************************)
EXTENDS MatchingEngine, SequenceTheorems, FiniteSetTheorems, FunctionTheorems, TLAPS

-----------------------------------------------------------------------------
(* Queues *)

\* Erasing an entry (OrderQueue::erase_at) shifts the later ones forward.
LEMMA RemoveAtProperties ==
  ASSUME NEW S, NEW q \in Seq(S), NEW i \in DOMAIN q
  PROVE  /\ RemoveAt(q, i) \in Seq(S)
         /\ Len(RemoveAt(q, i)) = Len(q) - 1
         /\ \A k \in 1 .. Len(q) - 1 :
                RemoveAt(q, i)[k] = IF k < i THEN q[k] ELSE q[k + 1]
<1> DEFINE a == SubSeq(q, 1, i - 1)
           b == SubSeq(q, i + 1, Len(q))
<1>1. Len(q) \in Nat /\ i \in 1 .. Len(q)
  BY LenProperties
<1>2. /\ a \in Seq(S)
      /\ Len(a) = i - 1
      /\ \A k \in 1 .. i - 1 : a[k] = q[k]
  BY <1>1, SubSeqProperties
<1>3. /\ b \in Seq(S)
      /\ Len(b) = Len(q) - i
      /\ \A k \in 1 .. Len(q) - i : b[k] = q[i + k]
  BY <1>1, SubSeqProperties
<1>4. RemoveAt(q, i) = a \o b
  BY DEF RemoveAt
<1> HIDE DEF a, b
<1>5. /\ a \o b \in Seq(S)
      /\ Len(a \o b) = Len(a) + Len(b)
      /\ \A k \in 1 .. Len(a) + Len(b) :
             (a \o b)[k] = IF k <= Len(a) THEN a[k] ELSE b[k - Len(a)]
  BY <1>2, <1>3, ConcatProperties
<1>6. Len(a) + Len(b) = Len(q) - 1
  BY <1>1, <1>2, <1>3
<1>7. ASSUME NEW k \in 1 .. Len(q) - 1
      PROVE  (a \o b)[k] = IF k < i THEN q[k] ELSE q[k + 1]
  <2>1. k \in 1 .. Len(a) + Len(b)
    BY <1>6
  <2>2. CASE k < i
    BY <1>1, <1>2, <1>5, <2>1, <2>2
  <2>3. CASE ~(k < i)
    <3>1. (a \o b)[k] = b[k - Len(a)]
      BY <1>1, <1>2, <1>5, <2>1, <2>3
    <3>2. k - Len(a) \in 1 .. Len(q) - i /\ i + (k - Len(a)) = k + 1
      BY <1>1, <1>2, <2>3
    <3> QED
      BY <1>3, <2>3, <3>1, <3>2
  <2> QED
    BY <2>2, <2>3
<1> QED
  BY <1>4, <1>5, <1>6, <1>7

-----------------------------------------------------------------------------
(* The book *)

BookType == [Sides -> [Prices -> Seq(RestingOrder)]]

\* Giving one level a new queue changes that level only.
LEMMA LevelUpdate ==
  ASSUME NEW b \in BookType, NEW side \in Sides, NEW p \in Prices,
         NEW q \in Seq(RestingOrder)
  PROVE  /\ [b EXCEPT ![side][p] = q] \in BookType
         /\ \A s \in Sides, r \in Prices :
                [b EXCEPT ![side][p] = q][s][r] =
                    IF s = side /\ r = p THEN q ELSE b[s][r]
  BY DEF BookType

\* cancelOrder and the STP purges leave well-typed queues behind.
LEMMA ErasedType ==
  ASSUME book \in BookType, NEW side \in Sides, NEW p \in Prices,
         NEW i \in DOMAIN book[side][p]
  PROVE  /\ Erased(side, p, i) \in BookType
         /\ \A s \in Sides, r \in Prices :
                Erased(side, p, i)[s][r] =
                    IF s = side /\ r = p THEN RemoveAt(book[side][p], i)
                                         ELSE book[s][r]
<1>1. book[side][p] \in Seq(RestingOrder)
  BY DEF BookType
<1>2. RemoveAt(book[side][p], i) \in Seq(RestingOrder)
  BY <1>1, RemoveAtProperties
<1> QED
  BY <1>2, LevelUpdate DEF Erased

\* What stands in a queue is a resting order.
LEMMA EntryType ==
  ASSUME book \in BookType, NEW side \in Sides, NEW p \in Prices,
         NEW i \in DOMAIN book[side][p]
  PROVE  book[side][p][i] \in RestingOrder
  BY DEF BookType

\* A front order is the first entry of a queue that is not empty.
LEMMA FrontType ==
  ASSUME book \in BookType, NEW side \in Sides, NEW p \in Prices,
         book[side][p] # <<>>
  PROVE  /\ Head(book[side][p]) = book[side][p][1]
         /\ Head(book[side][p]) \in RestingOrder
         /\ 1 \in DOMAIN book[side][p]
         /\ Tail(book[side][p]) \in Seq(RestingOrder)
  BY HeadTailProperties DEF BookType

\* The side an incoming order is matched against is a side.
LEMMA OppositeType ==
  ASSUME NEW side
  PROVE  Opposite(side) \in Sides
  BY DEF Opposite, Sides

-----------------------------------------------------------------------------
(* Type correctness *)

\* What a resting order becomes under replaceOrder is an order again.
LEMMA ReplacedType ==
  ASSUME NEW o \in RestingOrder, NEW price \in Prices, NEW qty \in 1 .. MaxQty,
         NEW prio \in Nat, ~ReplaceRefused(o, qty)
  PROVE  [o EXCEPT !.price = price, !.qty = qty,
                   !.rem = qty - AlreadyFilled(o), !.prio = prio]
            \in RestingOrder
<1>1. o.qty \in 1 .. MaxQty /\ o.rem \in 0 .. MaxQty /\ o.rem <= o.qty
  BY DEF RestingOrder, Order, Quantities
<1>2. qty - AlreadyFilled(o) \in 0 .. MaxQty /\ qty - AlreadyFilled(o) <= qty
  BY <1>1, BookAssumption DEF ReplaceRefused, AlreadyFilled
<1> QED
  BY <1>1, <1>2, BookAssumption DEF RestingOrder, Order, Quantities

\* Every step of the engine keeps every variable in its type.
LEMMA TypeStep == TypeOK /\ [Next]_vars => TypeOK'
<1> SUFFICES ASSUME TypeOK, [Next]_vars PROVE TypeOK'
  OBVIOUS
<1>b. book \in BookType
  BY DEF TypeOK, BookType
<1>1. CASE ProcessOrder
  <2>1. PICK o \in NewOrders :
          /\ incoming' = [id |-> o.id, trader |-> o.trader, side |-> o.side,
                          type |-> o.type, price |-> o.price, qty |-> o.qty,
                          rem |-> o.qty, prio |-> priority]
          /\ used' = used \cup {o.id}
    BY <1>1 DEF ProcessOrder, StartMatch
  <2>2. incoming' \in Order
    BY <2>1, EngineAssumption, BookAssumption
    DEF NewOrders, Order, Quantities, TypeOK
  <2>3. used' \subseteq OrderIds
    BY <2>1 DEF NewOrders, TypeOK
  <2> QED
    BY <1>1, <2>2, <2>3, EngineAssumption
    DEF ProcessOrder, StartMatch, tryNextPriority, HasPriority, TypeOK
<1>2. CASE CancelOrder
  <2>1. PICK id \in OrderIds : cancelOrder(id)
    BY <1>2 DEF CancelOrder
  <2>2. PICK side \in Sides, p \in Prices : \E i \in DOMAIN book[side][p] :
          /\ old' = book[side][p][i]
          /\ book' = Erased(side, p, i)
    BY <2>1 DEF cancelOrder
  <2>3. book' \in BookType /\ old' \in RestingOrder
    BY <1>b, <2>2, ErasedType, EntryType
  <2> QED
    BY <1>2, <2>1, <2>3 DEF CancelOrder, cancelOrder, engineVars, TypeOK, BookType
<1>3. CASE ReplaceOrder
  <2>1. PICK id \in OrderIds, side \in Sides, p \in Prices, price \in Prices,
             qty \in 0 .. MaxQty :
          \E i \in DOMAIN book[side][p] :
            /\ ReplaceCall(id, side, p, i, price, qty)
            /\ replaceOrder(side, p, i, price, qty,
                            ReplacePriority(book[side][p][i], price, qty))
    BY <1>3 DEF ReplaceOrder
  <2>2. PICK i \in DOMAIN book[side][p] :
            /\ ReplaceCall(id, side, p, i, price, qty)
            /\ replaceOrder(side, p, i, price, qty,
                            ReplacePriority(book[side][p][i], price, qty))
    BY <2>1
  <2> DEFINE o == book[side][p][i]
             prio == ReplacePriority(o, price, qty)
  <2>3. o \in RestingOrder /\ Erased(side, p, i) \in BookType
    BY <1>b, EntryType, ErasedType
  <2>4. prio \in Nat
    BY <2>3, EngineAssumption DEF ReplacePriority, RestingOrder, Order, TypeOK
  <2>5. /\ priority' \in 0 .. PriorityMax
        /\ state' = state /\ sent' = sent /\ used' = used
    BY <2>2, EngineAssumption DEF ReplaceCall, tryNextPriority, HasPriority, TypeOK
  <2>6. ~ReplaceRefused(o, qty)
    BY <2>2 DEF replaceOrder
  <2>7. /\ old' = o
        /\ UNCHANGED <<stp, nextTradeId, trades, filled>>
    BY <2>2 DEF replaceOrder
  <2>8. CASE ReplaceByCancel(side, p, i)
    BY <2>3, <2>5, <2>7, <2>8 DEF ReplaceByCancel, TypeOK, BookType
  <2>9. CASE qty > 0 /\ ReplaceInPlace(side, p, i, qty)
    <3> DEFINE new == [o EXCEPT !.qty = qty, !.rem = qty - AlreadyFilled(o)]
    <3>1. new = [o EXCEPT !.price = o.price, !.qty = qty,
                          !.rem = qty - AlreadyFilled(o), !.prio = o.prio]
      BY <2>3 DEF RestingOrder, Order
    <3>2. o.price \in Prices /\ o.prio \in Nat /\ qty \in 1 .. MaxQty
      BY <2>3, <2>9, BookAssumption DEF RestingOrder, Order
    <3>3. new \in RestingOrder
      <4> HIDE DEF o
      <4>1. [o EXCEPT !.price = o.price, !.qty = qty,
                      !.rem = qty - AlreadyFilled(o), !.prio = o.prio]
              \in RestingOrder
        BY <2>3, <2>6, <3>2, ReplacedType
      <4> QED
        BY <3>1, <4>1
    <3> HIDE DEF new
    <3>4. [book[side][p] EXCEPT ![i] = new] \in Seq(RestingOrder)
      BY <1>b, <3>3, LenProperties, ExceptSeq DEF BookType
    <3>5. book' = [book EXCEPT ![side][p] = [book[side][p] EXCEPT ![i] = new]]
      BY <2>9 DEF ReplaceInPlace, new
    <3>6. book' \in BookType
      BY <1>b, <3>4, <3>5, LevelUpdate
    <3>7. incoming' = new /\ pc' = "done"
      BY <2>9 DEF ReplaceInPlace, new
    <3> QED
      BY <2>3, <2>5, <2>7, <3>3, <3>6, <3>7 DEF TypeOK, BookType, RestingOrder
  <2>10. CASE qty > 0 /\ ReplaceByRematch(side, p, i, price, qty, prio)
    <3> DEFINE new == [o EXCEPT !.price = price, !.qty = qty,
                                !.rem = qty - AlreadyFilled(o), !.prio = prio]
    <3>1. new \in RestingOrder
      <4> HIDE DEF o, prio
      <4>1. qty \in 1 .. MaxQty
        BY <2>10, BookAssumption
      <4> QED
        BY <2>3, <2>4, <2>6, <4>1, ReplacedType
    <3>2. /\ book' = Erased(side, p, i)
          /\ incoming' = new
          /\ pc' \in {"done", "begin"}
      BY <2>10 DEF ReplaceByRematch
    <3> QED
      BY <2>3, <2>5, <2>7, <3>1, <3>2 DEF TypeOK, BookType, RestingOrder
  <2> QED
    BY <2>2, <2>8, <2>9, <2>10 DEF replaceOrder
<1>4. CASE ReplaceFails
  BY <1>4, EngineAssumption
  DEF ReplaceFails, ReplaceCall, tryNextPriority, HasPriority, bookVars, TypeOK
<1>5. CASE PriorityExhausted
  BY <1>5 DEF PriorityExhausted, Halt, bookVars, TypeOK
<1>6. CASE SetSTPPolicy
  BY <1>6, EngineAssumption
  DEF SetSTPPolicy, setSTPPolicy, engineVars, TypeOK
<1>7. CASE PublishEvent
  BY <1>7 DEF PublishEvent, bookVars, TypeOK
<1>8. CASE Return
  BY <1>8 DEF Return, TypeOK
<1>9. CASE UNCHANGED vars
  BY <1>9 DEF vars, bookVars, engineVars, TypeOK
<1>10. CASE Match
  <2>e. UNCHANGED engineVars /\ MatchOrder
    BY <1>10 DEF Match
  <2>s. Opposite(incoming.side) \in Sides
    BY OppositeType
  <2>1. CASE RejectFOK \/ EnterLoop \/ StpCancelNewest \/ StpCancelBoth \/ PurgeEnd
    BY <2>1, <2>e DEF RejectFOK, EnterLoop, StpCancelNewest, StpCancelBoth,
                      PurgeEnd, engineVars, TypeOK
  <2>2. ASSUME EraseFirstOwn PROVE book' \in BookType
    BY <1>b, <2>s, <2>2, ErasedType DEF EraseFirstOwn
  <2>3. CASE StpCancelOldest \/ PurgeOwn
    BY <2>2, <2>3, <2>e DEF StpCancelOldest, PurgeOwn, engineVars, TypeOK, BookType
  <2>4. CASE PopFilled
    <3>1. PICK p \in Prices :
            /\ AtLevel(p)
            /\ book' = [book EXCEPT ![Opposite(incoming.side)][p] =
                          Tail(book[Opposite(incoming.side)][p])]
      BY <2>4 DEF PopFilled
    <3>2. book' \in BookType
      BY <1>b, <2>s, <3>1, FrontType, LevelUpdate DEF AtLevel, IsFront
    <3> QED
      BY <2>4, <2>e, <3>2 DEF PopFilled, engineVars, TypeOK, BookType
  <2>5. CASE EndMatch
    <3>1. CASE book' = book
      BY <2>5, <2>e, <3>1 DEF EndMatch, engineVars, TypeOK
    <3>2. CASE incoming.rem > 0 /\ incoming.type = "LIMIT"
               /\ book' = [book EXCEPT ![incoming.side][incoming.price] =
                             Append(book[incoming.side][incoming.price], incoming)]
      <4>1. incoming \in RestingOrder
        BY <3>2 DEF TypeOK, RestingOrder, NoOrder
      <4>2. incoming.side \in Sides /\ incoming.price \in Prices
        BY <4>1 DEF RestingOrder, Order
      <4>3. Append(book[incoming.side][incoming.price], incoming)
              \in Seq(RestingOrder)
        BY <1>b, <4>1, <4>2, AppendProperties DEF BookType
      <4>4. book' \in BookType
        BY <1>b, <3>2, <4>2, <4>3, LevelUpdate
      <4> QED
        BY <2>5, <2>e, <4>4 DEF EndMatch, engineVars, TypeOK, BookType
    <3> QED
      BY <2>5, <3>1, <3>2 DEF EndMatch, addOrder, Joined
  <2>6. ASSUME NEW p \in Prices, AtLevel(p),
               Head(book[Opposite(incoming.side)][p]).rem > 0
        PROVE  LET side == Opposite(incoming.side)
                   r == Head(book[side][p])
                   n == TradeQty(r)
               IN  /\ r \in RestingOrder
                   /\ r = book[side][p][1]
                   /\ 1 \in DOMAIN book[side][p]
                   /\ incoming \in Order
                   /\ n \in Quantities
                   /\ n <= r.rem /\ n <= incoming.rem
                   /\ [r EXCEPT !.rem = r.rem - n] \in RestingOrder
                   /\ [incoming EXCEPT !.rem = incoming.rem - n] \in Order
    <3> DEFINE side == Opposite(incoming.side)
               r == Head(book[side][p])
               n == TradeQty(r)
    <3>1. /\ r \in RestingOrder
          /\ r = book[side][p][1]
          /\ 1 \in DOMAIN book[side][p]
      BY <1>b, <2>s, <2>6, FrontType DEF AtLevel, IsFront
    <3>2. incoming \in Order
      BY <2>6 DEF AtLevel, TypeOK, NoOrder
    <3> HIDE DEF r
    <3>3. n \in Quantities /\ n <= r.rem /\ n <= incoming.rem
      BY <2>6, <3>1, <3>2, BookAssumption
      DEF AtLevel, TradeQty, RestingOrder, Order, Quantities, r
    <3>4. [r EXCEPT !.rem = r.rem - n] \in RestingOrder
      BY <3>1, <3>3, BookAssumption DEF RestingOrder, Order, Quantities
    <3>5. [incoming EXCEPT !.rem = incoming.rem - n] \in Order
      BY <3>2, <3>3, BookAssumption DEF Order, Quantities
    <3> QED
      BY <3>1, <3>2, <3>3, <3>4, <3>5 DEF r
  <2>7. CASE ExecuteTrade
    <3> DEFINE side == Opposite(incoming.side)
    <3>1. PICK p \in Prices :
            LET r == Head(book[side][p])
                n == TradeQty(r)
            IN  /\ AtLevel(p)
                /\ r.rem > 0
                /\ r.id # incoming.id
                /\ incoming' = [incoming EXCEPT !.rem = @ - n]
                /\ book' = [book EXCEPT ![side][p] = FrontFilled(@, n)]
                /\ trades' = Append(trades,
                      [id |-> nextTradeId,
                       resting |-> r.id, aggressor |-> incoming.id,
                       restingTrader |-> r.trader,
                       aggressorTrader |-> incoming.trader,
                       price |-> p, qty |-> n])
                /\ nextTradeId' = nextTradeId + 1
                /\ filled' = [filled EXCEPT ![r.id] = @ + n,
                                            ![incoming.id] = @ + n]
                /\ UNCHANGED <<stp, pc, old>>
      BY <2>7 DEF ExecuteTrade
    <3> DEFINE r == Head(book[side][p])
               n == TradeQty(r)
    <3>2. /\ r \in RestingOrder
          /\ r = book[side][p][1]
          /\ 1 \in DOMAIN book[side][p]
          /\ incoming \in Order
          /\ n \in Quantities
          /\ [r EXCEPT !.rem = r.rem - n] \in RestingOrder
          /\ [incoming EXCEPT !.rem = incoming.rem - n] \in Order
      BY <2>6, <3>1
    <3>3. FrontFilled(book[side][p], n) \in Seq(RestingOrder)
      <4>1. Tail(book[side][p]) \in Seq(RestingOrder)
        BY <1>b, <2>s, <3>1, FrontType DEF AtLevel, IsFront
      <4>2. [book[side][p] EXCEPT ![1] = [r EXCEPT !.rem = r.rem - n]]
              \in Seq(RestingOrder)
        BY <1>b, <2>s, <3>2, LenProperties, ExceptSeq DEF BookType
      <4>3. [book[side][p] EXCEPT ![1].rem = @ - n] =
              [book[side][p] EXCEPT ![1] = [r EXCEPT !.rem = r.rem - n]]
        BY <3>2
      <4> QED
        BY <4>1, <4>2, <4>3 DEF FrontFilled
    <3>4. book' \in BookType
      BY <1>b, <2>s, <3>1, <3>3, LevelUpdate
    <3>5. incoming' \in Order
      BY <3>1, <3>2
    <3>6. trades' \in Seq(Trade)
      <4> DEFINE t == [id |-> nextTradeId,
                       resting |-> r.id, aggressor |-> incoming.id,
                       restingTrader |-> r.trader,
                       aggressorTrader |-> incoming.trader,
                       price |-> p, qty |-> n]
      <4>1. t \in Trade
        BY <3>2 DEF Trade, TypeOK, RestingOrder, Order
      <4> HIDE DEF t
      <4>2. trades' = Append(trades, t)
        BY <3>1 DEF t
      <4> QED
        BY <4>1, <4>2, AppendProperties DEF TypeOK
    <3>7. filled' \in [OrderIds -> Nat]
      <4> HIDE DEF n, r
      <4>1. n \in Nat
        BY <3>2, BookAssumption DEF Quantities
      <4>2. filled' = [filled EXCEPT ![r.id] = @ + n, ![incoming.id] = @ + n]
        BY <3>1 DEF n, r
      <4>3. r.id \in OrderIds /\ incoming.id \in OrderIds
        BY <3>2 DEF RestingOrder, Order
      <4>4. filled \in [OrderIds -> Nat]
        BY DEF TypeOK
      <4>5. [filled EXCEPT ![r.id] = @ + n] \in [OrderIds -> Nat]
        BY <4>1, <4>3, <4>4
      <4> QED
        BY <4>1, <4>2, <4>3, <4>4, <4>5
    <3>8. nextTradeId' = nextTradeId + 1 /\ UNCHANGED <<stp, pc, old>>
      BY <3>1
    <3> QED
      BY <2>e, <3>4, <3>5, <3>6, <3>7, <3>8
      DEF engineVars, TypeOK, BookType
  <2>8. CASE TradeThrows
    <3> DEFINE side == Opposite(incoming.side)
    <3>1. PICK p \in Prices :
            LET r == Head(book[side][p])
                n == TradeQty(r)
            IN  /\ AtLevel(p)
                /\ r.rem > 0
                /\ book' = [book EXCEPT ![side][p][1].rem = @ - n]
      BY <2>8 DEF TradeThrows
    <3> DEFINE r == Head(book[side][p])
               n == TradeQty(r)
    <3>2. /\ r \in RestingOrder
          /\ r = book[side][p][1]
          /\ 1 \in DOMAIN book[side][p]
          /\ [r EXCEPT !.rem = r.rem - n] \in RestingOrder
      BY <2>6, <3>1
    <3>3. [book[side][p] EXCEPT ![1] = [r EXCEPT !.rem = r.rem - n]]
            \in Seq(RestingOrder)
      BY <1>b, <2>s, <3>2, LenProperties, ExceptSeq DEF BookType
    <3>4. book' = [book EXCEPT ![side][p] =
                     [book[side][p] EXCEPT ![1] = [r EXCEPT !.rem = r.rem - n]]]
      BY <3>1, <3>2
    <3>5. book' \in BookType
      BY <1>b, <2>s, <3>3, <3>4, LevelUpdate
    <3> QED
      BY <2>8, <2>e, <3>5 DEF TradeThrows, engineVars, TypeOK, BookType
  <2> QED
    BY <2>e, <2>1, <2>3, <2>4, <2>5, <2>7, <2>8 DEF MatchOrder
<1> QED
  BY <1>1, <1>2, <1>3, <1>4, <1>5, <1>6, <1>7, <1>8, <1>9, <1>10 DEF Next

\* Every reachable state is well typed; in particular only LIMIT orders rest,
\* and no quantity ever goes below zero or above MaxQty.
THEOREM TypeCorrect == Spec => []TypeOK
<1>1. Init => TypeOK
  BY EngineAssumption DEF Init, BookInit, TypeOK, STPPolicies
<1>2. TypeOK /\ [Next]_vars => TypeOK'
  BY TypeStep
<1> QED
  BY <1>1, <1>2, PTL DEF Spec

-----------------------------------------------------------------------------
(* The book is never crossed *)

\* Price levels that exist after a step existed before it.
NoNewLevel ==
    \A s \in Sides, r \in Prices : book'[s][r] # <<>> => book[s][r] # <<>>

\* Changing the queue of a level that exists opens no level.
LEMMA UpdateOpensNoLevel ==
  ASSUME book \in BookType, NEW side \in Sides, NEW p \in Prices, NEW q,
         book[side][p] # <<>>,
         book' = [book EXCEPT ![side][p] = q]
  PROVE  NoNewLevel
  BY DEF NoNewLevel, BookType

\* Erasing an order never puts one at a price that had none.
LEMMA ErasingOpensNoLevel ==
  ASSUME book \in BookType, NEW side \in Sides, NEW p \in Prices,
         NEW i \in DOMAIN book[side][p],
         book' = Erased(side, p, i)
  PROVE  NoNewLevel
<1>1. book[side][p] # <<>>
  BY DEF BookType
<1> QED
  BY <1>1, UpdateOpensNoLevel DEF Erased

\* The only step that can open a level is the one that rests an order.
LEMMA OnlyRestingOpensLevels ==
  ASSUME TypeOK, [Next]_vars, ~EndMatch
  PROVE  NoNewLevel
<1>b. book \in BookType
  BY DEF TypeOK, BookType
<1>1. CASE book' = book
  BY <1>1 DEF NoNewLevel
<1>2. CASE CancelOrder
  BY <1>b, <1>2, ErasingOpensNoLevel DEF CancelOrder, cancelOrder
<1>3. CASE ReplaceOrder
  <2>1. PICK id \in OrderIds, side \in Sides, p \in Prices, price \in Prices,
             qty \in 0 .. MaxQty :
          \E i \in DOMAIN book[side][p] :
            replaceOrder(side, p, i, price, qty,
                         ReplacePriority(book[side][p][i], price, qty))
    BY <1>3 DEF ReplaceOrder
  <2>2. PICK i \in DOMAIN book[side][p] :
            replaceOrder(side, p, i, price, qty,
                         ReplacePriority(book[side][p][i], price, qty))
    BY <2>1
  <2>3. CASE book' = Erased(side, p, i)
    BY <1>b, <2>3, ErasingOpensNoLevel
  <2>4. CASE ReplaceInPlace(side, p, i, qty)
    <3>1. book[side][p] # <<>>
      BY <1>b DEF BookType
    <3>2. PICK q : book' = [book EXCEPT ![side][p] = q]
      BY <2>4 DEF ReplaceInPlace
    <3> QED
      BY <1>b, <3>1, <3>2, UpdateOpensNoLevel
  <2> QED
    BY <2>2, <2>3, <2>4 DEF replaceOrder, ReplaceByCancel, ReplaceByRematch
<1>4. CASE Match
  <2>s. Opposite(incoming.side) \in Sides
    BY OppositeType
  <2>1. CASE StpCancelOldest \/ PurgeOwn
    BY <1>b, <2>s, <2>1, ErasingOpensNoLevel
    DEF StpCancelOldest, PurgeOwn, EraseFirstOwn
  <2>2. CASE PopFilled \/ ExecuteTrade \/ TradeThrows
    <3>1. PICK p \in Prices :
            /\ AtLevel(p)
            /\ \E q : book' = [book EXCEPT ![Opposite(incoming.side)][p] = q]
      BY <2>2 DEF PopFilled, ExecuteTrade, TradeThrows
    <3>2. book[Opposite(incoming.side)][p] # <<>>
      BY <3>1 DEF AtLevel, IsFront
    <3> QED
      BY <1>b, <2>s, <3>1, <3>2, UpdateOpensNoLevel
  <2>3. CASE RejectFOK \/ EnterLoop \/ StpCancelNewest \/ StpCancelBoth \/ PurgeEnd
    BY <1>1, <2>3 DEF RejectFOK, EnterLoop, StpCancelNewest, StpCancelBoth, PurgeEnd
  <2> QED
    BY <1>4, <2>1, <2>2, <2>3 DEF Match, MatchOrder
<1> QED
  BY <1>1, <1>2, <1>3, <1>4
  DEF Next, ProcessOrder, ReplaceFails, PriorityExhausted, Halt, SetSTPPolicy,
      setSTPPolicy, PublishEvent, Return, vars, bookVars

\* No step crosses the book: only resting an order opens a level, and the
\* matching loop has then emptied every opposite level it would cross.
LEMMA UncrossedStep ==
  TypeOK /\ BookUncrossed /\ [Next]_vars => BookUncrossed'
<1> SUFFICES ASSUME TypeOK, BookUncrossed, [Next]_vars PROVE BookUncrossed'
  OBVIOUS
<1>b. book \in BookType
  BY DEF TypeOK, BookType
<1>1. CASE NoNewLevel
  BY <1>1 DEF NoNewLevel, BookUncrossed, Sides
<1>2. CASE EndMatch /\ ~NoNewLevel
  <2> DEFINE side == incoming.side
             price == incoming.price
  <2>1. /\ incoming.rem > 0 /\ incoming.type = "LIMIT"
        /\ book' = [book EXCEPT ![side][price] = Append(@, incoming)]
    BY <1>2 DEF EndMatch, addOrder, Joined, NoNewLevel
  <2>2. side \in Sides /\ price \in Prices
    BY <2>1 DEF TypeOK, Order, NoOrder
  <2>3. \A p \in Prices :
            book[Opposite(side)][p] # <<>> =>
                IF side = "BUY" THEN price < p ELSE price > p
    BY <1>2, <2>1, <2>2, BookAssumption DEF EndMatch, Crosses
  <2>4. \A s \in Sides, r \in Prices :
            (s # side \/ r # price) => book'[s][r] = book[s][r]
    BY <1>b, <2>1, <2>2 DEF BookType
  <2>5. CASE side = "BUY"
    BY <2>3, <2>4, <2>5 DEF BookUncrossed, Opposite, Sides
  <2>6. CASE side = "SELL"
    BY <2>3, <2>4, <2>6, BookAssumption DEF BookUncrossed, Opposite, Sides
  <2> QED
    BY <2>2, <2>5, <2>6 DEF Sides
<1> QED
  BY <1>1, <1>2, OnlyRestingOpensLevels

\* Whatever the clients do, with reused order ids, exhausted pools, exceptions
\* and every self-trade policy included, no bid ever reaches an ask.
THEOREM NeverCrossed == Spec => []BookUncrossed
<1>1. Init => BookUncrossed
  BY DEF Init, BookInit, BookUncrossed, Sides
<1>2. Spec => []TypeOK
  BY TypeCorrect
<1>3. TypeOK /\ BookUncrossed /\ [Next]_vars => BookUncrossed'
  BY UncrossedStep
<1> QED
  BY <1>1, <1>2, <1>3, PTL DEF Spec

-----------------------------------------------------------------------------
(* Identities and fills.  When order ids are not reused, the invariant      *)
(* below is inductive: it adds to the two properties what the order in      *)
(* flight owes the book, and that an id not yet submitted has no fills.     *)

Clash(a, b) == a.id = b.id \/ a.prio = b.prio

Accounted(o) ==
    o.id \in used /\ o.prio < priority /\ AlreadyFilled(o) = filled[o.id]

AllAccounted ==
    \A s \in Sides, r \in Prices : \A i \in DOMAIN book[s][r] :
        Accounted(book[s][r][i])

NoClash ==
    \A s1, s2 \in Sides, r1, r2 \in Prices :
        \A i \in DOMAIN book[s1][r1], j \in DOMAIN book[s2][r2] :
            Clash(book[s1][r1][i], book[s2][r2][j]) =>
                s1 = s2 /\ r1 = r2 /\ i = j

\* The order being matched is not in the book.
InFlightApart ==
    pc \in {"begin", "match"} =>
        /\ incoming \in Order
        /\ Accounted(incoming)
        /\ \A s \in Sides, r \in Prices : \A i \in DOMAIN book[s][r] :
               ~Clash(incoming, book[s][r][i])

IncomingFilled ==
    incoming # NoOrder => AlreadyFilled(incoming) = filled[incoming.id]

UnusedUnfilled == \A id \in OrderIds \ used : filled[id] = 0

Identities ==
    AllAccounted /\ NoClash /\ InFlightApart /\ IncomingFilled /\ UnusedUnfilled

\* Every entry of the new book has the id and the priority of an entry of the
\* old book at the same price, and different entries of different ones.
Inherits ==
    \A s \in Sides, r \in Prices :
        \E f \in [DOMAIN book'[s][r] -> DOMAIN book[s][r]] :
            /\ \A i, j \in DOMAIN book'[s][r] : f[i] = f[j] => i = j
            /\ \A i \in DOMAIN book'[s][r] :
                   /\ book'[s][r][i].id = book[s][r][f[i]].id
                   /\ book'[s][r][i].prio = book[s][r][f[i]].prio

\* Ids and priorities stay distinct when every entry of the new book stems
\* from an entry of the old one at a place of its own.
LEMMA InheritedNoClash ==
  ASSUME NoClash, Inherits
  PROVE  NoClash'
<1> SUFFICES ASSUME NEW s1 \in Sides, NEW s2 \in Sides,
                    NEW r1 \in Prices, NEW r2 \in Prices,
                    NEW i \in DOMAIN book'[s1][r1], NEW j \in DOMAIN book'[s2][r2],
                    Clash(book'[s1][r1][i], book'[s2][r2][j])
             PROVE  s1 = s2 /\ r1 = r2 /\ i = j
  BY DEF NoClash
<1>1. PICK f \in [DOMAIN book'[s1][r1] -> DOMAIN book[s1][r1]] :
          /\ \A k, l \in DOMAIN book'[s1][r1] : f[k] = f[l] => k = l
          /\ \A k \in DOMAIN book'[s1][r1] :
                 /\ book'[s1][r1][k].id = book[s1][r1][f[k]].id
                 /\ book'[s1][r1][k].prio = book[s1][r1][f[k]].prio
  BY DEF Inherits
<1>2. PICK k \in DOMAIN book[s2][r2] :
          /\ book'[s2][r2][j].id = book[s2][r2][k].id
          /\ book'[s2][r2][j].prio = book[s2][r2][k].prio
          /\ s1 = s2 /\ r1 = r2 => k = f[j]
  <2>1. CASE s1 = s2 /\ r1 = r2
    BY <1>1, <2>1
  <2>2. CASE ~(s1 = s2 /\ r1 = r2)
    <3>1. PICK g \in [DOMAIN book'[s2][r2] -> DOMAIN book[s2][r2]] :
              \A k \in DOMAIN book'[s2][r2] :
                  /\ book'[s2][r2][k].id = book[s2][r2][g[k]].id
                  /\ book'[s2][r2][k].prio = book[s2][r2][g[k]].prio
      BY DEF Inherits
    <3>2. g[j] \in DOMAIN book[s2][r2]
      BY <3>1
    <3> QED
      BY <2>2, <3>1, <3>2
  <2> QED
    BY <2>1, <2>2
<1>3. Clash(book[s1][r1][f[i]], book[s2][r2][k])
  BY <1>1, <1>2 DEF Clash
<1>4. s1 = s2 /\ r1 = r2 /\ f[i] = k
  BY <1>1, <1>3 DEF NoClash
<1> QED
  BY <1>1, <1>2, <1>4

\* Erasing an entry: the others are inherited unchanged.
LEMMA ErasedEntries ==
  ASSUME book \in BookType, NEW side \in Sides, NEW p \in Prices,
         NEW k \in DOMAIN book[side][p],
         book' = Erased(side, p, k)
  PROVE  /\ Inherits
         /\ \A s \in Sides, r \in Prices : \A i \in DOMAIN book'[s][r] :
                \E j \in DOMAIN book[s][r] :
                    /\ book'[s][r][i] = book[s][r][j]
                    /\ ~(s = side /\ r = p /\ j = k)
<1>1. \A s \in Sides, r \in Prices :
         book'[s][r] = IF s = side /\ r = p THEN RemoveAt(book[side][p], k)
                                            ELSE book[s][r]
  BY ErasedType
<1> SUFFICES ASSUME NEW s \in Sides, NEW r \in Prices
             PROVE  \E f \in [DOMAIN book'[s][r] -> DOMAIN book[s][r]] :
                      /\ \A i, j \in DOMAIN book'[s][r] : f[i] = f[j] => i = j
                      /\ \A i \in DOMAIN book'[s][r] :
                            /\ book'[s][r][i] = book[s][r][f[i]]
                            /\ ~(s = side /\ r = p /\ f[i] = k)
  BY DEF Inherits
<1>2. CASE s = side /\ r = p
  <2> DEFINE q == book[side][p]
             f == [i \in DOMAIN book'[s][r] |-> IF i < k THEN i ELSE i + 1]
  <2>1. q \in Seq(RestingOrder)
    BY DEF BookType
  <2>2. Len(q) \in Nat /\ DOMAIN q = 1 .. Len(q) /\ k \in 1 .. Len(q)
    BY <2>1, LenProperties
  <2> HIDE DEF q
  <2>3. /\ RemoveAt(q, k) \in Seq(RestingOrder)
        /\ Len(RemoveAt(q, k)) = Len(q) - 1
        /\ \A i \in 1 .. Len(q) - 1 :
               RemoveAt(q, k)[i] = IF i < k THEN q[i] ELSE q[i + 1]
    BY <2>1, <2>2, RemoveAtProperties
  <2>4. book'[s][r] = RemoveAt(q, k) /\ book[s][r] = q
    BY <1>1, <1>2 DEF q
  <2>5. DOMAIN book'[s][r] = 1 .. Len(q) - 1
    BY <2>3, <2>4, LenProperties
  <2>6. f \in [DOMAIN book'[s][r] -> DOMAIN book[s][r]]
    BY <2>2, <2>4, <2>5
  <2>7. \A i, j \in DOMAIN book'[s][r] : f[i] = f[j] => i = j
    BY <2>2, <2>5
  <2>8. \A i \in DOMAIN book'[s][r] :
            book'[s][r][i] = book[s][r][f[i]] /\ f[i] # k
    BY <2>2, <2>3, <2>4, <2>5
  <2> QED
    BY <2>6, <2>7, <2>8
<1>3. CASE ~(s = side /\ r = p)
  <2>1. book'[s][r] = book[s][r]
    BY <1>1, <1>3
  <2> DEFINE f == [i \in DOMAIN book'[s][r] |-> i]
  <2> QED
    <3>1. f \in [DOMAIN book'[s][r] -> DOMAIN book[s][r]]
      BY <2>1
    <3> QED
      BY <1>3, <2>1, <3>1
<1> QED
  BY <1>2, <1>3

\* Giving one entry new contents but its old id and priority.
Modified(side, p, k, o) ==
    [book EXCEPT ![side][p] = [book[side][p] EXCEPT ![k] = o]]

\* What an entry becomes when one order of the book is changed in place.
LEMMA ModifiedEntry ==
  ASSUME book \in BookType, NEW side \in Sides, NEW p \in Prices,
         NEW k \in DOMAIN book[side][p], NEW o \in RestingOrder,
         o.id = book[side][p][k].id, o.prio = book[side][p][k].prio,
         book' = Modified(side, p, k, o)
  PROVE  /\ Inherits
         /\ \A s \in Sides, r \in Prices :
                /\ DOMAIN book'[s][r] = DOMAIN book[s][r]
                /\ \A i \in DOMAIN book[s][r] :
                       book'[s][r][i] = IF s = side /\ r = p /\ i = k
                                        THEN o ELSE book[s][r][i]
<1>1. \A s \in Sides, r \in Prices :
         book'[s][r] = IF s = side /\ r = p
                       THEN [book[side][p] EXCEPT ![k] = o] ELSE book[s][r]
  <2>1. book[side][p] \in Seq(RestingOrder)
    BY DEF BookType
  <2> DEFINE q == [book[side][p] EXCEPT ![k] = o]
  <2>2. q \in Seq(RestingOrder)
    BY <2>1, LenProperties, ExceptSeq
  <2>3. book' = [book EXCEPT ![side][p] = q]
    BY DEF Modified
  <2>4. \A s \in Sides, r \in Prices :
           book'[s][r] = IF s = side /\ r = p THEN q ELSE book[s][r]
    <3> HIDE DEF q
    <3> QED
      BY <2>2, <2>3, LevelUpdate
  <2> QED
    BY <2>4
<1>2. \A s \in Sides, r \in Prices :
         /\ DOMAIN book'[s][r] = DOMAIN book[s][r]
         /\ \A i \in DOMAIN book[s][r] :
                book'[s][r][i] = IF s = side /\ r = p /\ i = k
                                 THEN o ELSE book[s][r][i]
  BY <1>1 DEF BookType
<1>3. ASSUME NEW s \in Sides, NEW r \in Prices
      PROVE  \E f \in [DOMAIN book'[s][r] -> DOMAIN book[s][r]] :
               /\ \A i, j \in DOMAIN book'[s][r] : f[i] = f[j] => i = j
               /\ \A i \in DOMAIN book'[s][r] :
                      /\ book'[s][r][i].id = book[s][r][f[i]].id
                      /\ book'[s][r][i].prio = book[s][r][f[i]].prio
  <2> DEFINE f == [i \in DOMAIN book'[s][r] |-> i]
  <2>1. f \in [DOMAIN book'[s][r] -> DOMAIN book[s][r]]
    BY <1>2
  <2>2. \A i \in DOMAIN book'[s][r] :
            /\ book'[s][r][i].id = book[s][r][f[i]].id
            /\ book'[s][r][i].prio = book[s][r][f[i]].prio
    BY <1>2
  <2> QED
    BY <2>1, <2>2
<1> QED
  BY <1>2, <1>3 DEF Inherits

\* Accounts carry over when ids and priorities in use only grow and no fill
\* is recorded.
LEMMA AccountedStable ==
  ASSUME TypeOK, TypeOK', filled' = filled, used \subseteq used',
         priority <= priority', NEW o \in Order, Accounted(o)
  PROVE  Accounted(o)'
  BY EngineAssumption DEF Accounted, AlreadyFilled, TypeOK, Order

\* Steps that leave the book, the order in flight and the fills alone.
LEMMA QuietIdentities ==
  ASSUME Identities, book' = book, filled' = filled, used' = used,
         priority \in Nat, priority' \in Nat, priority <= priority',
         TypeOK, TypeOK',
         incoming' \in {incoming, NoOrder},
         pc' \in {"begin", "match"} =>
             pc \in {"begin", "match"} /\ incoming' = incoming
  PROVE  Identities'
<1>1. \A s \in Sides, r \in Prices : \A i \in DOMAIN book[s][r] :
          book[s][r][i] \in Order
  BY EntryType DEF TypeOK, BookType, RestingOrder
<1>2. AllAccounted'
  BY <1>1, AccountedStable DEF AllAccounted, Identities
<1>3. NoClash'
  BY DEF NoClash, Identities
<1>4. InFlightApart'
  BY AccountedStable DEF InFlightApart, Identities
<1>5. IncomingFilled' /\ UnusedUnfilled'
  BY DEF IncomingFilled, UnusedUnfilled, Identities
<1> QED
  BY <1>2, <1>3, <1>4, <1>5 DEF Identities

\* Steps that erase one entry and leave the order in flight and the fills.
LEMMA ErasingIdentities ==
  ASSUME Identities, TypeOK, TypeOK', filled' = filled, used' = used,
         priority' = priority,
         NEW side \in Sides, NEW p \in Prices, NEW k \in DOMAIN book[side][p],
         book' = Erased(side, p, k),
         incoming' \in {incoming, NoOrder},
         pc' \in {"begin", "match"} =>
             pc \in {"begin", "match"} /\ incoming' = incoming
  PROVE  Identities'
<1>b. book \in BookType
  BY DEF TypeOK, BookType
<1>e. /\ Inherits
      /\ \A s \in Sides, r \in Prices : \A i \in DOMAIN book'[s][r] :
             \E j \in DOMAIN book[s][r] : book'[s][r][i] = book[s][r][j]
  BY <1>b, ErasedEntries
<1>1. AllAccounted'
  BY <1>e DEF AllAccounted, Accounted, Identities
<1>2. NoClash'
  BY <1>e, InheritedNoClash DEF Identities
<1>3. InFlightApart'
  BY <1>e DEF InFlightApart, Accounted, Identities
<1>4. IncomingFilled' /\ UnusedUnfilled'
  BY DEF IncomingFilled, UnusedUnfilled, Identities
<1> QED
  BY <1>1, <1>2, <1>3, <1>4 DEF Identities

\* A new order: its id was never used and its priority is above all others.
LEMMA ProcessIdentities ==
  ASSUME FreshIds, Identities, TypeOK, TypeOK', ProcessOrder
  PROVE  Identities'
<1>1. PICK o \in NewOrders :
        /\ incoming' = [id |-> o.id, trader |-> o.trader, side |-> o.side,
                        type |-> o.type, price |-> o.price, qty |-> o.qty,
                        rem |-> o.qty, prio |-> priority]
        /\ used' = used \cup {o.id}
  BY DEF ProcessOrder, StartMatch
<1>2. /\ book' = book /\ filled' = filled /\ priority' = priority + 1
      /\ priority \in Nat
  BY EngineAssumption DEF ProcessOrder, tryNextPriority, TypeOK
<1>3. o.id \in OrderIds /\ o.id \notin used /\ o.qty \in Nat
  BY BookAssumption DEF NewOrders, Quantities
<1>4. /\ incoming'.id = o.id /\ incoming'.prio = priority
      /\ incoming'.qty = o.qty /\ incoming'.rem = o.qty
      /\ incoming' \in Order
  <2>1. incoming'.qty # 0
    BY <1>1, BookAssumption DEF NewOrders, Quantities
  <2> QED
    BY <1>1, <2>1 DEF TypeOK, NoOrder
<1>5. filled[o.id] = 0
  BY <1>3 DEF Identities, UnusedUnfilled
<1>6. Accounted(incoming)'
  BY <1>1, <1>2, <1>3, <1>4, <1>5 DEF Accounted, AlreadyFilled
<1>7. \A s \in Sides, r \in Prices : \A i \in DOMAIN book[s][r] :
          /\ book[s][r][i] \in Order
          /\ Accounted(book[s][r][i])
  BY EntryType DEF TypeOK, BookType, RestingOrder, Identities, AllAccounted
<1>8. AllAccounted'
  BY <1>1, <1>2, <1>7, AccountedStable DEF AllAccounted
<1>9. NoClash'
  BY <1>2 DEF NoClash, Identities
<1>10. ASSUME NEW s \in Sides, NEW r \in Prices, NEW i \in DOMAIN book[s][r]
       PROVE  ~Clash(incoming', book[s][r][i])
  <2>1. /\ book[s][r][i].id \in used
        /\ book[s][r][i].prio < priority
        /\ book[s][r][i].prio \in Nat
    BY <1>7 DEF Accounted, Order
  <2> QED
    BY <1>2, <1>3, <1>4, <2>1 DEF Clash
<1>11. InFlightApart'
  BY <1>2, <1>4, <1>6, <1>10 DEF InFlightApart
<1>12. IncomingFilled' /\ UnusedUnfilled'
  BY <1>1, <1>2, <1>6 DEF IncomingFilled, Accounted, UnusedUnfilled, Identities
<1> QED
  BY <1>8, <1>9, <1>11, <1>12 DEF Identities

\* Joining a queue changes no other entry.
LEMMA JoinedEntries ==
  ASSUME book \in BookType, NEW o \in RestingOrder
  PROVE  \A s \in Sides, r \in Prices : \A i \in DOMAIN Joined(o)[s][r] :
           \/ i \in DOMAIN book[s][r] /\ Joined(o)[s][r][i] = book[s][r][i]
           \/ /\ s = o.side /\ r = o.price /\ Joined(o)[s][r][i] = o
              /\ i = Len(book[o.side][o.price]) + 1
<1> DEFINE side == o.side
           p == o.price
           q == book[side][p]
           a == Append(q, o)
<1>1. side \in Sides /\ p \in Prices
  BY DEF RestingOrder, Order
<1>2. q \in Seq(RestingOrder) /\ Len(q) \in Nat /\ DOMAIN q = 1 .. Len(q)
  BY <1>1, LenProperties DEF BookType
<1>3. /\ a \in Seq(RestingOrder)
      /\ DOMAIN a = 1 .. Len(q) + 1
      /\ \A i \in 1 .. Len(q) : a[i] = q[i]
      /\ a[Len(q) + 1] = o
  BY <1>2, AppendProperties, LenProperties
<1>4. Joined(o) = [book EXCEPT ![side][p] = a]
  BY DEF Joined
<1> HIDE DEF a, side, p
<1>5. \A s \in Sides, r \in Prices :
          Joined(o)[s][r] = IF s = side /\ r = p THEN a ELSE book[s][r]
  BY <1>1, <1>3, <1>4, LevelUpdate
<1> SUFFICES ASSUME NEW s \in Sides, NEW r \in Prices,
                    NEW i \in DOMAIN Joined(o)[s][r]
             PROVE  \/ /\ i \in DOMAIN book[s][r]
                       /\ Joined(o)[s][r][i] = book[s][r][i]
                    \/ /\ s = side /\ r = p /\ Joined(o)[s][r][i] = o
                       /\ i = Len(q) + 1
  BY DEF side, p
<1>6. CASE s = side /\ r = p
  <2>1. Joined(o)[s][r] = a /\ book[s][r] = q
    BY <1>5, <1>6
  <2> HIDE DEF q
  <2>2. i \in 1 .. Len(q) \/ i = Len(q) + 1
    BY <1>2, <1>3, <2>1
  <2> QED
    BY <1>2, <1>3, <1>6, <2>1, <2>2
<1>7. CASE ~(s = side /\ r = p)
  BY <1>5, <1>7
<1> QED
  BY <1>6, <1>7

\* What is left of the incoming order joins the back of a queue.
LEMMA RestingIdentities ==
  ASSUME Identities, TypeOK, TypeOK', pc = "match", pc' = "done",
         filled' = filled, used' = used, priority' = priority,
         incoming' = incoming, incoming \in RestingOrder,
         book' = Joined(incoming)
  PROVE  Identities'
<1> DEFINE n == Len(book[incoming.side][incoming.price])
<1>5. \A s \in Sides, r \in Prices : \A i \in DOMAIN book'[s][r] :
        \/ i \in DOMAIN book[s][r] /\ book'[s][r][i] = book[s][r][i]
        \/ /\ s = incoming.side /\ r = incoming.price
           /\ book'[s][r][i] = incoming /\ i = n + 1
  <2>1. book \in BookType
    BY DEF TypeOK, BookType
  <2>2. \A s \in Sides, r \in Prices : \A i \in DOMAIN Joined(incoming)[s][r] :
           \/ /\ i \in DOMAIN book[s][r]
              /\ Joined(incoming)[s][r][i] = book[s][r][i]
           \/ /\ s = incoming.side /\ r = incoming.price
              /\ Joined(incoming)[s][r][i] = incoming
              /\ i = n + 1
    BY <2>1, JoinedEntries
  <2> QED
    BY <2>2
<1> HIDE DEF n
<1>6. Accounted(incoming)' /\ \A s \in Sides, r \in Prices :
        \A i \in DOMAIN book[s][r] : ~Clash(incoming, book[s][r][i])
  BY DEF Identities, InFlightApart, Accounted
<1>7. AllAccounted'
  <2> SUFFICES ASSUME NEW s \in Sides, NEW r \in Prices, NEW i \in DOMAIN book'[s][r]
               PROVE  Accounted(book[s][r][i])'
    BY DEF AllAccounted
  <2>1. CASE i \in DOMAIN book[s][r] /\ book'[s][r][i] = book[s][r][i]
    <3>1. Accounted(book[s][r][i])
      BY <2>1 DEF AllAccounted, Identities
    <3> QED
      BY <2>1, <3>1 DEF Accounted
  <2>2. CASE book'[s][r][i] = incoming
    BY <1>6, <2>2 DEF Accounted
  <2> QED
    BY <1>5, <2>1, <2>2
<1>8. NoClash'
  <2> SUFFICES ASSUME NEW s1 \in Sides, NEW s2 \in Sides,
                      NEW r1 \in Prices, NEW r2 \in Prices,
                      NEW i \in DOMAIN book'[s1][r1], NEW j \in DOMAIN book'[s2][r2],
                      Clash(book'[s1][r1][i], book'[s2][r2][j])
               PROVE  s1 = s2 /\ r1 = r2 /\ i = j
    BY DEF NoClash
  <2>1. CASE /\ i \in DOMAIN book[s1][r1] /\ book'[s1][r1][i] = book[s1][r1][i]
             /\ j \in DOMAIN book[s2][r2] /\ book'[s2][r2][j] = book[s2][r2][j]
    BY <2>1 DEF NoClash, Identities
  <2>2. CASE /\ i \in DOMAIN book[s1][r1] /\ book'[s1][r1][i] = book[s1][r1][i]
             /\ book'[s2][r2][j] = incoming
    BY <1>6, <2>2 DEF Clash
  <2>3. CASE /\ book'[s1][r1][i] = incoming
             /\ j \in DOMAIN book[s2][r2] /\ book'[s2][r2][j] = book[s2][r2][j]
    BY <1>6, <2>3 DEF Clash
  <2>4. CASE /\ s1 = incoming.side /\ r1 = incoming.price /\ i = n + 1
             /\ s2 = incoming.side /\ r2 = incoming.price /\ j = n + 1
    BY <2>4
  <2> QED
    BY <1>5, <2>1, <2>2, <2>3, <2>4
<1>9. InFlightApart' /\ IncomingFilled' /\ UnusedUnfilled'
  BY DEF InFlightApart, IncomingFilled, UnusedUnfilled, Identities
<1> QED
  BY <1>7, <1>8, <1>9 DEF Identities

\* The order a replace takes out comes back under its own id, with its own
\* priority or a new one.
LEMMA RematchIdentities ==
  ASSUME Identities, TypeOK, TypeOK', filled' = filled, used' = used,
         priority' \in {priority, priority + 1},
         NEW side \in Sides, NEW p \in Prices, NEW k \in DOMAIN book[side][p],
         book' = Erased(side, p, k),
         incoming' \in Order,
         incoming'.id = book[side][p][k].id,
         \/ incoming'.prio = book[side][p][k].prio
         \/ incoming'.prio = priority /\ priority' = priority + 1,
         AlreadyFilled(incoming') = AlreadyFilled(book[side][p][k])
  PROVE  Identities'
<1> DEFINE o == book[side][p][k]
<1>b. book \in BookType /\ priority \in Nat
  BY EngineAssumption DEF TypeOK, BookType
<1>e. /\ Inherits
      /\ \A s \in Sides, r \in Prices : \A i \in DOMAIN book'[s][r] :
             \E j \in DOMAIN book[s][r] :
                 /\ book'[s][r][i] = book[s][r][j]
                 /\ ~(s = side /\ r = p /\ j = k)
  BY <1>b, ErasedEntries
<1>t. \A s \in Sides, r \in Prices : \A i \in DOMAIN book[s][r] :
          /\ book[s][r][i].prio \in Nat
          /\ Accounted(book[s][r][i])
  BY <1>b, EntryType DEF RestingOrder, Order, Identities, AllAccounted
<1>1. AllAccounted'
  <2> SUFFICES ASSUME NEW s \in Sides, NEW r \in Prices, NEW i \in DOMAIN book'[s][r]
               PROVE  Accounted(book[s][r][i])'
    BY DEF AllAccounted
  <2>1. PICK j \in DOMAIN book[s][r] : book'[s][r][i] = book[s][r][j]
    BY <1>e
  <2> QED
    BY <1>b, <1>t, <2>1 DEF Accounted
<1>2. NoClash'
  BY <1>e, InheritedNoClash DEF Identities
<1>3. Accounted(incoming)'
  BY <1>b, <1>t DEF Accounted, AlreadyFilled
<1>4. ASSUME NEW s \in Sides, NEW r \in Prices, NEW i \in DOMAIN book'[s][r]
      PROVE  ~Clash(incoming', book'[s][r][i])
  <2>1. PICK j \in DOMAIN book[s][r] :
            /\ book'[s][r][i] = book[s][r][j]
            /\ ~(s = side /\ r = p /\ j = k)
    BY <1>e
  <2>2. ~Clash(o, book[s][r][j])
    BY <2>1 DEF NoClash, Identities
  <2>3. book[s][r][j].prio < priority /\ book[s][r][j].prio \in Nat
    BY <1>t DEF Accounted
  <2> QED
    BY <1>b, <2>1, <2>2, <2>3 DEF Clash
<1>5. InFlightApart'
  BY <1>3, <1>4 DEF InFlightApart
<1>6. IncomingFilled' /\ UnusedUnfilled'
  BY <1>3 DEF IncomingFilled, Accounted, UnusedUnfilled, Identities
<1> QED
  BY <1>1, <1>2, <1>5, <1>6 DEF Identities

\* Popping the front entry is erasing the entry at place 1.
LEMMA TailIsErase ==
  ASSUME NEW S, NEW q \in Seq(S), q # <<>>
  PROVE  Tail(q) = RemoveAt(q, 1)
<1>1. Len(q) \in Nat /\ DOMAIN q = 1 .. Len(q) /\ Len(q) # 0
  BY LenProperties, EmptySeq
<1>2. 1 \in DOMAIN q
  BY <1>1
<1>3. /\ RemoveAt(q, 1) \in Seq(S)
      /\ Len(RemoveAt(q, 1)) = Len(q) - 1
      /\ \A k \in 1 .. Len(q) - 1 : RemoveAt(q, 1)[k] = q[k + 1]
  <2>1. /\ RemoveAt(q, 1) \in Seq(S)
        /\ Len(RemoveAt(q, 1)) = Len(q) - 1
        /\ \A k \in 1 .. Len(q) - 1 :
               RemoveAt(q, 1)[k] = IF k < 1 THEN q[k] ELSE q[k + 1]
    BY <1>2, RemoveAtProperties
  <2>2. \A k \in 1 .. Len(q) - 1 : ~(k < 1)
    BY <1>1
  <2> QED
    BY <2>1, <2>2
<1>4. /\ Tail(q) \in Seq(S)
      /\ Len(Tail(q)) = Len(q) - 1
      /\ \A k \in 1 .. Len(Tail(q)) : Tail(q)[k] = q[k + 1]
  BY HeadTailProperties
<1> DEFINE t == Tail(q)
           u == RemoveAt(q, 1)
<1>5. /\ t \in Seq(S) /\ u \in Seq(S) /\ Len(t) = Len(u)
      /\ \A k \in 1 .. Len(t) : t[k] = u[k]
  BY <1>3, <1>4
<1> HIDE DEF t, u
<1>6. t = u
  BY <1>5, SeqEqual
<1> QED
  BY <1>6 DEF t, u

\* After the step the entry x at (side, p, k) has traded n more or is gone,
\* and every other entry is as it was.
EntryTraded(side, p, k, x, n) ==
    \A s \in Sides, r \in Prices : \A i \in DOMAIN book'[s][r] :
        \/ \E j \in DOMAIN book[s][r] :
               /\ book'[s][r][i] = book[s][r][j]
               /\ ~(s = side /\ r = p /\ j = k)
        \/ /\ book'[s][r][i].id = x.id
           /\ book'[s][r][i].prio = x.prio
           /\ AlreadyFilled(book'[s][r][i]) = AlreadyFilled(x) + n

\* A trade books the same quantity on both orders, and on no other.
LEMMA TradeIdentities ==
  ASSUME Identities, TypeOK, TypeOK', pc = "match", used' = used,
         priority' = priority,
         NEW side \in Sides, NEW p \in Prices, NEW k \in DOMAIN book[side][p],
         NEW x \in Order, x = book[side][p][k], NEW n \in Nat,
         incoming' \in Order,
         incoming'.id = incoming.id, incoming'.prio = incoming.prio,
         AlreadyFilled(incoming') = AlreadyFilled(incoming) + n,
         filled' = [filled EXCEPT ![x.id] = @ + n, ![incoming.id] = @ + n],
         Inherits,
         EntryTraded(side, p, k, x, n)
  PROVE  Identities'
<1>1. /\ Accounted(x) /\ Accounted(incoming) /\ incoming \in Order
      /\ ~Clash(incoming, x)
  BY DEF Identities, AllAccounted, InFlightApart
<1>2. /\ x.id \in OrderIds /\ incoming.id \in OrderIds /\ x.id # incoming.id
      /\ filled \in [OrderIds -> Nat]
  BY <1>1 DEF Clash, Order, TypeOK
<1>3. /\ filled'[x.id] = filled[x.id] + n
      /\ filled'[incoming.id] = filled[incoming.id] + n
      /\ \A id \in OrderIds : id # x.id /\ id # incoming.id => filled'[id] = filled[id]
  BY <1>2
<1>4. Accounted(incoming)'
  BY <1>1, <1>3 DEF Accounted, AlreadyFilled
<1>5. ASSUME NEW s \in Sides, NEW r \in Prices, NEW j \in DOMAIN book[s][r]
      PROVE  /\ Accounted(book[s][r][j])
             /\ ~Clash(incoming, book[s][r][j])
             /\ book[s][r][j].id \in OrderIds
             /\ ~(s = side /\ r = p /\ j = k) => book[s][r][j].id # x.id
  <2>1. book[s][r][j] \in RestingOrder
    BY EntryType DEF TypeOK, BookType
  <2>2. /\ Accounted(book[s][r][j])
        /\ ~Clash(incoming, book[s][r][j])
    BY DEF Identities, AllAccounted, InFlightApart
  <2>3. ~(s = side /\ r = p /\ j = k) => book[s][r][j].id # x.id
    BY DEF Identities, NoClash, Clash
  <2> QED
    BY <2>1, <2>2, <2>3 DEF RestingOrder, Order
<1>6. ASSUME NEW s \in Sides, NEW r \in Prices, NEW i \in DOMAIN book'[s][r]
      PROVE  /\ Accounted(book[s][r][i])'
             /\ ~Clash(incoming', book'[s][r][i])
  <2>1. CASE \E j \in DOMAIN book[s][r] :
                /\ book'[s][r][i] = book[s][r][j]
                /\ ~(s = side /\ r = p /\ j = k)
    <3>1. PICK j \in DOMAIN book[s][r] :
                /\ book'[s][r][i] = book[s][r][j]
                /\ ~(s = side /\ r = p /\ j = k)
      BY <2>1
    <3>2. filled'[book[s][r][j].id] = filled[book[s][r][j].id]
      <4> DEFINE id == book[s][r][j].id
      <4>1. id \in OrderIds /\ id # x.id /\ id # incoming.id
        BY <1>5, <3>1 DEF Clash
      <4> HIDE DEF id
      <4>2. filled'[id] = filled[id]
        BY <1>3, <4>1
      <4> QED
        BY <4>2 DEF id
    <3> QED
      BY <1>5, <3>1, <3>2 DEF Accounted, Clash
  <2>2. CASE /\ book'[s][r][i].id = x.id
             /\ book'[s][r][i].prio = x.prio
             /\ AlreadyFilled(book'[s][r][i]) = AlreadyFilled(x) + n
    BY <1>1, <1>3, <2>2 DEF Accounted, Clash
  <2> QED
    BY <2>1, <2>2 DEF EntryTraded
<1>7. AllAccounted' /\ InFlightApart'
  BY <1>4, <1>6 DEF AllAccounted, InFlightApart
<1>8. NoClash'
  BY InheritedNoClash DEF Identities
<1>9. IncomingFilled'
  BY <1>4 DEF IncomingFilled, Accounted
<1>10. UnusedUnfilled'
  BY <1>1, <1>3 DEF UnusedUnfilled, Accounted, Identities
<1> QED
  BY <1>7, <1>8, <1>9, <1>10 DEF Identities

\* The loop's trade step, in terms of TradeIdentities.
LEMMA ExecuteTradeIdentities ==
  ASSUME Identities, TypeOK, TypeOK', ExecuteTrade, UNCHANGED engineVars
  PROVE  Identities'
<1> DEFINE side == Opposite(incoming.side)
<1>b. book \in BookType /\ side \in Sides
  BY OppositeType DEF TypeOK, BookType
<1>1. PICK p \in Prices :
        LET x == Head(book[side][p])
            n == TradeQty(x)
        IN  /\ AtLevel(p)
            /\ x.rem > 0
            /\ incoming' = [incoming EXCEPT !.rem = @ - n]
            /\ book' = [book EXCEPT ![side][p] = FrontFilled(@, n)]
            /\ filled' = [filled EXCEPT ![x.id] = @ + n, ![incoming.id] = @ + n]
  BY DEF ExecuteTrade
<1> DEFINE q == book[side][p]
           x == Head(q)
           n == TradeQty(x)
<1>2. /\ x = q[1] /\ x \in RestingOrder /\ 1 \in DOMAIN q
      /\ q \in Seq(RestingOrder) /\ q # <<>>
      /\ pc = "match" /\ incoming.rem > 0
  BY <1>b, <1>1, FrontType DEF AtLevel, IsFront, BookType
<1>3. incoming \in Order
  BY <1>2 DEF TypeOK, NoOrder
<1>4. n \in Nat /\ n > 0 /\ n <= x.rem /\ n <= incoming.rem
  BY <1>1, <1>2, <1>3, BookAssumption DEF TradeQty, RestingOrder, Order
<1>5. /\ incoming' \in Order
      /\ incoming'.id = incoming.id /\ incoming'.prio = incoming.prio
      /\ AlreadyFilled(incoming') = AlreadyFilled(incoming) + n
  <2> HIDE DEF n
  <2>1. incoming' = [incoming EXCEPT !.rem = incoming.rem - n]
    BY <1>1 DEF n
  <2> QED
    BY <1>3, <1>4, <2>1, BookAssumption DEF Order, AlreadyFilled, Quantities
<1>6. filled' = [filled EXCEPT ![x.id] = @ + n, ![incoming.id] = @ + n]
  BY <1>1
<1>7. book' = [book EXCEPT ![side][p] = FrontFilled(q, n)]
  BY <1>1
<1> HIDE DEF side, q, x, n
<1>8. Inherits /\ EntryTraded(side, p, 1, x, n)
  <2>1. CASE x.rem = n
    <3>1. FrontFilled(q, n) = RemoveAt(q, 1)
      BY <1>2, <2>1, TailIsErase DEF FrontFilled, x
    <3>2. book' = Erased(side, p, 1)
      BY <1>7, <3>1 DEF Erased, q
    <3>3. 1 \in DOMAIN book[side][p]
      BY <1>2 DEF q
    <3> QED
      BY <1>b, <3>2, <3>3, ErasedEntries DEF EntryTraded
  <2>2. CASE x.rem # n
    <3> DEFINE y == [x EXCEPT !.rem = x.rem - n]
    <3>1. /\ y \in RestingOrder /\ y.id = x.id /\ y.prio = x.prio
          /\ AlreadyFilled(y) = AlreadyFilled(x) + n
      <4>1. x.qty \in 1 .. MaxQty /\ x.rem \in 0 .. MaxQty /\ x.rem <= x.qty
        BY <1>2 DEF RestingOrder, Order, Quantities
      <4>2. x.rem - n \in 0 .. MaxQty /\ x.rem - n <= x.qty
        BY <1>4, <4>1, BookAssumption
      <4>3. /\ y \in RestingOrder /\ y.id = x.id /\ y.prio = x.prio
            /\ y.qty = x.qty /\ y.rem = x.rem - n
        BY <1>2, <4>2 DEF RestingOrder, Order
      <4>4. x.qty - (x.rem - n) = (x.qty - x.rem) + n
        BY <1>4, <4>1, BookAssumption
      <4> QED
        BY <4>3, <4>4 DEF AlreadyFilled
    <3>2. FrontFilled(q, n) = [q EXCEPT ![1] = y]
      BY <1>2, <2>2 DEF FrontFilled, x
    <3> HIDE DEF y
    <3>3. book' = Modified(side, p, 1, y)
      BY <1>7, <3>2 DEF q, Modified
    <3>4. /\ 1 \in DOMAIN book[side][p]
          /\ y.id = book[side][p][1].id /\ y.prio = book[side][p][1].prio
      BY <1>2, <3>1 DEF q
    <3>5. /\ Inherits
          /\ \A s \in Sides, r \in Prices :
                /\ DOMAIN book'[s][r] = DOMAIN book[s][r]
                /\ \A i \in DOMAIN book[s][r] :
                       book'[s][r][i] = IF s = side /\ r = p /\ i = 1
                                        THEN y ELSE book[s][r][i]
      BY <1>b, <3>1, <3>3, <3>4, ModifiedEntry
    <3>6. ASSUME NEW s \in Sides, NEW r \in Prices, NEW i \in DOMAIN book'[s][r]
          PROVE  \/ \E j \in DOMAIN book[s][r] :
                        /\ book'[s][r][i] = book[s][r][j]
                        /\ ~(s = side /\ r = p /\ j = 1)
                 \/ book'[s][r][i] = y
      BY <3>5
    <3> QED
      BY <3>1, <3>5, <3>6 DEF EntryTraded
  <2> QED
    BY <2>1, <2>2
<1>9. /\ 1 \in DOMAIN book[side][p] /\ x = book[side][p][1] /\ x \in Order
      /\ used' = used /\ priority' = priority
  BY <1>2 DEF q, RestingOrder, engineVars
<1> QED
  BY <1>b, <1>2, <1>4, <1>5, <1>6, <1>8, <1>9, TradeIdentities

\* The three ways to replace an order.
LEMMA ReplaceIdentities ==
  ASSUME Identities, TypeOK, TypeOK', ReplaceOrder
  PROVE  Identities'
<1>b. book \in BookType /\ priority \in Nat
  BY EngineAssumption DEF TypeOK, BookType
<1>1. PICK id \in OrderIds, side \in Sides, p \in Prices, price \in Prices,
           qty \in 0 .. MaxQty :
        \E i \in DOMAIN book[side][p] :
          /\ ReplaceCall(id, side, p, i, price, qty)
          /\ replaceOrder(side, p, i, price, qty,
                          ReplacePriority(book[side][p][i], price, qty))
  BY DEF ReplaceOrder
<1>2. PICK i \in DOMAIN book[side][p] :
          /\ ReplaceCall(id, side, p, i, price, qty)
          /\ replaceOrder(side, p, i, price, qty,
                          ReplacePriority(book[side][p][i], price, qty))
  BY <1>1
<1> DEFINE o == book[side][p][i]
           prio == ReplacePriority(o, price, qty)
<1>3. o \in RestingOrder /\ Accounted(o)
  BY <1>b, EntryType DEF Identities, AllAccounted
<1>4. /\ filled' = filled /\ used' = used
      /\ \/ prio = o.prio /\ priority' = priority
         \/ prio = priority /\ priority' = priority + 1
  BY <1>2 DEF replaceOrder, ReplaceCall, ReplacePriority, tryNextPriority
<1>5. CASE qty = 0 /\ ReplaceByCancel(side, p, i)
  <2>1. priority' = priority
    BY <1>2, <1>5 DEF ReplaceCall, NeedsPriority
  <2>2. book' = Erased(side, p, i) /\ incoming' = NoOrder /\ pc' = "done"
    BY <1>5 DEF ReplaceByCancel
  <2> QED
    BY <1>4, <2>1, <2>2, ErasingIdentities
<1>6. CASE /\ qty > 0 /\ price = p /\ qty < o.qty
           /\ ReplaceInPlace(side, p, i, qty)
  <2> DEFINE new == [o EXCEPT !.qty = qty, !.rem = qty - AlreadyFilled(o)]
  <2>1. /\ new.id = o.id /\ new.prio = o.prio
        /\ AlreadyFilled(new) = AlreadyFilled(o)
    BY <1>3, BookAssumption DEF RestingOrder, Order, AlreadyFilled, Quantities
  <2>2. book' = Modified(side, p, i, new)
    BY <1>6 DEF ReplaceInPlace, Modified
  <2>3. incoming' = new /\ pc' = "done"
    BY <1>6 DEF ReplaceInPlace
  <2>4. new.type = "LIMIT" /\ NoOrder.type = "MARKET"
    BY <1>3 DEF RestingOrder, Order, NoOrder
  <2>5. new \in Order
    BY <2>3, <2>4 DEF TypeOK
  <2>6. new \in RestingOrder
    BY <2>4, <2>5 DEF RestingOrder
  <2> HIDE DEF new
  <2>7. /\ Inherits
        /\ \A s \in Sides, r \in Prices :
               /\ DOMAIN book'[s][r] = DOMAIN book[s][r]
               /\ \A j \in DOMAIN book[s][r] :
                      book'[s][r][j] = IF s = side /\ r = p /\ j = i
                                       THEN new ELSE book[s][r][j]
    BY <1>b, <2>1, <2>2, <2>6, ModifiedEntry
  <2>8. priority <= priority'
    BY <1>b, <1>4
  <2>9. Accounted(new)
    BY <1>3, <2>1 DEF Accounted
  <2>10. ASSUME NEW s \in Sides, NEW r \in Prices, NEW j \in DOMAIN book'[s][r]
         PROVE  Accounted(book[s][r][j])'
    <3>1. j \in DOMAIN book[s][r] /\ book'[s][r][j] \in {new, book[s][r][j]}
      BY <2>7
    <3>2. book[s][r][j] \in RestingOrder /\ Accounted(book[s][r][j])
      BY <1>b, <3>1, EntryType DEF Identities, AllAccounted
    <3>3. PICK y \in Order : Accounted(y) /\ book'[s][r][j] = y
      BY <2>5, <2>9, <3>1, <3>2 DEF RestingOrder
    <3>4. Accounted(y)'
      BY <1>4, <2>8, <3>3, AccountedStable
    <3> QED
      BY <3>3, <3>4 DEF Accounted
  <2>11. AllAccounted'
    BY <2>10 DEF AllAccounted
  <2>12. NoClash'
    BY <2>7, InheritedNoClash DEF Identities
  <2>13. InFlightApart' /\ UnusedUnfilled'
    BY <1>4, <2>3 DEF InFlightApart, UnusedUnfilled, Identities
  <2>14. IncomingFilled'
    BY <1>4, <2>3, <2>9 DEF IncomingFilled, Accounted
  <2> QED
    BY <2>11, <2>12, <2>13, <2>14 DEF Identities
<1>7. CASE qty > 0 /\ ReplaceByRematch(side, p, i, price, qty, prio)
  <2> HIDE DEF prio
  <2> DEFINE new == [o EXCEPT !.price = price, !.qty = qty,
                              !.rem = qty - AlreadyFilled(o), !.prio = prio]
  <2>1. /\ new.id = o.id /\ new.prio = prio /\ new.type = "LIMIT"
        /\ AlreadyFilled(new) = AlreadyFilled(o)
    BY <1>3, BookAssumption DEF RestingOrder, Order, AlreadyFilled, Quantities
  <2>2. book' = Erased(side, p, i) /\ incoming' = new
    BY <1>7 DEF ReplaceByRematch
  <2>3. new \in Order
    BY <2>1, <2>2 DEF TypeOK, NoOrder
  <2> HIDE DEF new
  <2> QED
    BY <1>b, <1>4, <2>1, <2>2, <2>3, RematchIdentities
<1> QED
  BY <1>2, <1>5, <1>6, <1>7 DEF replaceOrder

\* Every step keeps the inductive invariant Identities when clients do not
\* reuse order ids.
LEMMA IdentitiesStep ==
  FreshIds /\ TypeOK /\ TypeOK' /\ Identities /\ [Next]_vars => Identities'
<1> SUFFICES ASSUME FreshIds, TypeOK, TypeOK', Identities, [Next]_vars
             PROVE  Identities'
  OBVIOUS
<1>p. priority \in Nat /\ priority' \in Nat
  BY EngineAssumption DEF TypeOK
<1>1. CASE ProcessOrder
  BY <1>1, ProcessIdentities
<1>2. CASE CancelOrder
  <2>1. PICK side \in Sides, p \in Prices :
          \E i \in DOMAIN book[side][p] : book' = Erased(side, p, i)
    BY <1>2 DEF CancelOrder, cancelOrder
  <2>2. /\ filled' = filled /\ used' = used /\ priority' = priority
        /\ incoming' = incoming /\ pc' = "done"
    BY <1>2 DEF CancelOrder, cancelOrder, engineVars
  <2> QED
    BY <2>1, <2>2, ErasingIdentities
<1>3. CASE ReplaceOrder
  BY <1>3, ReplaceIdentities
<1>4. CASE ReplaceFails
  <2>1. /\ UNCHANGED bookVars /\ used' = used
        /\ priority' = priority \/ priority' = priority + 1
    BY <1>4 DEF ReplaceFails, ReplaceCall, tryNextPriority
  <2>2. priority <= priority'
    BY <1>p, <2>1
  <2> QED
    BY <1>p, <2>1, <2>2, QuietIdentities DEF bookVars
<1>5. CASE \/ PriorityExhausted \/ SetSTPPolicy \/ PublishEvent \/ Return
           \/ UNCHANGED vars
  <2>1. /\ book' = book /\ filled' = filled /\ used' = used
        /\ priority' = priority
        /\ incoming' \in {incoming, NoOrder}
        /\ pc' \in {"begin", "match"} => pc' = pc /\ incoming' = incoming
    BY <1>5 DEF PriorityExhausted, Halt, SetSTPPolicy, setSTPPolicy,
                PublishEvent, Return, vars, bookVars, engineVars
  <2> QED
    BY <1>p, <2>1, QuietIdentities
<1>6. CASE Match
  <2>e. /\ UNCHANGED engineVars /\ MatchOrder
        /\ used' = used /\ priority' = priority
    BY <1>6 DEF Match, engineVars
  <2>s. Opposite(incoming.side) \in Sides
    BY OppositeType
  <2>1. CASE RejectFOK \/ EnterLoop \/ StpCancelNewest \/ StpCancelBoth \/ PurgeEnd
    <3>1. /\ book' = book /\ filled' = filled /\ incoming' = incoming
          /\ pc' \in {"begin", "match"} => pc \in {"begin", "match"}
      BY <2>1 DEF RejectFOK, EnterLoop, StpCancelNewest, StpCancelBoth, PurgeEnd
    <3> QED
      BY <1>p, <2>e, <3>1, QuietIdentities
  <2>2. CASE StpCancelOldest \/ PurgeOwn
    <3>1. /\ filled' = filled /\ incoming' = incoming
          /\ pc' \in {"begin", "match"} => pc \in {"begin", "match"}
      BY <2>2 DEF StpCancelOldest, PurgeOwn
    <3>2. PICK p \in Prices : \E i \in DOMAIN book[Opposite(incoming.side)][p] :
              book' = Erased(Opposite(incoming.side), p, i)
      BY <2>2 DEF StpCancelOldest, PurgeOwn, EraseFirstOwn
    <3> QED
      BY <2>e, <2>s, <3>1, <3>2, ErasingIdentities
  <2>3. CASE PopFilled
    <3> DEFINE side == Opposite(incoming.side)
    <3>1. PICK p \in Prices :
            AtLevel(p) /\ book' = [book EXCEPT ![side][p] = Tail(@)]
      BY <2>3 DEF PopFilled
    <3>2. book[side][p] # <<>> /\ pc = "match"
      BY <3>1 DEF AtLevel, IsFront
    <3>3. book[side][p] \in Seq(RestingOrder) /\ 1 \in DOMAIN book[side][p]
      BY <2>s, <3>2, FrontType DEF TypeOK, BookType
    <3>4. Tail(book[side][p]) = RemoveAt(book[side][p], 1)
      BY <3>2, <3>3, TailIsErase
    <3>5. book' = Erased(side, p, 1)
      BY <3>1, <3>4 DEF Erased
    <3>6. filled' = filled /\ incoming' = incoming /\ pc' = pc
      BY <2>3 DEF PopFilled
    <3> HIDE DEF side
    <3>7. side \in Sides
      BY <2>s DEF side
    <3> QED
      BY <2>e, <3>3, <3>5, <3>6, <3>7, ErasingIdentities
  <2>4. CASE ExecuteTrade
    BY <2>4, <2>e, ExecuteTradeIdentities
  <2>5. CASE TradeThrows
    <3> DEFINE side == Opposite(incoming.side)
    <3>1. PICK p \in Prices :
            AtLevel(p) /\ Head(book[side][p]).id = incoming.id
      BY <2>5 DEF TradeThrows
    <3>2. book[side][p] # <<>> /\ pc = "match"
      BY <3>1 DEF AtLevel, IsFront
    <3>3. /\ 1 \in DOMAIN book[side][p]
          /\ Head(book[side][p]) = book[side][p][1]
      BY <2>s, <3>2, FrontType DEF TypeOK, BookType
    <3>4. ~Clash(incoming, book[side][p][1])
      BY <2>s, <3>2, <3>3 DEF Identities, InFlightApart
    <3> QED
      BY <3>1, <3>3, <3>4 DEF Clash
  <2>6. CASE EndMatch
    <3>1. /\ filled' = filled /\ incoming' = incoming
          /\ pc = "match" /\ pc' = "done"
      BY <2>6 DEF EndMatch
    <3>2. CASE book' = book
      BY <1>p, <2>e, <3>1, <3>2, QuietIdentities
    <3>3. CASE /\ incoming.rem > 0 /\ incoming.type = "LIMIT"
               /\ book' = Joined(incoming)
      <4>1. incoming \in RestingOrder
        BY <3>3 DEF TypeOK, RestingOrder, NoOrder
      <4> QED
        BY <2>e, <3>1, <3>3, <4>1, RestingIdentities
    <3> QED
      BY <2>6, <3>2, <3>3 DEF EndMatch, addOrder
  <2> QED
    BY <2>e, <2>1, <2>2, <2>3, <2>4, <2>5, <2>6 DEF MatchOrder
<1> QED
  BY <1>1, <1>2, <1>3, <1>4, <1>5, <1>6 DEF Next

\* The strengthened invariant, for clients that do not reuse order ids.
LEMMA IdentitiesInvariant == Spec => [](FreshIds => Identities)
<1>1. Init => Identities
  <2> SUFFICES ASSUME Init PROVE Identities
    OBVIOUS
  <2>1. \A s \in Sides, r \in Prices : book[s][r] = <<>>
    BY DEF Init, BookInit
  <2>2. AllAccounted /\ NoClash
    BY <2>1 DEF AllAccounted, NoClash
  <2>3. InFlightApart /\ IncomingFilled /\ UnusedUnfilled
    BY DEF Init, BookInit, InFlightApart, IncomingFilled, UnusedUnfilled
  <2> QED
    BY <2>2, <2>3 DEF Identities
<1>2. Spec => []TypeOK
  BY TypeCorrect
<1>3. TypeOK /\ TypeOK' /\ (FreshIds => Identities) /\ [Next]_vars
        => (FreshIds => Identities)'
  BY IdentitiesStep
<1> QED
  BY <1>1, <1>2, <1>3, PTL DEF Spec

\* No order ever loses or gains quantity except by its trades, through any
\* sequence of partial fills, reductions and re-matching replaces.
THEOREM FillsAccounted == Spec => []FilledMatchesTrades
<1>1. (FreshIds => Identities) => FilledMatchesTrades
  BY DEF Identities, AllAccounted, Accounted, IncomingFilled, FilledMatchesTrades
<1> QED
  BY <1>1, IdentitiesInvariant, PTL

\* An order rests in one place only and holds a priority value of its own.
THEOREM RestingOrdersUnique == Spec => []RestingUnique
<1>1. (FreshIds => Identities) => RestingUnique
  BY DEF Identities, NoClash, Clash, RestingUnique
<1> QED
  BY <1>1, IdentitiesInvariant, PTL

-----------------------------------------------------------------------------
(* The front of the book *)

\* The front entry of the front level comes first on its side: no entry at a
\* better price, none before it at its own.
LEMMA FrontComesFirst ==
  ASSUME book \in BookType, NEW side \in Sides, NEW p \in Prices,
         IsFront(side, p), NEW q \in Prices, NEW j \in DOMAIN book[side][q]
  PROVE  ~Before(side, q, j, p, 1)
<1>1. book[side][q] \in Seq(RestingOrder)
  BY DEF BookType
<1>2. book[side][q] # <<>> /\ ~(j < 1)
  BY <1>1
<1> QED
  BY <1>2 DEF IsFront, Before

\* Only a trade makes the list of trades longer.
LEMMA OnlyTradesLengthen ==
  ASSUME TypeOK, [Next]_vars, ~ExecuteTrade
  PROVE  trades' \in {trades, <<>>}
<1>1. CASE Match
  BY <1>1 DEF Match, MatchOrder, RejectFOK, EnterLoop, StpCancelNewest,
     StpCancelOldest, StpCancelBoth, PurgeOwn, PurgeEnd, PopFilled, TradeThrows,
     EndMatch
<1>2. CASE ReplaceOrder
  BY <1>2 DEF ReplaceOrder, replaceOrder
<1> QED
  BY <1>1, <1>2
  DEF Next, ProcessOrder, CancelOrder, cancelOrder, ReplaceFails,
      PriorityExhausted, Halt, SetSTPPolicy, setSTPPolicy, PublishEvent, Return,
      vars, bookVars

-----------------------------------------------------------------------------
(* Queues are first in, first out *)

\* r has, in order and with no repetition, entries with ids of entries of q.
Thins(q, r) ==
    \E f \in [DOMAIN r -> DOMAIN q] :
        /\ \A k, l \in DOMAIN r : k < l => f[k] < f[l]
        /\ \A k \in DOMAIN r : r[k].id = q[f[k]].id

\* A queue whose entries are some of the old ones in the old order has kept
\* their places, if no other entry has the id of one that was there.
LEMMA ThinnedKeepsPlaces ==
  ASSUME NEW q, NEW r, Thins(q, r)
  PROVE  KeepsPlaces(q, r)
<1>1. PICK f \in [DOMAIN r -> DOMAIN q] :
        /\ \A k, l \in DOMAIN r : k < l => f[k] < f[l]
        /\ \A k \in DOMAIN r : r[k].id = q[f[k]].id
  BY DEF Thins
<1> SUFFICES ASSUME NEW k \in DOMAIN r, NEW l \in DOMAIN r, k < l
             PROVE  \E i, j \in DOMAIN q :
                        i < j /\ q[i].id = r[k].id /\ q[j].id = r[l].id
  BY DEF KeepsPlaces
<1>2. f[k] \in DOMAIN q /\ f[l] \in DOMAIN q
  BY <1>1
<1> QED
  BY <1>1, <1>2

\* A queue of which nothing but contents other than ids changed.
LEMMA SameIdsKeepPlaces ==
  ASSUME NEW q, NEW r, DOMAIN r = DOMAIN q,
         \A k \in DOMAIN r : r[k].id = q[k].id
  PROVE  KeepsPlaces(q, r)
  BY DEF KeepsPlaces

\* erase_at keeps the order of the others.
LEMMA ErasingKeepsPlaces ==
  ASSUME NEW q \in Seq(RestingOrder), NEW i \in DOMAIN q
  PROVE  KeepsPlaces(q, RemoveAt(q, i))
<1> DEFINE r == RemoveAt(q, i)
           f == [k \in DOMAIN r |-> IF k < i THEN k ELSE k + 1]
<1>1. /\ r \in Seq(RestingOrder)
      /\ Len(r) = Len(q) - 1
      /\ \A k \in 1 .. Len(q) - 1 : r[k] = IF k < i THEN q[k] ELSE q[k + 1]
  BY RemoveAtProperties
<1> HIDE DEF r
<1>2. DOMAIN r = 1 .. Len(q) - 1 /\ DOMAIN q = 1 .. Len(q) /\ Len(q) \in Nat
  BY <1>1, LenProperties
<1>3. f \in [DOMAIN r -> DOMAIN q]
  BY <1>2
<1>4. \A k, l \in DOMAIN r : k < l => f[k] < f[l]
  BY <1>2
<1>5. \A k \in DOMAIN r : r[k].id = q[f[k]].id
  BY <1>1, <1>2
<1>6. Thins(q, r)
  BY <1>3, <1>4, <1>5 DEF Thins
<1> QED
  BY <1>6, ThinnedKeepsPlaces DEF r

\* push_back goes behind all that stay, when the id is new to the queue.
LEMMA JoiningKeepsPlaces ==
  ASSUME NEW q \in Seq(RestingOrder), NEW o,
         \A j \in DOMAIN q : q[j].id # o.id
  PROVE  KeepsPlaces(q, Append(q, o))
<1> DEFINE r == Append(q, o)
<1>1. /\ Len(q) \in Nat /\ DOMAIN q = 1 .. Len(q)
      /\ DOMAIN r = 1 .. Len(q) + 1
      /\ \A k \in 1 .. Len(q) : r[k] = q[k]
      /\ r[Len(q) + 1] = o
  BY LenProperties
<1> HIDE DEF r
<1> SUFFICES ASSUME NEW k \in DOMAIN r, NEW l \in DOMAIN r, k < l,
                    \E j \in DOMAIN q : q[j].id = r[l].id
             PROVE  \E i, j \in DOMAIN q :
                        i < j /\ q[i].id = r[k].id /\ q[j].id = r[l].id
  BY DEF KeepsPlaces, r
<1>2. l # Len(q) + 1
  BY <1>1
<1>3. k \in 1 .. Len(q) /\ l \in 1 .. Len(q)
  BY <1>1, <1>2
<1> QED
  BY <1>1, <1>3

\* Every queue of the new book keeps the places of the old one.
AllKeepPlaces ==
    \A side \in Sides, p \in Prices : KeepsPlaces(book[side][p], book'[side][p])

\* A change of one level, as far as the order of queues goes.
LEMMA LevelKeepsPlaces ==
  ASSUME book \in BookType, NEW side \in Sides, NEW p \in Prices,
         NEW q \in Seq(RestingOrder), KeepsPlaces(book[side][p], q),
         book' = [book EXCEPT ![side][p] = q]
  PROVE  AllKeepPlaces
<1> SUFFICES ASSUME NEW s \in Sides, NEW r \in Prices
             PROVE  KeepsPlaces(book[s][r], book'[s][r])
  BY DEF AllKeepPlaces
<1>1. book'[s][r] = IF s = side /\ r = p THEN q ELSE book[s][r]
  BY LevelUpdate
<1>2. CASE s = side /\ r = p
  BY <1>1, <1>2
<1>3. CASE ~(s = side /\ r = p)
  <2>1. book'[s][r] = book[s][r]
    BY <1>1, <1>3
  <2>2. KeepsPlaces(book[s][r], book[s][r])
    BY SameIdsKeepPlaces
  <2> QED
    BY <2>1, <2>2
<1> QED
  BY <1>2, <1>3

\* cancelOrder, the replaces and the self-trade purges.
LEMMA ErasedKeepsPlaces ==
  ASSUME book \in BookType, NEW side \in Sides, NEW p \in Prices,
         NEW i \in DOMAIN book[side][p],
         book' = Erased(side, p, i)
  PROVE  AllKeepPlaces
<1>1. book[side][p] \in Seq(RestingOrder)
  BY DEF BookType
<1>2. RemoveAt(book[side][p], i) \in Seq(RestingOrder)
  BY <1>1, RemoveAtProperties
<1>3. KeepsPlaces(book[side][p], RemoveAt(book[side][p], i))
  BY <1>1, ErasingKeepsPlaces
<1> QED
  BY <1>2, <1>3, LevelKeepsPlaces DEF Erased

\* Fills and in-place reductions.
LEMMA ModifiedKeepsPlaces ==
  ASSUME book \in BookType, NEW side \in Sides, NEW p \in Prices,
         NEW k \in DOMAIN book[side][p], NEW o \in RestingOrder,
         o.id = book[side][p][k].id,
         book' = Modified(side, p, k, o)
  PROVE  AllKeepPlaces
<1> DEFINE q == [book[side][p] EXCEPT ![k] = o]
<1>1. book[side][p] \in Seq(RestingOrder)
  BY DEF BookType
<1>2. q \in Seq(RestingOrder)
  BY <1>1, LenProperties, ExceptSeq
<1>3. DOMAIN q = DOMAIN book[side][p]
  BY <1>1
<1>4. \A l \in DOMAIN q : q[l].id = book[side][p][l].id
  BY <1>1
<1>5. book' = [book EXCEPT ![side][p] = q]
  BY DEF Modified
<1> HIDE DEF q
<1>6. KeepsPlaces(book[side][p], q)
  BY <1>3, <1>4, SameIdsKeepPlaces
<1> QED
  BY <1>2, <1>5, <1>6, LevelKeepsPlaces

-----------------------------------------------------------------------------
(* What a step does to the book *)

\* o is x with another quantity.
Resized(o, x) ==
    /\ o \in RestingOrder
    /\ o.id = x.id /\ o.trader = x.trader /\ o.prio = x.prio
    /\ o.side = x.side /\ o.price = x.price

ErasesEntry ==
    \E side \in Sides, p \in Prices : \E i \in DOMAIN book[side][p] :
        book' = Erased(side, p, i)

ResizesEntry ==
    \E side \in Sides, p \in Prices : \E k \in DOMAIN book[side][p] :
        \E o : Resized(o, book[side][p][k]) /\ book' = Modified(side, p, k, o)

JoinsIncoming ==
    /\ EndMatch
    /\ incoming \in RestingOrder
    /\ book' = Joined(incoming)

\* Taking the front entry off a queue erases it.
LEMMA PopErases ==
  ASSUME book \in BookType, NEW side \in Sides, NEW p \in Prices,
         book[side][p] # <<>>,
         book' = [book EXCEPT ![side][p] = Tail(book[side][p])]
  PROVE  ErasesEntry
<1>1. book[side][p] \in Seq(RestingOrder) /\ 1 \in DOMAIN book[side][p]
  BY FrontType DEF BookType
<1>2. Tail(book[side][p]) = RemoveAt(book[side][p], 1)
  BY <1>1, TailIsErase
<1>3. book' = Erased(side, p, 1)
  BY <1>2 DEF Erased
<1> QED
  BY <1>1, <1>3 DEF ErasesEntry

\* Taking n off the remaining quantity of the front entry resizes it.
LEMMA FillResizes ==
  ASSUME book \in BookType, NEW side \in Sides, NEW p \in Prices,
         book[side][p] # <<>>, NEW n \in Nat, n <= Head(book[side][p]).rem,
         book' = [book EXCEPT ![side][p] =
                    [book[side][p] EXCEPT ![1].rem = @ - n]]
  PROVE  ResizesEntry
<1> DEFINE q == book[side][p]
           x == q[1]
           y == [x EXCEPT !.rem = x.rem - n]
<1>1. /\ 1 \in DOMAIN q /\ x \in RestingOrder
      /\ n <= x.rem
  BY FrontType
<1>2. x.qty \in 1 .. MaxQty /\ x.rem \in 0 .. MaxQty /\ x.rem <= x.qty
  BY <1>1 DEF RestingOrder, Order, Quantities
<1>3. x.rem - n \in 0 .. MaxQty /\ x.rem - n <= x.qty
  BY <1>1, <1>2, BookAssumption
<1>4. Resized(y, x)
  BY <1>1, <1>3 DEF Resized, RestingOrder, Order
<1>5. [q EXCEPT ![1].rem = @ - n] = [q EXCEPT ![1] = y]
  BY <1>1
<1>6. book' = Modified(side, p, 1, y)
  BY <1>5 DEF Modified
<1> HIDE DEF y
<1> QED
  BY <1>1, <1>4, <1>6 DEF ResizesEntry

\* A step leaves the book alone, erases one entry, resizes one in place, or
\* puts the incoming order at the back of a queue; only EndMatch does the last.
LEMMA BookSteps ==
  ASSUME TypeOK, [Next]_vars
  PROVE  book' = book \/ ErasesEntry \/ ResizesEntry \/ JoinsIncoming
<1>b. book \in BookType
  BY DEF TypeOK, BookType
<1>1. CASE CancelOrder
  BY <1>1 DEF CancelOrder, cancelOrder, ErasesEntry
<1>2. CASE ReplaceOrder
  <2>1. PICK id \in OrderIds, side \in Sides, p \in Prices, price \in Prices,
             qty \in 0 .. MaxQty :
          \E i \in DOMAIN book[side][p] :
            replaceOrder(side, p, i, price, qty,
                         ReplacePriority(book[side][p][i], price, qty))
    BY <1>2 DEF ReplaceOrder
  <2>2. PICK i \in DOMAIN book[side][p] :
            replaceOrder(side, p, i, price, qty,
                         ReplacePriority(book[side][p][i], price, qty))
    BY <2>1
  <2>3. CASE book' = Erased(side, p, i)
    BY <2>3 DEF ErasesEntry
  <2>4. CASE qty > 0 /\ ReplaceInPlace(side, p, i, qty)
    <3> DEFINE o == book[side][p][i]
               new == [o EXCEPT !.qty = qty, !.rem = qty - AlreadyFilled(o)]
    <3>1. o \in RestingOrder /\ ~ReplaceRefused(o, qty)
      BY <1>b, <2>2, EntryType DEF replaceOrder
    <3>2. o.qty \in 1 .. MaxQty /\ o.rem \in 0 .. MaxQty /\ o.rem <= o.qty
      BY <3>1 DEF RestingOrder, Order, Quantities
    <3>3. /\ qty \in 1 .. MaxQty
          /\ qty - AlreadyFilled(o) \in 0 .. MaxQty
          /\ qty - AlreadyFilled(o) <= qty
      BY <2>4, <3>1, <3>2, BookAssumption DEF ReplaceRefused, AlreadyFilled
    <3>4. Resized(new, o)
      BY <3>1, <3>3 DEF Resized, RestingOrder, Order, Quantities
    <3>5. book' = Modified(side, p, i, new)
      BY <2>4 DEF ReplaceInPlace, Modified
    <3> HIDE DEF new
    <3> QED
      BY <3>4, <3>5 DEF ResizesEntry
  <2> QED
    BY <2>2, <2>3, <2>4 DEF replaceOrder, ReplaceByCancel, ReplaceByRematch
<1>3. CASE Match
  <2> DEFINE side == Opposite(incoming.side)
  <2>s. side \in Sides
    BY OppositeType
  <2>1. CASE StpCancelOldest \/ PurgeOwn
    BY <2>s, <2>1 DEF StpCancelOldest, PurgeOwn, EraseFirstOwn, ErasesEntry
  <2>2. CASE PopFilled
    <3>1. PICK p \in Prices :
            /\ AtLevel(p)
            /\ book' = [book EXCEPT ![side][p] = Tail(book[side][p])]
      BY <2>2 DEF PopFilled
    <3>2. book[side][p] # <<>>
      BY <3>1 DEF AtLevel, IsFront
    <3> HIDE DEF side
    <3> QED
      BY <1>b, <2>s, <3>1, <3>2, PopErases
  <2>3. CASE ExecuteTrade \/ TradeThrows
    <3>1. PICK p \in Prices :
            LET n == TradeQty(Head(book[side][p]))
            IN  /\ AtLevel(p)
                /\ Head(book[side][p]).rem > 0
                /\ \/ book' = [book EXCEPT ![side][p] = FrontFilled(@, n)]
                   \/ book' = [book EXCEPT ![side][p][1].rem = @ - n]
      BY <2>3 DEF ExecuteTrade, TradeThrows
    <3> DEFINE q == book[side][p]
               n == TradeQty(Head(q))
    <3>2. q # <<>> /\ incoming.rem > 0
      BY <3>1 DEF AtLevel, IsFront
    <3>3. Head(q) \in RestingOrder /\ incoming \in Order
      BY <1>b, <2>s, <3>2, FrontType DEF TypeOK, NoOrder
    <3>4. n \in Nat /\ n <= Head(q).rem
      BY <3>1, <3>2, <3>3, BookAssumption DEF TradeQty, RestingOrder, Order
    <3>5. \/ book' = [book EXCEPT ![side][p] = Tail(q)]
          \/ book' = [book EXCEPT ![side][p] = [q EXCEPT ![1].rem = @ - n]]
      BY <3>1 DEF FrontFilled
    <3> HIDE DEF side, n
    <3> QED
      BY <1>b, <2>s, <3>2, <3>4, <3>5, PopErases, FillResizes
  <2>4. CASE EndMatch
    BY <2>4 DEF EndMatch, addOrder, JoinsIncoming, TypeOK, RestingOrder, NoOrder
  <2>5. CASE RejectFOK \/ EnterLoop \/ StpCancelNewest \/ StpCancelBoth \/ PurgeEnd
    BY <2>5 DEF RejectFOK, EnterLoop, StpCancelNewest, StpCancelBoth, PurgeEnd
  <2> QED
    BY <1>3, <2>1, <2>2, <2>3, <2>4, <2>5 DEF Match, MatchOrder
<1> QED
  BY <1>1, <1>2, <1>3
  DEF Next, ProcessOrder, ReplaceFails, PriorityExhausted, Halt, SetSTPPolicy,
      setSTPPolicy, PublishEvent, Return, vars, bookVars

\* When order ids are not reused, no step changes the order of the orders of a
\* level or lets one join anywhere but at its back.
THEOREM QueuesStayFIFO ==
  ASSUME FreshIds
  PROVE  Spec => QueuesAreFIFO
<1>1. TypeOK /\ Identities /\ [Next]_vars => AllKeepPlaces
  <2> SUFFICES ASSUME TypeOK, Identities, [Next]_vars PROVE AllKeepPlaces
    OBVIOUS
  <2>b. book \in BookType
    BY DEF TypeOK, BookType
  <2>1. CASE book' = book
    BY <2>1, SameIdsKeepPlaces DEF AllKeepPlaces
  <2>2. CASE ErasesEntry
    BY <2>b, <2>2, ErasedKeepsPlaces DEF ErasesEntry
  <2>3. CASE ResizesEntry
    BY <2>b, <2>3, ModifiedKeepsPlaces DEF ResizesEntry, Resized
  <2>4. CASE JoinsIncoming
    <3> DEFINE side == incoming.side
               p == incoming.price
               q == book[side][p]
    <3>1. pc = "match" /\ incoming \in RestingOrder /\ book' = Joined(incoming)
      BY <2>4 DEF JoinsIncoming, EndMatch
    <3>2. side \in Sides /\ p \in Prices
      BY <3>1 DEF RestingOrder, Order
    <3>3. \A j \in DOMAIN q : q[j].id # incoming.id
      BY <3>1, <3>2 DEF Identities, InFlightApart, Clash
    <3>4. q \in Seq(RestingOrder) /\ Append(q, incoming) \in Seq(RestingOrder)
      BY <2>b, <3>1, <3>2, AppendProperties DEF BookType
    <3>5. KeepsPlaces(q, Append(q, incoming))
      <4> HIDE DEF q
      <4> QED
        BY <3>3, <3>4, JoiningKeepsPlaces
    <3>6. book' = [book EXCEPT ![side][p] = Append(q, incoming)]
      BY <3>1 DEF Joined
    <3> HIDE DEF side, p
    <3> QED
      BY <2>b, <3>2, <3>4, <3>5, <3>6, LevelKeepsPlaces
  <2> QED
    BY <2>1, <2>2, <2>3, <2>4, BookSteps
<1>2. Spec => [](TypeOK /\ Identities)
  BY TypeCorrect, IdentitiesInvariant, PTL
<1> QED
  BY <1>1, <1>2, PTL DEF Spec, QueuesAreFIFO, AllKeepPlaces

-----------------------------------------------------------------------------
(* Counting orders and quantities *)

\* A place of a book is a side, a price and a position in the queue there.
LEMMA PlaceOfEntry ==
  ASSUME NEW b, NEW e
  PROVE  e \in Entries(b) <=>
            \E side \in Sides, p \in Prices : \E i \in DOMAIN b[side][p] :
                e = <<side, p, i>>
<1>1. ASSUME e \in Entries(b)
      PROVE  \E side \in Sides, p \in Prices : \E i \in DOMAIN b[side][p] :
                 e = <<side, p, i>>
  <2>1. PICK k \in Sides \X Prices : \E i \in DOMAIN b[k[1]][k[2]] :
            e = <<k[1], k[2], i>>
    BY <1>1 DEF Entries
  <2> QED
    BY <2>1
<1>2. ASSUME NEW side \in Sides, NEW p \in Prices, NEW i \in DOMAIN b[side][p],
             e = <<side, p, i>>
      PROVE  e \in Entries(b)
  <2> DEFINE k == <<side, p>>
  <2>1. k \in Sides \X Prices /\ k[1] = side /\ k[2] = p
    OBVIOUS
  <2> HIDE DEF k
  <2>2. i \in DOMAIN b[k[1]][k[2]] /\ e = <<k[1], k[2], i>>
    BY <1>2, <2>1
  <2> QED
    BY <2>1, <2>2 DEF Entries
<1> QED
  BY <1>1, <1>2

\* The fields of a place.
LEMMA PlaceFields ==
  ASSUME NEW b, NEW e \in Entries(b)
  PROVE  /\ e = <<e[1], e[2], e[3]>>
         /\ e[1] \in Sides /\ e[2] \in Prices
         /\ e[3] \in DOMAIN b[e[1]][e[2]]
  BY PlaceOfEntry

\* A book holds finitely many orders.
LEMMA EntriesFinite ==
  ASSUME NEW b \in BookType
  PROVE  IsFiniteSet(Entries(b))
<1> DEFINE level(k) == {<<k[1], k[2], i>> : i \in DOMAIN b[k[1]][k[2]]}
           P == Sides \X Prices
           L == {level(k) : k \in P}
           f == [k \in P |-> level(k)]
<1>1. IsFiniteSet(P)
  <2>1. IsFiniteSet(Sides)
    <3>1. IsFiniteSet({"BUY"})
      BY FS_Singleton
    <3>2. IsFiniteSet({"BUY"} \cup {"SELL"})
      BY <3>1, FS_AddElement
    <3>3. Sides = {"BUY"} \cup {"SELL"}
      BY DEF Sides
    <3> QED
      BY <3>2, <3>3
  <2> QED
    BY <2>1, FS_Product, BookAssumption
<1>2. IsFiniteSet(L)
  <2> HIDE DEF level
  <2>1. f \in [P -> L] /\ \A l \in L : \E k \in P : f[k] = l
    OBVIOUS
  <2> HIDE DEF P, L, f
  <2>2. f \in Surjection(P, L)
    BY <2>1, Fun_IsSurj
  <2> QED
    BY <1>1, <2>2, FS_Surjection
<1>3. ASSUME NEW k \in P
      PROVE  IsFiniteSet(level(k))
  <2> DEFINE D == DOMAIN b[k[1]][k[2]]
             g == [i \in D |-> <<k[1], k[2], i>>]
  <2>1. b[k[1]][k[2]] \in Seq(RestingOrder)
    BY DEF BookType
  <2>2. D = 1 .. Len(b[k[1]][k[2]]) /\ Len(b[k[1]][k[2]]) \in Nat
    BY <2>1, LenProperties
  <2>3. IsFiniteSet(D)
    BY <2>2, FS_Interval
  <2>4. g \in Surjection(D, level(k))
    BY Fun_IsSurj
  <2> QED
    BY <2>3, <2>4, FS_Surjection
<1>4. \A T \in L : IsFiniteSet(T)
  BY <1>3
<1>5. IsFiniteSet(UNION L)
  <2> HIDE DEF L
  <2> QED
    BY <1>2, <1>4, FS_UNION
<1>6. Entries(b) = UNION L
  BY DEF Entries
<1> QED
  BY <1>5, <1>6

\* A unit of quantity is a place and a number up to what is left there.
LEMMA UnitOfPlace ==
  ASSUME NEW b, NEW E, NEW x
  PROVE  x \in Units(b, E) <=>
            \E e \in E : \E u \in 1 .. At(b, e).rem : x = <<e, u>>
  BY DEF Units

\* What is left at a place.
LEMMA AtType ==
  ASSUME NEW b \in BookType, NEW e \in Entries(b)
  PROVE  /\ At(b, e) \in RestingOrder
         /\ At(b, e).rem \in 0 .. MaxQty
<1>1. At(b, e) \in RestingOrder
  BY PlaceFields DEF At, BookType
<1> QED
  BY <1>1 DEF RestingOrder, Order

\* A set of places holds a finite quantity.
LEMMA QuantityType ==
  ASSUME NEW b \in BookType, NEW E \in SUBSET Entries(b)
  PROVE  IsFiniteSet(Units(b, E)) /\ Quantity(b, E) \in Nat
<1>1. IsFiniteSet(E) /\ IsFiniteSet(1 .. MaxQty)
  BY EntriesFinite, FS_Subset, FS_Interval, BookAssumption
<1>2. IsFiniteSet(E \X (1 .. MaxQty))
  BY <1>1, FS_Product
<1>3. Units(b, E) \subseteq E \X (1 .. MaxQty)
  <2> SUFFICES ASSUME NEW x \in Units(b, E)
               PROVE  x \in E \X (1 .. MaxQty)
    OBVIOUS
  <2>1. PICK e \in E : \E u \in 1 .. At(b, e).rem : x = <<e, u>>
    BY UnitOfPlace
  <2>2. At(b, e).rem \in 0 .. MaxQty
    BY AtType
  <2> QED
    BY <2>1, <2>2, BookAssumption
<1>4. IsFiniteSet(Units(b, E))
  BY <1>2, <1>3, FS_Subset
<1> QED
  BY <1>4, FS_CardinalityType DEF Quantity

\* The numbers from 1 to n are n.
LEMMA CountUp ==
  ASSUME NEW n \in Nat
  PROVE  IsFiniteSet(1 .. n) /\ Cardinality(1 .. n) = n
<1>1. 1 \in Int /\ n \in Int
  OBVIOUS
<1>2. /\ IsFiniteSet(1 .. n)
      /\ Cardinality(1 .. n) = IF 1 > n THEN 0 ELSE n - 1 + 1
  BY ONLY <1>1, FS_Interval
<1> QED
  BY <1>2

\* Nowhere is nothing.
LEMMA NoQuantity ==
  ASSUME NEW b
  PROVE  Quantity(b, {}) = 0
<1>1. Units(b, {}) = {}
  BY DEF Units
<1> QED
  BY <1>1, FS_EmptySet DEF Quantity

\* c is b without the front entry of the queue at (side, p).
FrontGone(b, c, side, p) ==
    /\ b \in BookType /\ c \in BookType
    /\ side \in Sides /\ p \in Prices
    /\ 1 \in DOMAIN b[side][p]
    /\ Len(c[side][p]) = Len(b[side][p]) - 1
    /\ \A k \in DOMAIN c[side][p] : c[side][p][k] = b[side][p][k + 1]
    /\ \A s \in Sides, r \in Prices :
           ~(s = side /\ r = p) => c[s][r] = b[s][r]

\* The place in b of the entry at the place e of c.
Shifted(side, p, e) ==
    IF e[1] = side /\ e[2] = p THEN <<side, p, e[3] + 1>> ELSE e

\* Every entry of c is an entry of b other than the front one, each a
\* different one.
LEMMA ShiftedPlaces ==
  ASSUME NEW b, NEW c, NEW side, NEW p, FrontGone(b, c, side, p)
  PROVE  /\ \A e \in Entries(c) :
                /\ Shifted(side, p, e) \in Entries(b)
                /\ Shifted(side, p, e) # <<side, p, 1>>
                /\ At(c, e) = At(b, Shifted(side, p, e))
         /\ \A d, e \in Entries(c) :
                Shifted(side, p, d) = Shifted(side, p, e) => d = e
         /\ \A e \in Entries(b) : e # <<side, p, 1>> =>
                \E d \in Entries(c) : e = Shifted(side, p, d)
         /\ <<side, p, 1>> \in Entries(b)
<1>1. /\ side \in Sides /\ p \in Prices /\ 1 \in DOMAIN b[side][p]
      /\ Len(c[side][p]) = Len(b[side][p]) - 1
      /\ \A k \in DOMAIN c[side][p] : c[side][p][k] = b[side][p][k + 1]
      /\ \A s \in Sides, r \in Prices :
             ~(s = side /\ r = p) => c[s][r] = b[s][r]
  BY DEF FrontGone
<1>2. /\ Len(b[side][p]) \in Nat /\ DOMAIN b[side][p] = 1 .. Len(b[side][p])
      /\ DOMAIN c[side][p] = 1 .. Len(c[side][p])
  BY <1>1, LenProperties DEF FrontGone, BookType
<1>3. ASSUME NEW e \in Entries(c)
      PROVE  /\ Shifted(side, p, e) \in Entries(b)
             /\ Shifted(side, p, e) # <<side, p, 1>>
             /\ At(c, e) = At(b, Shifted(side, p, e))
  <2>1. PICK s \in Sides, r \in Prices : \E i \in DOMAIN c[s][r] : e = <<s, r, i>>
    BY PlaceOfEntry
  <2>2. PICK i \in DOMAIN c[s][r] : e = <<s, r, i>>
    BY <2>1
  <2>3. CASE s = side /\ r = p
    <3>1. i + 1 \in DOMAIN b[side][p] /\ i + 1 # 1
      BY <1>1, <1>2, <2>2, <2>3
    <3>2. Shifted(side, p, e) = <<side, p, i + 1>>
      BY <2>2, <2>3 DEF Shifted
    <3>3. c[side][p][i] = b[side][p][i + 1]
      BY <1>1, <2>3
    <3> QED
      BY <1>1, <2>2, <2>3, <3>1, <3>2, <3>3, PlaceOfEntry DEF At
  <2>4. CASE ~(s = side /\ r = p)
    <3>1. Shifted(side, p, e) = e /\ c[s][r] = b[s][r]
      BY <1>1, <2>2, <2>4 DEF Shifted
    <3>2. e # <<side, p, 1>>
      BY <2>2, <2>4
    <3>3. e \in Entries(b)
      BY <2>2, <3>1, PlaceOfEntry
    <3> QED
      BY <2>2, <3>1, <3>2, <3>3 DEF At
  <2> QED
    BY <2>3, <2>4
<1>4. ASSUME NEW d \in Entries(c), NEW e \in Entries(c),
             Shifted(side, p, d) = Shifted(side, p, e)
      PROVE  d = e
  <2>1. /\ d = <<d[1], d[2], d[3]>> /\ e = <<e[1], e[2], e[3]>>
        /\ d[1] \in Sides /\ d[2] \in Prices /\ d[3] \in DOMAIN c[d[1]][d[2]]
        /\ e[1] \in Sides /\ e[2] \in Prices /\ e[3] \in DOMAIN c[e[1]][e[2]]
    BY PlaceFields
  <2>2. d[3] \in Int /\ e[3] \in Int
    <3>1. c[d[1]][d[2]] \in Seq(RestingOrder) /\ c[e[1]][e[2]] \in Seq(RestingOrder)
      BY <2>1 DEF FrontGone, BookType
    <3> QED
      BY <2>1, <3>1
  <2> QED
    BY <1>4, <2>1, <2>2 DEF Shifted
<1>5. ASSUME NEW e \in Entries(b), e # <<side, p, 1>>
      PROVE  \E d \in Entries(c) : e = Shifted(side, p, d)
  <2>1. PICK s \in Sides, r \in Prices : \E i \in DOMAIN b[s][r] : e = <<s, r, i>>
    BY PlaceOfEntry
  <2>2. PICK i \in DOMAIN b[s][r] : e = <<s, r, i>>
    BY <2>1
  <2>3. CASE s = side /\ r = p
    <3>1. i - 1 \in DOMAIN c[side][p] /\ (i - 1) + 1 = i
      BY <1>1, <1>2, <1>5, <2>2, <2>3
    <3>2. <<side, p, i - 1>> \in Entries(c)
      BY <1>1, <3>1, PlaceOfEntry
    <3>3. Shifted(side, p, <<side, p, i - 1>>) = e
      BY <2>2, <2>3, <3>1 DEF Shifted
    <3> QED
      BY <3>2, <3>3
  <2>4. CASE ~(s = side /\ r = p)
    <3>1. c[s][r] = b[s][r] /\ Shifted(side, p, e) = e
      BY <1>1, <2>2, <2>4 DEF Shifted
    <3>2. e \in Entries(c)
      BY <2>2, <3>1, PlaceOfEntry
    <3> QED
      BY <3>1, <3>2
  <2> QED
    BY <2>3, <2>4
<1>6. <<side, p, 1>> \in Entries(b)
  BY <1>1, PlaceOfEntry
<1> QED
  BY <1>3, <1>4, <1>5, <1>6

\* Taking the front entry away takes its quantity away, from every set of
\* places that has it.
LEMMA QuantityWithoutFront ==
  ASSUME NEW b, NEW c, NEW side, NEW p, FrontGone(b, c, side, p),
         NEW E \in SUBSET Entries(b), NEW F \in SUBSET Entries(c),
         <<side, p, 1>> \in E,
         \A d \in Entries(c) : d \in F <=> Shifted(side, p, d) \in E
  PROVE  /\ Quantity(c, F) \in Nat
         /\ b[side][p][1].rem \in Nat
         /\ Quantity(b, E) = Quantity(c, F) + b[side][p][1].rem
<1> DEFINE front == <<side, p, 1>>
           n == At(b, front).rem
           R == {front} \X (1 .. n)
           U == Units(b, E)
           V == Units(c, F)
           W == U \ R
           g == [x \in V |-> <<Shifted(side, p, x[1]), x[2]>>]
<1>b. b \in BookType /\ c \in BookType
  BY DEF FrontGone
<1>1. n = b[side][p][1].rem /\ n \in Nat
  <2>1. front \in Entries(b)
    OBVIOUS
  <2>2. At(b, front).rem \in 0 .. MaxQty
    BY <1>b, <2>1, AtType
  <2>3. At(b, front) = b[side][p][1]
    BY DEF At
  <2> QED
    BY <2>2, <2>3, BookAssumption
<1>2. /\ IsFiniteSet(U) /\ Quantity(b, E) \in Nat
      /\ IsFiniteSet(V) /\ Quantity(c, F) \in Nat
  BY <1>b, QuantityType
<1> HIDE DEF n
<1>3. IsFiniteSet(R) /\ Cardinality(R) = n
  <2>1. IsFiniteSet({front}) /\ Cardinality({front}) = 1
    BY FS_Singleton
  <2>2. IsFiniteSet(1 .. n) /\ Cardinality(1 .. n) = n
    BY <1>1, CountUp
  <2>3. IsFiniteSet(R) /\ Cardinality(R) = 1 * n
    BY <2>1, <2>2, FS_Product
  <2> QED
    BY <1>1, <2>3
<1>4. R \subseteq U
  <2> SUFFICES ASSUME NEW x \in R PROVE x \in U
    OBVIOUS
  <2>1. PICK u \in 1 .. n : x = <<front, u>>
    OBVIOUS
  <2> QED
    BY <2>1, UnitOfPlace DEF n
<1>5. IsFiniteSet(W) /\ Cardinality(W) = Cardinality(U) - n
  <2>1. U \cap R = R
    BY <1>4
  <2>2. /\ IsFiniteSet(W)
        /\ Cardinality(W) = Cardinality(U) - Cardinality(U \cap R)
    <3> HIDE DEF U, R
    <3> QED
      BY <1>2, FS_Difference
  <2> QED
    BY <1>3, <2>1, <2>2
<1>6. \A x : x \in W <=>
          \E e \in E : \E u \in 1 .. At(b, e).rem : x = <<e, u>> /\ e # front
  <2>1. ASSUME NEW x \in W
        PROVE  \E e \in E : \E u \in 1 .. At(b, e).rem : x = <<e, u>> /\ e # front
    <3>1. PICK e \in E : \E u \in 1 .. At(b, e).rem : x = <<e, u>>
      BY UnitOfPlace
    <3>2. PICK u \in 1 .. At(b, e).rem : x = <<e, u>>
      BY <3>1
    <3>3. e = front => x \in R
      BY <3>2 DEF n
    <3> QED
      BY <3>2, <3>3
  <2>2. ASSUME NEW e \in E, NEW u \in 1 .. At(b, e).rem, e # front
        PROVE  <<e, u>> \in W
    <3>1. <<e, u>> \in U
      BY UnitOfPlace
    <3>2. <<e, u>> \notin R
      BY <2>2
    <3> QED
      BY <3>1, <3>2
  <2> QED
    BY <2>1, <2>2
<1>7. \A x : x \in V <=> \E d \in F : \E u \in 1 .. At(c, d).rem : x = <<d, u>>
  BY UnitOfPlace
<1> HIDE DEF front, R, U, V, W
<1>8. g \in [V -> W]
  <2> SUFFICES ASSUME NEW x \in V
               PROVE  <<Shifted(side, p, x[1]), x[2]>> \in W
    OBVIOUS
  <2>1. PICK d \in F : \E u \in 1 .. At(c, d).rem : x = <<d, u>>
    BY <1>7
  <2>2. PICK u \in 1 .. At(c, d).rem : x = <<d, u>>
    BY <2>1
  <2>3. /\ Shifted(side, p, d) \in E /\ Shifted(side, p, d) # front
        /\ At(c, d) = At(b, Shifted(side, p, d))
    BY ShiftedPlaces DEF front
  <2>4. x[1] = d /\ x[2] = u
    BY <2>2
  <2> QED
    BY <1>6, <2>3, <2>4
<1>9. ASSUME NEW x \in V, NEW y \in V, g[x] = g[y]
      PROVE  x = y
  <2>1. PICK d \in F : \E u \in 1 .. At(c, d).rem : x = <<d, u>>
    BY <1>7
  <2>2. PICK u : x = <<d, u>>
    BY <2>1
  <2>3. PICK e \in F : \E v \in 1 .. At(c, e).rem : y = <<e, v>>
    BY <1>7
  <2>4. PICK v : y = <<e, v>>
    BY <2>3
  <2>5. g[x] = <<Shifted(side, p, d), u>> /\ g[y] = <<Shifted(side, p, e), v>>
    BY <2>2, <2>4
  <2>6. Shifted(side, p, d) = Shifted(side, p, e) /\ u = v
    BY <1>9, <2>5
  <2>7. d = e
    BY <2>6, ShiftedPlaces
  <2> QED
    BY <2>2, <2>4, <2>6, <2>7
<1>10. ASSUME NEW z \in W
       PROVE  \E x \in V : g[x] = z
  <2>1. PICK e \in E : \E u \in 1 .. At(b, e).rem : z = <<e, u>> /\ e # front
    BY <1>6
  <2>2. PICK u \in 1 .. At(b, e).rem : z = <<e, u>>
    BY <2>1
  <2>3. PICK d \in Entries(c) : e = Shifted(side, p, d)
    BY <2>1, ShiftedPlaces DEF front
  <2>4. d \in F /\ At(c, d) = At(b, e)
    BY <2>3, ShiftedPlaces
  <2> DEFINE x == <<d, u>>
  <2>5. x \in V /\ x[1] = d /\ x[2] = u
    BY <1>7, <2>4
  <2> HIDE DEF x
  <2>6. g[x] = z
    BY <2>2, <2>3, <2>5
  <2> QED
    BY <2>5, <2>6
<1> HIDE DEF g
<1>11. g \in Injection(V, W) /\ g \in Surjection(V, W)
  BY <1>8, <1>9, <1>10, Fun_IsInj, Fun_IsSurj
<1>12. Cardinality(V) = Cardinality(W)
  BY <1>5, <1>11, FS_Injection
<1>13. Quantity(b, E) = Cardinality(U) /\ Quantity(c, F) = Cardinality(V)
  BY DEF Quantity, U, V
<1> QED
  BY <1>1, <1>2, <1>5, <1>12, <1>13

\* The places an order crosses, and those ahead of one of them, when the front
\* entry of a level it crosses goes.
LEMMA CrossedWithoutFront ==
  ASSUME NEW b, NEW c, NEW o, NEW p, NEW side, side = Opposite(o.side),
         FrontGone(b, c, side, p), Crosses(o, p)
  PROVE  /\ <<side, p, 1>> \in Crossed(b, o)
         /\ \A d \in Entries(c) :
                d \in Crossed(c, o) <=> Shifted(side, p, d) \in Crossed(b, o)
<1>1. \A d \in Entries(c) : /\ Shifted(side, p, d)[1] = d[1]
                            /\ Shifted(side, p, d)[2] = d[2]
  BY DEF Shifted
<1>2. <<side, p, 1>>[1] = side /\ <<side, p, 1>>[2] = p
  OBVIOUS
<1> QED
  BY <1>1, <1>2, ShiftedPlaces DEF Crossed

-----------------------------------------------------------------------------
(* Self-trade prevention and fill-or-kill.  The gates in front of the loop   *)
(* look at the whole book once; the invariant says that what they found      *)
(* stays true while the loop consumes the book they looked at.               *)

\* What holds between the phases of a call.
CallInv ==
    /\ pc = "idle" => incoming = NoOrder
    /\ pc \in {"idle", "begin", "purge"} => trades = <<>>
    /\ pc \in {"begin", "purge", "match"} => incoming \in Order
    /\ pc \in {"begin", "purge"} /\ incoming.type = "FOK" =>
           incoming.rem = incoming.qty
    /\ pc = "purge" => stp = "CANCEL_BOTH"

\* What the gates have established and the loop relies on.
GateInv ==
    pc = "match" =>
        /\ incoming.type = "FOK" /\ stp # "CANCEL_OLDEST" =>
               canFullyFill(incoming)
        /\ stp \in {"CANCEL_NEWEST", "CANCEL_BOTH"} =>
               ~wouldSelfTrade(incoming)

\* What a replace makes of a resting order is a LIMIT order.
LEMMA ReplaceMakesLimit ==
  ASSUME TypeOK, ReplaceOrder
  PROVE  /\ pc = "idle" /\ pc' \in {"begin", "done"}
         /\ UNCHANGED <<stp, trades>>
         /\ incoming' = NoOrder \/ incoming'.type = "LIMIT"
         /\ pc' = "begin" => incoming' # NoOrder
<1>b. book \in BookType
  BY DEF TypeOK, BookType
<1>1. PICK id \in OrderIds, side \in Sides, p \in Prices, price \in Prices,
           qty \in 0 .. MaxQty :
        \E i \in DOMAIN book[side][p] :
          /\ ReplaceCall(id, side, p, i, price, qty)
          /\ replaceOrder(side, p, i, price, qty,
                          ReplacePriority(book[side][p][i], price, qty))
  BY DEF ReplaceOrder
<1>2. PICK i \in DOMAIN book[side][p] :
          /\ ReplaceCall(id, side, p, i, price, qty)
          /\ replaceOrder(side, p, i, price, qty,
                          ReplacePriority(book[side][p][i], price, qty))
  BY <1>1
<1> DEFINE o == book[side][p][i]
           prio == ReplacePriority(o, price, qty)
<1>3. pc = "idle" /\ UNCHANGED <<stp, trades>>
  BY <1>2 DEF ReplaceCall, Ready, replaceOrder
<1>4. o \in RestingOrder
  BY <1>b, EntryType
<1>5. CASE ReplaceByCancel(side, p, i)
  BY <1>3, <1>5 DEF ReplaceByCancel
<1>6. CASE ReplaceInPlace(side, p, i, qty)
  BY <1>3, <1>4, <1>6 DEF ReplaceInPlace, RestingOrder, Order
<1>7. CASE ReplaceByRematch(side, p, i, price, qty, prio)
  <2> HIDE DEF prio
  <2> DEFINE new == [o EXCEPT !.price = price, !.qty = qty,
                              !.rem = qty - AlreadyFilled(o), !.prio = prio]
  <2>1. incoming' = new /\ pc' = IF new.rem = 0 THEN "done" ELSE "begin"
    BY <1>7 DEF ReplaceByRematch
  <2>2. new.type = "LIMIT"
    BY <1>4 DEF RestingOrder, Order
  <2>3. NoOrder.type # "LIMIT"
    BY DEF NoOrder
  <2> HIDE DEF new
  <2> QED
    BY <1>3, <2>1, <2>2, <2>3
<1> QED
  BY <1>2, <1>5, <1>6, <1>7 DEF replaceOrder

LEMMA CallStep == TypeOK /\ TypeOK' /\ CallInv /\ [Next]_vars => CallInv'
<1> SUFFICES ASSUME TypeOK, TypeOK', CallInv, [Next]_vars PROVE CallInv'
  OBVIOUS
<1>1. CASE ProcessOrder
  <2>1. PICK o \in NewOrders :
          incoming' = [id |-> o.id, trader |-> o.trader, side |-> o.side,
                       type |-> o.type, price |-> o.price, qty |-> o.qty,
                       rem |-> o.qty, prio |-> priority]
    BY <1>1 DEF ProcessOrder, StartMatch
  <2>2. incoming'.rem = incoming'.qty /\ incoming'.rem > 0
    BY <2>1, BookAssumption DEF NewOrders, Quantities
  <2>3. incoming' \in Order
    BY <2>2 DEF TypeOK, NoOrder
  <2>4. pc = "idle" /\ pc' = "begin" /\ trades' = trades
    BY <1>1 DEF ProcessOrder, StartMatch, Ready
  <2> QED
    BY <2>2, <2>3, <2>4 DEF CallInv
<1>2. CASE CancelOrder
  BY <1>2 DEF CancelOrder, cancelOrder, CallInv
<1>3. CASE ReplaceOrder
  <2>1. /\ pc = "idle" /\ pc' \in {"begin", "done"}
        /\ UNCHANGED <<stp, trades>>
        /\ incoming' = NoOrder \/ incoming'.type = "LIMIT"
        /\ pc' = "begin" => incoming' # NoOrder
    BY <1>3, ReplaceMakesLimit
  <2> QED
    BY <2>1 DEF CallInv, TypeOK
<1>4. CASE SetSTPPolicy
  BY <1>4 DEF SetSTPPolicy, setSTPPolicy, CallInv
<1>5. CASE Return
  BY <1>5 DEF Return, CallInv
<1>6. CASE UNCHANGED bookVars
  BY <1>6 DEF bookVars, CallInv
<1>7. CASE Match
  <2>1. CASE ExecuteTrade
    <3>1. pc = "match" /\ pc' = pc /\ incoming.rem > 0
      BY <2>1 DEF ExecuteTrade, AtLevel
    <3>2. incoming \in Order
      BY <3>1 DEF CallInv
    <3>3. \E n : incoming' = [incoming EXCEPT !.rem = n]
      BY <2>1 DEF ExecuteTrade
    <3>4. incoming'.id = incoming.id /\ incoming'.qty = incoming.qty
      BY <3>2, <3>3 DEF Order
    <3>5. incoming.qty > 0
      BY <3>2, BookAssumption DEF Order, Quantities
    <3>6. incoming' \in Order
      BY <3>4, <3>5 DEF TypeOK, NoOrder
    <3> QED
      BY <3>1, <3>6 DEF CallInv
  <2>2. CASE ~ExecuteTrade
    BY <1>7, <2>2 DEF Match, MatchOrder, RejectFOK, EnterLoop, StpCancelNewest,
       StpCancelOldest, StpCancelBoth, PurgeOwn, PurgeEnd, PopFilled,
       TradeThrows, EndMatch, AtLevel, CallInv
  <2> QED
    BY <2>1, <2>2
<1> QED
  BY <1>1, <1>2, <1>3, <1>4, <1>5, <1>6, <1>7
  DEF Next, ReplaceFails, PriorityExhausted, Halt, PublishEvent, vars

\* Erasing the front entry of a level.
LEMMA ErasedFrontGone ==
  ASSUME book \in BookType, NEW side \in Sides, NEW p \in Prices,
         1 \in DOMAIN book[side][p],
         book' = Erased(side, p, 1)
  PROVE  FrontGone(book, book', side, p)
<1> DEFINE q == book[side][p]
           t == RemoveAt(q, 1)
<1>1. /\ book' \in BookType
      /\ \A s \in Sides, r \in Prices :
             book'[s][r] = IF s = side /\ r = p THEN t ELSE book[s][r]
  BY ErasedType
<1>2. q \in Seq(RestingOrder)
  BY DEF BookType
<1>3. /\ t \in Seq(RestingOrder)
      /\ Len(t) = Len(q) - 1
      /\ \A k \in 1 .. Len(q) - 1 : t[k] = IF k < 1 THEN q[k] ELSE q[k + 1]
  BY <1>2, RemoveAtProperties
<1> HIDE DEF t
<1>4. \A k \in DOMAIN t : t[k] = q[k + 1]
  <2>1. DOMAIN t = 1 .. Len(q) - 1 /\ Len(q) \in Nat
    BY <1>2, <1>3, LenProperties
  <2> QED
    BY <1>3, <2>1
<1>5. book'[side][p] = t
  BY <1>1
<1> QED
  BY <1>1, <1>3, <1>4, <1>5 DEF FrontGone

\* So does taking its tail.
LEMMA PoppedFrontGone ==
  ASSUME book \in BookType, NEW side \in Sides, NEW p \in Prices,
         book[side][p] # <<>>,
         book' = [book EXCEPT ![side][p] = Tail(book[side][p])]
  PROVE  FrontGone(book, book', side, p)
<1>1. book[side][p] \in Seq(RestingOrder) /\ 1 \in DOMAIN book[side][p]
  BY FrontType DEF BookType
<1>2. Tail(book[side][p]) = RemoveAt(book[side][p], 1)
  BY <1>1, TailIsErase
<1>3. book' = Erased(side, p, 1)
  BY <1>2 DEF Erased
<1> QED
  BY <1>1, <1>3, ErasedFrontGone

\* Nothing is ahead of the front entry.
LEMMA NothingAheadOfFront ==
  ASSUME book \in BookType, NEW o, NEW p \in Prices,
         IsFront(Opposite(o.side), p)
  PROVE  Quantity(book, Ahead(book, o, <<Opposite(o.side), p, 1>>)) = 0
<1> DEFINE side == Opposite(o.side)
           front == <<side, p, 1>>
<1>1. side \in Sides
  BY OppositeType
<1>2. front[1] = side /\ front[2] = p /\ front[3] = 1
  OBVIOUS
<1>3. ASSUME NEW d \in Ahead(book, o, front) PROVE FALSE
  <2>1. d \in Entries(book) /\ d[1] = side /\ Before(side, d[2], d[3], p, 1)
    BY <1>2 DEF Ahead, Crossed
  <2>2. d[2] \in Prices /\ d[3] \in DOMAIN book[side][d[2]]
    BY <2>1, PlaceFields
  <2> QED
    BY <1>1, <2>1, <2>2, FrontComesFirst
<1>4. Ahead(book, o, front) = {}
  BY <1>3
<1> QED
  BY <1>4, NoQuantity

\* Orders that differ in what is left of them cross the same places.
LEMMA CrossedSame ==
  ASSUME NEW b, NEW o, NEW r,
         r.side = o.side, r.type = o.type, r.price = o.price
  PROVE  /\ Crossed(b, r) = Crossed(b, o)
         /\ \A e : Ahead(b, r, e) = Ahead(b, o, e)
<1>1. \A p : Crosses(r, p) <=> Crosses(o, p)
  BY DEF Crosses
<1>2. Crossed(b, r) = Crossed(b, o)
  BY <1>1 DEF Crossed
<1> QED
  BY <1>2 DEF Ahead

\* The quantity an order crosses, less its front entry.
LEMMA FillableWithoutFront ==
  ASSUME NEW b, NEW c, NEW o, NEW p, NEW side, side = Opposite(o.side),
         FrontGone(b, c, side, p), Crosses(o, p)
  PROVE  /\ Quantity(c, Crossed(c, o)) \in Nat
         /\ b[side][p][1].rem \in Nat
         /\ Quantity(b, Crossed(b, o)) =
                Quantity(c, Crossed(c, o)) + b[side][p][1].rem
<1>1. /\ Crossed(b, o) \in SUBSET Entries(b)
      /\ Crossed(c, o) \in SUBSET Entries(c)
  BY DEF Crossed
<1>2. /\ <<side, p, 1>> \in Crossed(b, o)
      /\ \A d \in Entries(c) :
             d \in Crossed(c, o) <=> Shifted(side, p, d) \in Crossed(b, o)
  BY CrossedWithoutFront
<1> QED
  BY <1>1, <1>2, QuantityWithoutFront

\* No level of b is better than p.
NoneBetter(b, side, p) ==
    \A q \in Prices : b[side][q] # <<>> => ~Better(side, q, p)

\* The quantity ahead of any other entry an order crosses, less the front one.
LEMMA AheadWithoutFront ==
  ASSUME NEW b, NEW c, NEW o, NEW p, NEW side, side = Opposite(o.side),
         FrontGone(b, c, side, p), Crosses(o, p),
         NoneBetter(b, side, p),
         NEW e \in Crossed(c, o)
  PROVE  /\ Shifted(side, p, e) \in Crossed(b, o)
         /\ At(b, Shifted(side, p, e)) = At(c, e)
         /\ Quantity(c, Ahead(c, o, e)) \in Nat
         /\ b[side][p][1].rem \in Nat
         /\ Quantity(b, Ahead(b, o, Shifted(side, p, e))) =
                Quantity(c, Ahead(c, o, e)) + b[side][p][1].rem
<1> DEFINE s == Shifted(side, p, e)
           front == <<side, p, 1>>
<1>b. /\ b \in BookType /\ c \in BookType /\ p \in Prices /\ side \in Sides
  BY DEF FrontGone
<1>1. /\ s \in Crossed(b, o) /\ At(b, s) = At(c, e)
      /\ front \in Crossed(b, o)
      /\ \A d \in Entries(c) :
             d \in Crossed(c, o) <=> Shifted(side, p, d) \in Crossed(b, o)
      /\ e \in Entries(c)
  BY CrossedWithoutFront, ShiftedPlaces DEF Crossed
<1>2. ASSUME NEW d \in Crossed(c, o)
      PROVE  /\ d[1] = side /\ d[2] \in Prices /\ d[3] \in Nat /\ d[3] > 0
             /\ b[side][d[2]] # <<>>
             /\ Shifted(side, p, d)[1] = side
             /\ Shifted(side, p, d)[2] = d[2]
             /\ Shifted(side, p, d)[3] = IF d[2] = p THEN d[3] + 1 ELSE d[3]
  <2>1. d \in Entries(c) /\ d[1] = side
    BY DEF Crossed
  <2>2. d[2] \in Prices /\ d[3] \in DOMAIN c[side][d[2]]
    BY <2>1, PlaceFields
  <2>3. c[side][d[2]] \in Seq(RestingOrder) /\ b[side][d[2]] \in Seq(RestingOrder)
    BY <1>b, <2>2 DEF BookType
  <2>4. d[3] \in Nat /\ d[3] > 0
    BY <2>2, <2>3
  <2>5. b[side][d[2]] # <<>>
    <3>1. CASE d[2] = p
      BY <2>3, <3>1 DEF FrontGone
    <3>2. CASE d[2] # p
      BY <1>b, <2>2, <2>3, <3>2 DEF FrontGone
    <3> QED
      BY <3>1, <3>2
  <2> QED
    BY <2>1, <2>2, <2>4, <2>5 DEF Shifted
<1>p. \A q \in Prices : q \in Int
  BY BookAssumption
<1>3. front \in Ahead(b, o, s)
  <2>1. front[2] = p /\ front[3] = 1
    OBVIOUS
  <2>2. ~Better(side, e[2], p)
    BY <1>2 DEF NoneBetter
  <2>3. Better(side, p, e[2]) \/ (p = e[2] /\ 1 < s[3])
    <3> HIDE DEF s
    <3>1. s[3] = IF e[2] = p THEN e[3] + 1 ELSE e[3]
      BY <1>2 DEF s
    <3> QED
      BY <1>b, <1>p, <1>2, <2>2, <3>1 DEF Better
  <2>4. s[1] = side /\ s[2] = e[2]
    BY <1>2
  <2> HIDE DEF front, s
  <2> QED
    BY <1>1, <2>1, <2>3, <2>4 DEF Ahead, Before
<1>4. ASSUME NEW d \in Crossed(c, o)
      PROVE  Before(e[1], d[2], d[3], e[2], e[3]) <=>
             Before(s[1], Shifted(side, p, d)[2], Shifted(side, p, d)[3],
                    s[2], s[3])
  <2> DEFINE t == Shifted(side, p, d)
  <2>1. /\ e[1] = side /\ e[3] \in Nat /\ d[3] \in Nat
        /\ s[1] = side /\ s[2] = e[2]
        /\ s[3] = IF e[2] = p THEN e[3] + 1 ELSE e[3]
        /\ t[2] = d[2] /\ t[3] = IF d[2] = p THEN d[3] + 1 ELSE d[3]
    BY <1>2
  <2> HIDE DEF s, t
  <2>2. d[2] = e[2] => (d[3] < e[3] <=> t[3] < s[3])
    BY <2>1
  <2> QED
    BY <2>1, <2>2 DEF Before, t
<1>5. \A d \in Entries(c) :
          d \in Ahead(c, o, e) <=> Shifted(side, p, d) \in Ahead(b, o, s)
  <2> HIDE DEF s
  <2> QED
    BY <1>1, <1>4 DEF Ahead
<1>6. /\ Ahead(b, o, s) \in SUBSET Entries(b)
      /\ Ahead(c, o, e) \in SUBSET Entries(c)
  BY DEF Ahead, Crossed
<1> HIDE DEF s
<1>7. /\ Quantity(c, Ahead(c, o, e)) \in Nat
      /\ b[side][p][1].rem \in Nat
      /\ Quantity(b, Ahead(b, o, s)) =
             Quantity(c, Ahead(c, o, e)) + b[side][p][1].rem
  BY <1>3, <1>5, <1>6, QuantityWithoutFront DEF front
<1> QED
  BY <1>1, <1>7 DEF s

\* The trade the loop is about to make is with an order that is in front, live
\* and not the incoming trader's own, if the gate found no self trade.
LEMMA FrontNotOwn ==
  ASSUME TypeOK, NEW p \in Prices, AtLevel(p),
         ~wouldSelfTrade(incoming),
         Head(book[Opposite(incoming.side)][p]).rem > 0
  PROVE  Head(book[Opposite(incoming.side)][p]).trader # incoming.trader
<1> DEFINE side == Opposite(incoming.side)
           front == <<side, p, 1>>
<1>1. /\ book \in BookType /\ side \in Sides
      /\ IsFront(side, p) /\ Crosses(incoming, p)
      /\ book[side][p] # <<>> /\ incoming.rem > 0
  BY OppositeType DEF TypeOK, BookType, AtLevel, IsFront
<1>2. Head(book[side][p]) = book[side][p][1] /\ 1 \in DOMAIN book[side][p]
  BY <1>1, FrontType
<1>3. front \in Entries(book)
  BY <1>1, <1>2, PlaceOfEntry
<1>4. front[1] = side /\ front[2] = p /\ front[3] = 1
  OBVIOUS
<1>5. At(book, front) = Head(book[side][p])
  BY <1>2, <1>4 DEF At
<1>6. Quantity(book, Ahead(book, incoming, front)) = 0
  BY <1>1, NothingAheadOfFront
<1> HIDE DEF front, side
<1>7. front \in Crossed(book, incoming)
  BY <1>1, <1>3, <1>4 DEF Crossed, side
<1>8. 0 < incoming.rem
  BY <1>1
<1>9. At(book, front).trader # incoming.trader \/ ~(At(book, front).rem > 0)
  BY <1>6, <1>7, <1>8 DEF wouldSelfTrade
<1> QED
  BY <1>5, <1>9 DEF side

\* What is left of an order of which n of at most o.rem have traded.
Reduced(r, o, n) ==
    /\ r.side = o.side /\ r.type = o.type /\ r.price = o.price
    /\ r.trader = o.trader
    /\ r.rem = o.rem - n

\* The front entry goes, and o, reduced by its quantity, is r: what o could
\* have filled, r can.
LEMMA FillableKept ==
  ASSUME NEW b, NEW c, NEW o, NEW r, NEW p, NEW side,
         side = Opposite(o.side), FrontGone(b, c, side, p), Crosses(o, p),
         Reduced(r, o, b[side][p][1].rem), o.rem \in Int,
         Quantity(b, Crossed(b, o)) >= o.rem
  PROVE  Quantity(c, Crossed(c, r)) >= r.rem
<1>1. /\ Quantity(c, Crossed(c, o)) \in Nat
      /\ b[side][p][1].rem \in Nat
      /\ Quantity(b, Crossed(b, o)) =
             Quantity(c, Crossed(c, o)) + b[side][p][1].rem
  BY FillableWithoutFront
<1>2. Crossed(c, r) = Crossed(c, o) /\ r.rem = o.rem - b[side][p][1].rem
  BY CrossedSame DEF Reduced
<1> QED
  BY <1>1, <1>2

\* And an own order that r meets, o would have met.
LEMMA SelfTradeKept ==
  ASSUME NEW b, NEW c, NEW o, NEW r, NEW p, NEW side,
         side = Opposite(o.side), FrontGone(b, c, side, p), Crosses(o, p),
         NoneBetter(b, side, p),
         Reduced(r, o, b[side][p][1].rem), o.rem \in Int,
         NEW e \in Crossed(c, r),
         At(c, e).trader = r.trader, At(c, e).rem > 0,
         Quantity(c, Ahead(c, r, e)) < r.rem
  PROVE  \E d \in Crossed(b, o) :
             /\ At(b, d).trader = o.trader
             /\ At(b, d).rem > 0
             /\ Quantity(b, Ahead(b, o, d)) < o.rem
<1>1. /\ Crossed(c, r) = Crossed(c, o)
      /\ Ahead(c, r, e) = Ahead(c, o, e)
      /\ r.rem = o.rem - b[side][p][1].rem /\ r.trader = o.trader
  BY CrossedSame DEF Reduced
<1> DEFINE d == Shifted(side, p, e)
<1>2. /\ d \in Crossed(b, o)
      /\ At(b, d) = At(c, e)
      /\ Quantity(c, Ahead(c, o, e)) \in Nat
      /\ b[side][p][1].rem \in Nat
      /\ Quantity(b, Ahead(b, o, d)) =
             Quantity(c, Ahead(c, o, e)) + b[side][p][1].rem
  <2>1. e \in Crossed(c, o)
    BY <1>1
  <2> QED
    BY ONLY <2>1, AheadWithoutFront, side = Opposite(o.side), Crosses(o, p),
       FrontGone(b, c, side, p),
       NoneBetter(b, side, p)
<1> HIDE DEF d
<1>3. Quantity(b, Ahead(b, o, d)) < o.rem
  BY <1>1, <1>2
<1> QED
  BY <1>1, <1>2, <1>3

\* So what the gates found still holds when the front entry goes.
LEMMA GatesWithoutFront ==
  ASSUME TypeOK, NEW p \in Prices, AtLevel(p), NEW side,
         side = Opposite(incoming.side),
         FrontGone(book, book', side, p),
         Reduced(incoming', incoming, book[side][p][1].rem)
  PROVE  /\ canFullyFill(incoming) => canFullyFill(incoming)'
         /\ ~wouldSelfTrade(incoming) => ~wouldSelfTrade(incoming)'
<1>1. Crosses(incoming, p)
  BY DEF AtLevel
<1>2. NoneBetter(book, side, p)
  BY DEF AtLevel, IsFront, NoneBetter
<1>3. incoming.rem \in Int
  BY DEF TypeOK, Order, NoOrder
<1>4. ASSUME canFullyFill(incoming) PROVE canFullyFill(incoming)'
  <2>1. Quantity(book, Crossed(book, incoming)) >= incoming.rem
    BY <1>4 DEF canFullyFill
  <2>2. Quantity(book', Crossed(book', incoming')) >= incoming'.rem
    BY ONLY <1>1, <1>3, <2>1, FillableKept, side = Opposite(incoming.side),
       FrontGone(book, book', side, p),
       Reduced(incoming', incoming, book[side][p][1].rem)
  <2> QED
    BY <2>2 DEF canFullyFill
<1>5. ASSUME ~wouldSelfTrade(incoming), wouldSelfTrade(incoming)' PROVE FALSE
  <2>1. PICK e \in Crossed(book', incoming') :
          /\ At(book', e).trader = incoming'.trader
          /\ At(book', e).rem > 0
          /\ Quantity(book', Ahead(book', incoming', e)) < incoming'.rem
    BY <1>5 DEF wouldSelfTrade
  <2>2. \E d \in Crossed(book, incoming) :
            /\ At(book, d).trader = incoming.trader
            /\ At(book, d).rem > 0
            /\ Quantity(book, Ahead(book, incoming, d)) < incoming.rem
    BY ONLY <1>1, <1>2, <1>3, <2>1, SelfTradeKept, e \in Crossed(book', incoming'),
       side = Opposite(incoming.side), FrontGone(book, book', side, p),
       Reduced(incoming', incoming, book[side][p][1].rem)
  <2> QED
    BY <1>5, <2>2 DEF wouldSelfTrade
<1> QED
  BY <1>4, <1>5

\* When nothing is left of the incoming order, the gates have nothing to say.
LEMMA GatesWhenFilled ==
  ASSUME TypeOK', incoming'.rem = 0
  PROVE  canFullyFill(incoming)' /\ ~wouldSelfTrade(incoming)'
<1> DEFINE c == book'
           r == incoming'
<1>1. c \in BookType
  BY DEF TypeOK, BookType
<1>2. /\ Crossed(c, r) \in SUBSET Entries(c)
      /\ \A e : Ahead(c, r, e) \in SUBSET Entries(c)
  BY DEF Crossed, Ahead
<1>3. /\ Quantity(c, Crossed(c, r)) \in Nat
      /\ \A e : Quantity(c, Ahead(c, r, e)) \in Nat
  BY <1>1, <1>2, QuantityType
<1>4. Quantity(c, Crossed(c, r)) >= r.rem
  BY <1>3
<1>5. \A e : ~(Quantity(c, Ahead(c, r, e)) < r.rem)
  BY <1>3
<1>6. canFullyFill(incoming)'
  BY <1>4 DEF canFullyFill
<1>7. ~wouldSelfTrade(incoming)'
  BY <1>5 DEF wouldSelfTrade
<1> QED
  BY <1>6, <1>7

\* The loop keeps what the gates found.
LEMMA GateStep ==
  TypeOK /\ TypeOK' /\ CallInv /\ GateInv /\ [Next]_vars => GateInv'
<1> SUFFICES ASSUME TypeOK, TypeOK', CallInv, GateInv, [Next]_vars, pc' = "match"
             PROVE  /\ incoming'.type = "FOK" /\ stp' # "CANCEL_OLDEST" =>
                           canFullyFill(incoming)'
                    /\ stp' \in {"CANCEL_NEWEST", "CANCEL_BOTH"} =>
                           ~wouldSelfTrade(incoming)'
  BY DEF GateInv
<1> DEFINE side == Opposite(incoming.side)
<1>b. book \in BookType /\ side \in Sides
  BY OppositeType DEF TypeOK, BookType
<1>1. CASE EnterLoop
  <2>1. book' = book /\ incoming' = incoming /\ stp' = stp
    BY <1>1 DEF EnterLoop
  <2>2. incoming.type = "FOK" => canFullyFill(incoming)
    BY <1>1 DEF EnterLoop, PassesFOK
  <2>3. stp \in {"CANCEL_NEWEST", "CANCEL_BOTH"} => ~wouldSelfTrade(incoming)
    BY <1>1 DEF EnterLoop, SelfTradeStopped
  <2>4. /\ canFullyFill(incoming) => canFullyFill(incoming)'
        /\ ~wouldSelfTrade(incoming) => ~wouldSelfTrade(incoming)'
    BY <2>1 DEF canFullyFill, wouldSelfTrade
  <2> QED
    BY <2>1, <2>2, <2>3, <2>4
<1>2. CASE StpCancelOldest
  BY <1>2 DEF StpCancelOldest
<1>3. CASE PopFilled
  <2>1. PICK p \in Prices :
          /\ AtLevel(p)
          /\ Head(book[side][p]).rem = 0
          /\ book' = [book EXCEPT ![side][p] = Tail(book[side][p])]
    BY <1>3 DEF PopFilled
  <2>2. incoming' = incoming /\ stp' = stp /\ pc = "match"
    BY <1>3 DEF PopFilled
  <2>3. book[side][p] # <<>>
    BY <2>1 DEF AtLevel, IsFront
  <2>4. FrontGone(book, book', side, p)
    <3> HIDE DEF side
    <3> QED
      BY <1>b, <2>1, <2>3, PoppedFrontGone
  <2>5. book[side][p][1].rem = 0
    BY <1>b, <2>1, <2>3, FrontType
  <2>6. Reduced(incoming', incoming, book[side][p][1].rem)
    BY <2>2, <2>5, BookAssumption DEF Reduced, TypeOK, Order, NoOrder
  <2>7. /\ canFullyFill(incoming) => canFullyFill(incoming)'
        /\ ~wouldSelfTrade(incoming) => ~wouldSelfTrade(incoming)'
    BY <2>1, <2>4, <2>6, GatesWithoutFront
  <2> QED
    BY <2>2, <2>7 DEF GateInv
<1>4. CASE ExecuteTrade
  <2>1. PICK p \in Prices :
          LET n == TradeQty(Head(book[side][p]))
          IN  /\ AtLevel(p)
              /\ Head(book[side][p]).rem > 0
              /\ incoming' = [incoming EXCEPT !.rem = @ - n]
              /\ book' = [book EXCEPT ![side][p] = FrontFilled(@, n)]
    BY <1>4 DEF ExecuteTrade
  <2> DEFINE q == book[side][p]
             n == TradeQty(Head(q))
  <2>2. /\ q # <<>> /\ Head(q) = q[1] /\ Head(q) \in RestingOrder
        /\ incoming.rem > 0 /\ pc = "match" /\ stp' = stp
    BY <1>b, <1>4, <2>1, FrontType DEF AtLevel, IsFront, ExecuteTrade
  <2>3. incoming \in Order
    BY <2>2 DEF TypeOK, NoOrder
  <2>4. /\ n \in Nat
        /\ n = incoming.rem \/ n = q[1].rem
    BY <2>1, <2>2, <2>3, BookAssumption DEF TradeQty, RestingOrder, Order
  <2>5. incoming' = [incoming EXCEPT !.rem = incoming.rem - n]
    BY <2>1
  <2>6. book' = [book EXCEPT ![side][p] = FrontFilled(q, n)]
    BY <2>1
  <2> HIDE DEF n
  <2>7. Reduced(incoming', incoming, n)
    BY <2>3, <2>5 DEF Reduced, Order
  <2>8. CASE Head(q).rem = n
    <3>1. book' = [book EXCEPT ![side][p] = Tail(book[side][p])]
      BY <2>6, <2>8 DEF FrontFilled
    <3>2. FrontGone(book, book', side, p)
      <4> HIDE DEF side
      <4> QED
        BY <1>b, <2>2, <3>1, PoppedFrontGone
    <3>3. Reduced(incoming', incoming, book[side][p][1].rem)
      BY <2>2, <2>7, <2>8
    <3>4. /\ canFullyFill(incoming) => canFullyFill(incoming)'
          /\ ~wouldSelfTrade(incoming) => ~wouldSelfTrade(incoming)'
      BY <2>1, <3>2, <3>3, GatesWithoutFront
    <3>5. incoming'.type = incoming.type
      BY <2>7 DEF Reduced
    <3> QED
      BY <2>2, <3>4, <3>5 DEF GateInv
  <2>9. CASE Head(q).rem # n
    <3>1. incoming'.rem = incoming.rem - n /\ incoming.rem \in Int
      BY <2>3, <2>7 DEF Reduced, Order
    <3>2. incoming'.rem = 0
      BY <2>2, <2>4, <2>9, <3>1
    <3> QED
      BY <3>2, GatesWhenFilled
  <2> QED
    BY <2>8, <2>9
<1>5. CASE UNCHANGED bookVars
  <2>1. book' = book /\ incoming' = incoming /\ stp' = stp /\ pc' = pc
    BY <1>5 DEF bookVars
  <2>2. /\ canFullyFill(incoming) => canFullyFill(incoming)'
        /\ ~wouldSelfTrade(incoming) => ~wouldSelfTrade(incoming)'
    BY <2>1 DEF canFullyFill, wouldSelfTrade
  <2> QED
    BY <2>1, <2>2 DEF GateInv
<1>6. CASE ReplaceOrder
  BY <1>6, ReplaceMakesLimit
<1>7. CASE ProcessOrder \/ CancelOrder \/ SetSTPPolicy \/ Return
  BY <1>7 DEF ProcessOrder, StartMatch, CancelOrder, cancelOrder, SetSTPPolicy,
     setSTPPolicy, Return
<1>8. CASE Match
  <2>1. CASE RejectFOK \/ StpCancelNewest \/ StpCancelBoth \/ PurgeOwn \/ PurgeEnd
             \/ TradeThrows \/ EndMatch
    BY <2>1 DEF RejectFOK, StpCancelNewest, StpCancelBoth, PurgeOwn, PurgeEnd,
       TradeThrows, EndMatch
  <2> QED
    BY <1>1, <1>2, <1>3, <1>4, <1>8, <2>1 DEF Match, MatchOrder
<1> QED
  BY <1>5, <1>6, <1>7, <1>8
  DEF Next, ReplaceFails, PriorityExhausted, Halt, PublishEvent, vars

LEMMA CallInvariant == Spec => [](TypeOK /\ CallInv /\ GateInv)
<1>1. Init => CallInv /\ GateInv
  BY DEF Init, BookInit, CallInv, GateInv
<1>2. TypeOK /\ TypeOK' /\ CallInv /\ GateInv /\ [Next]_vars => CallInv' /\ GateInv'
  BY CallStep, GateStep
<1> QED
  BY <1>1, <1>2, TypeCorrect, PTL DEF Spec

\* Under CANCEL_NEWEST and CANCEL_BOTH no trade has one trader on both sides:
\* the walk of wouldSelfTrade over the book before the loop foresees every
\* trade the loop makes (matchOrder, OrderBook.cpp).
THEOREM SelfTradesPrevented == Spec => []NoSelfTrade
<1>1. TypeOK /\ CallInv /\ GateInv /\ NoSelfTrade /\ [Next]_vars => NoSelfTrade'
  <2> SUFFICES ASSUME TypeOK, CallInv, GateInv, NoSelfTrade, [Next]_vars,
                      stp' \in {"CANCEL_NEWEST", "CANCEL_BOTH"}
               PROVE  \A k \in DOMAIN trades' :
                         trades'[k].restingTrader # trades'[k].aggressorTrader
    BY DEF NoSelfTrade
  <2>1. CASE ExecuteTrade
    <3> DEFINE side == Opposite(incoming.side)
    <3>1. PICK p \in Prices :
          /\ AtLevel(p)
          /\ Head(book[side][p]).rem > 0
          /\ trades' = Append(trades,
                      [id |-> nextTradeId,
                       resting |-> Head(book[side][p]).id,
                       aggressor |-> incoming.id,
                       restingTrader |-> Head(book[side][p]).trader,
                       aggressorTrader |-> incoming.trader,
                       price |-> p, qty |-> TradeQty(Head(book[side][p]))])
      BY <2>1 DEF ExecuteTrade
    <3>2. stp' = stp /\ pc = "match"
      BY <2>1 DEF ExecuteTrade, AtLevel
    <3>3. ~wouldSelfTrade(incoming)
      BY <3>2 DEF GateInv
    <3> DEFINE x == Head(book[side][p])
               t == [id |-> nextTradeId, resting |-> x.id,
                     aggressor |-> incoming.id, restingTrader |-> x.trader,
                     aggressorTrader |-> incoming.trader,
                     price |-> p, qty |-> TradeQty(x)]
    <3>4. x.trader # incoming.trader
      BY <3>1, <3>3, FrontNotOwn
    <3> HIDE DEF x
    <3>5. t.restingTrader # t.aggressorTrader
      BY <3>4
    <3>6. trades' = Append(trades, t)
      BY <3>1 DEF x
    <3> HIDE DEF t
    <3>7. trades \in Seq(Trade)
      BY DEF TypeOK
    <3>8. \A k \in DOMAIN trades' :
              \/ trades'[k] = t
              \/ k \in DOMAIN trades /\ trades'[k] = trades[k]
      BY <3>6, <3>7
    <3> QED
      BY <3>2, <3>5, <3>8 DEF NoSelfTrade
  <2>2. CASE ~ExecuteTrade
    <3>1. trades' \in {trades, <<>>}
      BY <2>2, OnlyTradesLengthen
    <3>2. CASE trades' = <<>>
      BY <3>2
    <3>3. CASE trades' = trades /\ stp' = stp
      BY <3>3 DEF NoSelfTrade
    <3>4. CASE stp' # stp
      <4>1. pc = "idle" /\ trades' = trades
        BY <3>4, ReplaceMakesLimit
        DEF Next, vars, bookVars, SetSTPPolicy, setSTPPolicy, ProcessOrder,
          CancelOrder, cancelOrder, ReplaceFails, PriorityExhausted, Halt, Match,
          MatchOrder, RejectFOK, EnterLoop, StpCancelNewest, StpCancelOldest,
          StpCancelBoth, PurgeOwn, PurgeEnd, PopFilled, ExecuteTrade,
          TradeThrows, EndMatch, PublishEvent, Return
      <4> QED
        BY <4>1 DEF CallInv
    <3> QED
      BY <3>1, <3>2, <3>3, <3>4
  <2> QED
    BY <2>1, <2>2
<1>2. Init => NoSelfTrade
  BY DEF Init, BookInit, NoSelfTrade
<1> QED
  BY <1>1, <1>2, CallInvariant, PTL DEF Spec

-----------------------------------------------------------------------------
(* Sweeps.  The trades of an operation go through the book from its front;   *)
(* the invariant adds to the property that no trade is with the incoming     *)
(* order itself, which is why resting it brings nobody back.                 *)

\* No trade of the operation is with the incoming order's own id.
NotItself == \A k \in DOMAIN trades : trades[k].resting # incoming.id

\* Nobody on the other side is left at a better price than `price'.
NoneLeftAbove(price) ==
    \A p \in Prices :
        book[Opposite(incoming.side)][p] # <<>> =>
            ~Better(Opposite(incoming.side), p, price)

\* Trade l, after trade k, is at no better price and with another order.
InTurn(k, l) ==
    /\ ~Better(Opposite(incoming.side), trades[l].price, trades[k].price)
    /\ trades[l].resting # trades[k].resting

Sweep ==
    \A k \in DOMAIN trades :
        /\ \A l \in DOMAIN trades : k < l => InTurn(k, l)
        /\ NoneLeftAbove(trades[k].price)
        /\ k < Len(trades) \/ incoming.rem > 0 => Gone(trades[k].resting)

\* After the step no order of that id is in the book.
GoneAfter(id) ==
    \A side \in Sides, p \in Prices : \A i \in DOMAIN book'[side][p] :
        book'[side][p][i].id # id

\* An id that is not in the book does not come back, unless the incoming order
\* has it.
LEMMA GoneStays ==
  ASSUME TypeOK, [Next]_vars, NEW id, Gone(id), incoming.id # id
  PROVE  GoneAfter(id)
<1>b. book \in BookType
  BY DEF TypeOK, BookType
<1> SUFFICES ASSUME NEW s \in Sides, NEW r \in Prices,
                    NEW i \in DOMAIN book'[s][r]
             PROVE  book'[s][r][i].id # id
  BY DEF GoneAfter
<1>1. CASE book' = book
  BY <1>1 DEF Gone
<1>2. CASE ErasesEntry
  <2>1. PICK side \in Sides, p \in Prices :
            \E k \in DOMAIN book[side][p] : book' = Erased(side, p, k)
    BY <1>2 DEF ErasesEntry
  <2>2. PICK k \in DOMAIN book[side][p] : book' = Erased(side, p, k)
    BY <2>1
  <2>3. \E j \in DOMAIN book[s][r] : book'[s][r][i] = book[s][r][j]
    BY <1>b, <2>2, ErasedEntries
  <2> QED
    BY <2>3 DEF Gone
<1>3. CASE ResizesEntry
  <2>1. PICK side \in Sides, p \in Prices :
            \E k \in DOMAIN book[side][p] :
               \E o : Resized(o, book[side][p][k]) /\ book' = Modified(side, p, k, o)
    BY <1>3 DEF ResizesEntry
  <2>k. PICK k \in DOMAIN book[side][p] :
            \E o : Resized(o, book[side][p][k]) /\ book' = Modified(side, p, k, o)
    BY <2>1
  <2>2. PICK o : Resized(o, book[side][p][k]) /\ book' = Modified(side, p, k, o)
    BY <2>k
  <2>3. o \in RestingOrder /\ o.id = book[side][p][k].id /\ o.prio = book[side][p][k].prio
    BY <2>2 DEF Resized
  <2>4. /\ i \in DOMAIN book[s][r]
        /\ book'[s][r][i] = IF s = side /\ r = p /\ i = k
                            THEN o ELSE book[s][r][i]
    BY <1>b, <2>2, <2>3, ModifiedEntry
  <2> QED
    BY <2>3, <2>4 DEF Gone
<1>4. CASE JoinsIncoming
  <2>1. incoming \in RestingOrder /\ book' = Joined(incoming)
    BY <1>4 DEF JoinsIncoming
  <2>2. \/ i \in DOMAIN book[s][r] /\ book'[s][r][i] = book[s][r][i]
        \/ book'[s][r][i] = incoming
    BY <1>b, <2>1, JoinedEntries
  <2> QED
    BY <2>2 DEF Gone
<1> QED
  BY <1>1, <1>2, <1>3, <1>4, BookSteps

\* Nothing is put on the side an order is matched against while it is matched
\* and published.
LEMMA OtherSideShrinks ==
  ASSUME TypeOK, [Next]_vars, NEW r \in Prices,
         book'[Opposite(incoming.side)][r] # <<>>
  PROVE  book[Opposite(incoming.side)][r] # <<>>
<1> DEFINE side == Opposite(incoming.side)
<1>b. book \in BookType /\ side \in Sides
  BY OppositeType DEF TypeOK, BookType
<1>1. CASE ~EndMatch
  BY <1>1, <1>b, OnlyRestingOpensLevels DEF NoNewLevel
<1>2. CASE EndMatch
  <2>1. CASE book' = book
    BY <2>1
  <2>2. CASE book' # book
    <3>1. incoming.type = "LIMIT" /\ book' = Joined(incoming)
      BY <1>2, <2>2 DEF EndMatch, addOrder
    <3>2. incoming \in RestingOrder
      BY <3>1 DEF TypeOK, RestingOrder, NoOrder
    <3>3. side # incoming.side
      BY <3>2 DEF RestingOrder, Order, Sides, Opposite
    <3>4. \A i \in DOMAIN book'[side][r] : i \in DOMAIN book[side][r]
      BY <1>b, <3>1, <3>2, <3>3, JoinedEntries
    <3>5. Joined(incoming)[side][r] = book[side][r]
      BY <1>b, <3>2, <3>3 DEF Joined, BookType, RestingOrder, Order
    <3> QED
      BY <3>1, <3>5
  <2> QED
    BY <2>1, <2>2
<1> QED
  BY <1>1, <1>2

\* While trades are kept and none is added, the incoming order is as it was.
LEMMA QuietWhileTrades ==
  ASSUME TypeOK, CallInv, [Next]_vars, ~ExecuteTrade, trades' # <<>>
  PROVE  trades' = trades /\ incoming' = incoming
<1>1. trades' = trades
  BY OnlyTradesLengthen
<1>2. pc \in {"match", "done"}
  BY <1>1 DEF CallInv, TypeOK
<1>3. CASE Match
  BY <1>2, <1>3 DEF Match, MatchOrder, RejectFOK, EnterLoop, StpCancelNewest,
     StpCancelOldest, StpCancelBoth, PurgeOwn, PurgeEnd, PopFilled, TradeThrows,
     EndMatch
<1>4. CASE ReplaceOrder
  BY <1>2, <1>4, ReplaceMakesLimit
<1> QED
  BY <1>1, <1>2, <1>3, <1>4
  DEF Next, ProcessOrder, CancelOrder, cancelOrder, ReplaceFails, ReplaceCall,
      Ready, PriorityExhausted, Halt, SetSTPPolicy, setSTPPolicy, PublishEvent,
      Return, vars, bookVars

\* What one trade does: its partner was the front order of the front level, and
\* leaves the book unless the incoming order is used up.
LEMMA TradeSweeps ==
  ASSUME TypeOK, NoClash, ExecuteTrade
  PROVE  \E p \in Prices, t \in Trade :
            /\ trades' = Append(trades, t) /\ t.price = p
            /\ IsFront(Opposite(incoming.side), p)
            /\ \E i \in DOMAIN book[Opposite(incoming.side)][p] :
                   book[Opposite(incoming.side)][p][i].id = t.resting
            /\ t.resting # incoming.id
            /\ incoming.rem > 0
            /\ incoming'.id = incoming.id /\ incoming'.side = incoming.side
            /\ incoming'.rem > 0 => GoneAfter(t.resting)
<1> DEFINE side == Opposite(incoming.side)
<1>b. book \in BookType /\ side \in Sides
  BY OppositeType DEF TypeOK, BookType
<1>1. PICK p \in Prices :
        LET r == Head(book[side][p])
            n == TradeQty(r)
        IN  /\ AtLevel(p)
            /\ r.rem > 0
            /\ r.id # incoming.id
            /\ incoming' = [incoming EXCEPT !.rem = @ - n]
            /\ book' = [book EXCEPT ![side][p] = FrontFilled(@, n)]
            /\ trades' = Append(trades,
                  [id |-> nextTradeId,
                   resting |-> r.id, aggressor |-> incoming.id,
                   restingTrader |-> r.trader,
                   aggressorTrader |-> incoming.trader,
                   price |-> p, qty |-> n])
  BY DEF ExecuteTrade
<1> DEFINE q == book[side][p]
           r == Head(q)
           n == TradeQty(r)
           t == [id |-> nextTradeId,
                 resting |-> r.id, aggressor |-> incoming.id,
                 restingTrader |-> r.trader,
                 aggressorTrader |-> incoming.trader,
                 price |-> p, qty |-> n]
<1>2. incoming.rem > 0 /\ IsFront(side, p) /\ q # <<>>
  BY <1>1 DEF AtLevel, IsFront
<1>3. incoming \in Order
  BY <1>2 DEF TypeOK, NoOrder
<1>4. r = q[1] /\ r \in RestingOrder /\ 1 \in DOMAIN q /\ q \in Seq(RestingOrder)
  BY <1>b, <1>2, FrontType DEF BookType
<1>5. /\ r.rem \in Nat /\ r.rem <= MaxQty /\ incoming.rem \in Nat
      /\ incoming.rem <= MaxQty /\ r.rem > 0
  BY <1>1, <1>3, <1>4, BookAssumption DEF RestingOrder, Order
<1>6. n \in Quantities /\ (incoming.rem - n > 0 => n = r.rem)
  BY <1>2, <1>5, BookAssumption DEF TradeQty, Quantities
<1>7. /\ incoming'.rem = incoming.rem - n
      /\ incoming'.id = incoming.id /\ incoming'.side = incoming.side
  BY <1>1, <1>3 DEF Order
<1>8. t \in Trade
  BY <1>3, <1>4, <1>6 DEF Trade, TypeOK, RestingOrder, Order
<1>9. ASSUME incoming'.rem > 0
      PROVE  GoneAfter(r.id)
  <2>1. n = r.rem
    BY <1>6, <1>7, <1>9
  <2>2. book' = [book EXCEPT ![side][p] = Tail(q)]
    BY <1>1, <2>1 DEF FrontFilled
  <2>3. Tail(q) = RemoveAt(q, 1)
    BY <1>2, <1>4, TailIsErase
  <2>4. book' = Erased(side, p, 1)
    BY <2>2, <2>3 DEF Erased
  <2> HIDE DEF side, n, t
  <2> SUFFICES ASSUME NEW s \in Sides, NEW c \in Prices,
                      NEW i \in DOMAIN book'[s][c]
               PROVE  book'[s][c][i].id # r.id
    BY DEF GoneAfter
  <2>5. PICK j \in DOMAIN book[s][c] :
            /\ book'[s][c][i] = book[s][c][j]
            /\ ~(s = side /\ c = p /\ j = 1)
    BY <1>b, <1>4, <2>4, ErasedEntries
  <2>6. ~Clash(book[s][c][j], book[side][p][1])
    BY <1>b, <1>4, <2>5 DEF NoClash
  <2> QED
    BY <1>4, <2>5, <2>6 DEF Clash
<1>10. trades' = Append(trades, t) /\ t.price = p /\ t.resting = r.id
  BY <1>1
<1>11. r.id # incoming.id
  BY <1>1
<1> HIDE DEF t, r, n
<1>12. \E i \in DOMAIN q : q[i].id = t.resting
  BY <1>4, <1>10
<1> QED
  BY <1>2, <1>7, <1>8, <1>9, <1>10, <1>11, <1>12

\* A trade prolongs the sweep by one.
LEMMA SweepOn ==
  ASSUME TypeOK, NoClash, NotItself, Sweep, [Next]_vars, ExecuteTrade
  PROVE  NotItself' /\ Sweep'
<1> DEFINE side == Opposite(incoming.side)
<1>1. PICK p \in Prices, t \in Trade :
            /\ trades' = Append(trades, t) /\ t.price = p
            /\ IsFront(side, p)
            /\ \E i \in DOMAIN book[side][p] : book[side][p][i].id = t.resting
            /\ t.resting # incoming.id
            /\ incoming.rem > 0
            /\ incoming'.id = incoming.id /\ incoming'.side = incoming.side
            /\ incoming'.rem > 0 => GoneAfter(t.resting)
  BY TradeSweeps
<1>2. trades \in Seq(Trade) /\ Len(trades) \in Nat /\ side \in Sides
  BY OppositeType DEF TypeOK
<1>3. /\ Len(trades') = Len(trades) + 1
      /\ DOMAIN trades = 1 .. Len(trades)
      /\ DOMAIN trades' = 1 .. (Len(trades) + 1)
      /\ trades'[Len(trades) + 1] = t
      /\ \A k \in DOMAIN trades : trades'[k] = trades[k]
  BY <1>1, <1>2
<1>4. \A k \in DOMAIN trades' : k = Len(trades) + 1 \/ k \in DOMAIN trades
  BY <1>2, <1>3
<1>5. NotItself'
  BY <1>1, <1>3, <1>4 DEF NotItself
<1>6. \A k \in DOMAIN trades : Gone(trades[k].resting)
  BY <1>1 DEF Sweep
<1>7. \A k \in DOMAIN trades : GoneAfter(trades[k].resting)
  BY <1>6, GoneStays DEF NotItself
<1>8. \A c \in Prices : book'[side][c] # <<>> => book[side][c] # <<>>
  BY OtherSideShrinks
<1>9. \A k \in DOMAIN trades : ~Better(side, p, trades[k].price)
  BY <1>1 DEF Sweep, NoneLeftAbove, IsFront
<1>10. \A k \in DOMAIN trades : t.resting # trades[k].resting
  BY <1>1, <1>2, <1>6 DEF Gone
<1> SUFFICES ASSUME NEW k \in DOMAIN trades'
             PROVE  /\ \A l \in DOMAIN trades' : k < l => InTurn(k, l)'
                    /\ NoneLeftAbove(trades[k].price)'
                    /\ k < Len(trades') \/ incoming'.rem > 0 =>
                           GoneAfter(trades'[k].resting)
  BY <1>5 DEF Sweep, Gone, GoneAfter
<1>11. CASE k \in DOMAIN trades
  <2>1. trades'[k] = trades[k]
    BY <1>3, <1>11
  <2>2. ASSUME NEW l \in DOMAIN trades', k < l
        PROVE  InTurn(k, l)'
    <3>1. CASE l \in DOMAIN trades
      <4>1. InTurn(k, l) /\ trades'[l] = trades[l]
        BY <1>3, <1>11, <2>2, <3>1 DEF Sweep
      <4> QED
        BY <1>1, <2>1, <4>1 DEF InTurn
    <3>2. CASE l = Len(trades) + 1
      <4>1. trades'[l] = t
        BY <1>3, <3>2
      <4> QED
        BY <1>1, <1>9, <1>10, <1>11, <2>1, <4>1 DEF InTurn
    <3> QED
      BY <1>4, <3>1, <3>2
  <2>3. NoneLeftAbove(trades[k].price)'
    BY <1>1, <1>8, <1>11, <2>1 DEF NoneLeftAbove, Sweep
  <2>4. GoneAfter(trades'[k].resting)
    BY <1>7, <1>11, <2>1
  <2> QED
    BY <2>2, <2>3, <2>4
<1>12. CASE k = Len(trades) + 1
  <2>1. trades'[k] = t /\ ~(k < Len(trades'))
    BY <1>2, <1>3, <1>12
  <2>2. ASSUME NEW l \in DOMAIN trades', k < l
        PROVE  FALSE
    BY <1>2, <1>3, <1>12, <2>2
  <2>3. NoneLeftAbove(trades[k].price)'
    BY <1>1, <1>8, <2>1 DEF NoneLeftAbove, IsFront
  <2> QED
    BY <1>1, <2>1, <2>2, <2>3
<1> QED
  BY <1>4, <1>11, <1>12

\* Every step keeps the sweep in order.
LEMMA SweepStep ==
  ASSUME TypeOK, CallInv, NoClash, NotItself, Sweep, [Next]_vars
  PROVE  NotItself' /\ Sweep'
<1>1. CASE ExecuteTrade
  BY <1>1, SweepOn
<1>2. CASE trades' = <<>>
  BY <1>2 DEF NotItself, Sweep
<1>3. CASE ~ExecuteTrade /\ trades' # <<>>
  <2>1. trades' = trades /\ incoming' = incoming
    BY <1>3, QuietWhileTrades
  <2>2. \A c \in Prices : book'[Opposite(incoming.side)][c] # <<>> =>
            book[Opposite(incoming.side)][c] # <<>>
    BY OtherSideShrinks
  <2>3. NotItself'
    BY <2>1 DEF NotItself
  <2> SUFFICES ASSUME NEW k \in DOMAIN trades
               PROVE  /\ \A l \in DOMAIN trades : k < l => InTurn(k, l)'
                      /\ NoneLeftAbove(trades[k].price)'
                      /\ k < Len(trades) \/ incoming.rem > 0 =>
                             GoneAfter(trades[k].resting)
    BY <2>1, <2>3 DEF Sweep, Gone, GoneAfter
  <2>4. \A l \in DOMAIN trades : k < l => InTurn(k, l)'
    BY <2>1 DEF Sweep, InTurn
  <2>5. NoneLeftAbove(trades[k].price)'
    BY <2>1, <2>2 DEF Sweep, NoneLeftAbove
  <2>6. k < Len(trades) \/ incoming.rem > 0 => GoneAfter(trades[k].resting)
    BY GoneStays DEF Sweep, NotItself
  <2> QED
    BY <2>4, <2>5, <2>6
<1> QED
  BY <1>1, <1>2, <1>3

\* Through all the trades of an operation the price never gets better again,
\* no order trades twice, nobody is left at a better price than one that
\* traded, and only the last partner of a used-up order stays in the book, for
\* every number of orders and levels (the loop of matchOrder).
THEOREM SweepsInOrder == Spec => []SweepOrdered
<1>1. Init => NotItself /\ Sweep
  BY DEF Init, BookInit, NotItself, Sweep
<1>2. TypeOK /\ CallInv /\ (FreshIds => Identities)
        /\ (FreshIds => NotItself /\ Sweep) /\ [Next]_vars
        => (FreshIds => NotItself /\ Sweep)'
  BY SweepStep DEF Identities
<1>3. (FreshIds => NotItself /\ Sweep) => SweepOrdered
  BY DEF Sweep, SweepOrdered, InTurn, NoneLeftAbove
<1> QED
  BY <1>1, <1>2, <1>3, CallInvariant, IdentitiesInvariant, PTL DEF Spec

-----------------------------------------------------------------------------
(* Fill or kill *)

\* A book without a level that o crosses has no place that o crosses.
LEMMA NothingCrossed ==
  ASSUME NEW b \in BookType, NEW o,
         \A p \in Prices : b[Opposite(o.side)][p] # <<>> => ~Crosses(o, p)
  PROVE  Quantity(b, Crossed(b, o)) = 0
<1>1. ASSUME NEW e \in Crossed(b, o) PROVE FALSE
  <2>1. e \in Entries(b) /\ e[1] = Opposite(o.side) /\ Crosses(o, e[2])
    BY DEF Crossed
  <2>2. /\ e[1] \in Sides /\ e[2] \in Prices /\ e[3] \in DOMAIN b[e[1]][e[2]]
    BY <2>1, PlaceFields
  <2>3. b[e[1]][e[2]] # <<>>
    BY <2>2
  <2> QED
    BY <2>1, <2>2, <2>3
<1>2. Crossed(b, o) = {}
  BY <1>1
<1> QED
  BY <1>2, NoQuantity

\* A FOK order trades in full or not at all, unless CANCEL_OLDEST has taken
\* away liquidity that canFullyFill counted: as long as canFullyFill holds, the
\* loop cannot end for want of a level with something left to fill
\* (canFullyFill and matchOrder, OrderBook.cpp).
THEOREM FillOrKill == Spec => []FOKAtomic
<1>1. TypeOK /\ CallInv /\ GateInv /\ FOKAtomic /\ [Next]_vars => FOKAtomic'
  <2> SUFFICES ASSUME TypeOK, CallInv, GateInv, FOKAtomic, [Next]_vars,
                      stp' # "CANCEL_OLDEST", pc' = "done", incoming'.type = "FOK"
               PROVE  incoming'.rem = 0 \/ incoming'.rem = incoming'.qty
    BY DEF FOKAtomic
  <2>n. NoOrder.type = "MARKET"
    BY DEF NoOrder
  <2>1. CASE EndMatch
    <3>1. pc = "match" /\ incoming' = incoming /\ stp' = stp
      BY <2>1 DEF EndMatch
    <3>2. incoming \in Order /\ incoming.rem \in Nat
      BY <3>1, BookAssumption DEF CallInv, Order
    <3>3. CASE incoming.rem = 0
      BY <3>1, <3>3
    <3>4. CASE incoming.rem # 0
      <4>1. Quantity(book, Crossed(book, incoming)) >= incoming.rem
        BY <3>1 DEF GateInv, canFullyFill
      <4>2. \A p \in Prices :
                book[Opposite(incoming.side)][p] # <<>> => ~Crosses(incoming, p)
        BY <2>1, <3>4 DEF EndMatch
      <4>3. book \in BookType
        BY DEF TypeOK, BookType
      <4>4. Quantity(book, Crossed(book, incoming)) = 0
        BY <4>2, <4>3, NothingCrossed
      <4> QED
        BY <3>2, <3>4, <4>1, <4>4
    <3> QED
      BY <3>3, <3>4
  <2>2. CASE RejectFOK \/ StpCancelNewest \/ PurgeEnd
    BY <2>2 DEF RejectFOK, StpCancelNewest, PurgeEnd, CallInv
  <2>3. CASE UNCHANGED bookVars
    BY <2>3 DEF bookVars, FOKAtomic
  <2>4. CASE ReplaceOrder
    BY <2>4, <2>n, ReplaceMakesLimit
  <2>5. CASE CancelOrder
    BY <2>5, <2>n DEF CancelOrder, cancelOrder, Ready, CallInv
  <2>6. CASE ProcessOrder \/ SetSTPPolicy \/ Return
    BY <2>6 DEF ProcessOrder, StartMatch, SetSTPPolicy, setSTPPolicy, Return
  <2>7. CASE Match
    <3>1. CASE EnterLoop \/ StpCancelOldest \/ StpCancelBoth \/ PurgeOwn
               \/ PopFilled \/ ExecuteTrade \/ TradeThrows
      BY <3>1 DEF EnterLoop, StpCancelOldest, StpCancelBoth, PurgeOwn, PopFilled,
         ExecuteTrade, TradeThrows, AtLevel
    <3> QED
      BY <2>1, <2>2, <2>7, <3>1 DEF Match, MatchOrder
  <2> QED
    BY <2>3, <2>4, <2>5, <2>6, <2>7
    DEF Next, ReplaceFails, PriorityExhausted, Halt, PublishEvent, vars
<1>2. Init => FOKAtomic
  BY DEF Init, BookInit, FOKAtomic
<1> QED
  BY <1>1, <1>2, CallInvariant, PTL DEF Spec

-----------------------------------------------------------------------------
(* Orders announced as accepted *)

\* Every order is in the queue of its own side and price.
InPlace ==
    \A side \in Sides, p \in Prices : \A i \in DOMAIN book[side][p] :
        book[side][p][i].side = side /\ book[side][p][i].price = p

LEMMA InPlaceStep == TypeOK /\ InPlace /\ [Next]_vars => InPlace'
<1> SUFFICES ASSUME TypeOK, InPlace, [Next]_vars,
                    NEW s \in Sides, NEW r \in Prices, NEW i \in DOMAIN book'[s][r]
             PROVE  book'[s][r][i].side = s /\ book'[s][r][i].price = r
  BY DEF InPlace
<1>b. book \in BookType
  BY DEF TypeOK, BookType
<1>1. CASE book' = book
  BY <1>1 DEF InPlace
<1>2. CASE ErasesEntry
  <2>1. PICK side \in Sides, p \in Prices : \E k \in DOMAIN book[side][p] :
            book' = Erased(side, p, k)
    BY <1>2 DEF ErasesEntry
  <2>2. \E j \in DOMAIN book[s][r] : book'[s][r][i] = book[s][r][j]
    BY <1>b, <2>1, ErasedEntries
  <2> QED
    BY <2>2 DEF InPlace
<1>3. CASE ResizesEntry
  <2>1. PICK side \in Sides, p \in Prices : \E k \in DOMAIN book[side][p] :
          \E o : Resized(o, book[side][p][k]) /\ book' = Modified(side, p, k, o)
    BY <1>3 DEF ResizesEntry
  <2>k. PICK k \in DOMAIN book[side][p] :
          \E o : Resized(o, book[side][p][k]) /\ book' = Modified(side, p, k, o)
    BY <2>1
  <2>2. PICK o : Resized(o, book[side][p][k]) /\ book' = Modified(side, p, k, o)
    BY <2>k
  <2>3. /\ o \in RestingOrder
        /\ o.id = book[side][p][k].id /\ o.prio = book[side][p][k].prio
        /\ o.side = side /\ o.price = p
    BY <2>2 DEF Resized, InPlace
  <2>4. /\ i \in DOMAIN book[s][r]
        /\ book'[s][r][i] = IF s = side /\ r = p /\ i = k
                            THEN o ELSE book[s][r][i]
    BY <1>b, <2>2, <2>3, ModifiedEntry
  <2> QED
    BY <2>3, <2>4 DEF InPlace
<1>4. CASE JoinsIncoming
  <2>1. incoming \in RestingOrder /\ book' = Joined(incoming)
    BY <1>4 DEF JoinsIncoming
  <2>2. \/ i \in DOMAIN book[s][r] /\ book'[s][r][i] = book[s][r][i]
        \/ s = incoming.side /\ r = incoming.price /\ book'[s][r][i] = incoming
    BY <1>b, <2>1, JoinedEntries
  <2> QED
    BY <2>2 DEF InPlace
<1> QED
  BY <1>1, <1>2, <1>3, <1>4, BookSteps

LEMMA InPlaceInvariant == Spec => []InPlace
<1>1. Init => InPlace
  BY DEF Init, BookInit, InPlace
<1> QED
  BY <1>1, InPlaceStep, TypeCorrect, PTL DEF Spec

\* An order that joins the book is the last one of its queue.
LEMMA JoinedIsThere ==
  ASSUME book \in BookType, NEW o \in RestingOrder
  PROVE  \E i \in DOMAIN Joined(o)[o.side][o.price] :
             Joined(o)[o.side][o.price][i] = o
<1> DEFINE q == book[o.side][o.price]
           a == Append(q, o)
<1>1. o.side \in Sides /\ o.price \in Prices
  BY DEF RestingOrder, Order
<1>2. q \in Seq(RestingOrder) /\ Len(q) \in Nat
  BY <1>1, LenProperties DEF BookType
<1>3. /\ a \in Seq(RestingOrder)
      /\ DOMAIN a = 1 .. Len(q) + 1
      /\ a[Len(q) + 1] = o
  BY <1>2, AppendProperties, LenProperties
<1>4. Joined(o)[o.side][o.price] = a
  <2>1. Joined(o) = [book EXCEPT ![o.side][o.price] = a]
    BY DEF Joined
  <2> HIDE DEF a
  <2> QED
    BY <1>1, <1>3, <2>1, LevelUpdate
<1> HIDE DEF q, a
<1> QED
  BY <1>2, <1>3, <1>4

\* The order a replace announces as accepted is the one it left in the book.
LEMMA ReplacedIsThere ==
  ASSUME TypeOK, InPlace, ReplaceOrder, pc' = "done", AnnouncesAccepted'
  PROVE  \E i \in DOMAIN book'[incoming'.side][incoming'.price] :
             book'[incoming'.side][incoming'.price][i] = incoming'
<1>b. book \in BookType
  BY DEF TypeOK, BookType
<1>1. PICK id \in OrderIds, side \in Sides, p \in Prices, price \in Prices,
           qty \in 0 .. MaxQty :
        \E i \in DOMAIN book[side][p] :
          replaceOrder(side, p, i, price, qty,
                       ReplacePriority(book[side][p][i], price, qty))
  BY DEF ReplaceOrder
<1>2. PICK i \in DOMAIN book[side][p] :
          replaceOrder(side, p, i, price, qty,
                       ReplacePriority(book[side][p][i], price, qty))
  BY <1>1
<1>a. incoming'.rem > 0
  BY DEF AnnouncesAccepted
<1>3. CASE ReplaceByCancel(side, p, i)
  BY <1>3, <1>a DEF ReplaceByCancel, NoOrder
<1>4. CASE ReplaceByRematch(side, p, i, price, qty,
                            ReplacePriority(book[side][p][i], price, qty))
  <2>1. incoming'.rem = 0
    BY <1>4 DEF ReplaceByRematch
  <2> QED
    BY <1>a, <2>1
<1>5. CASE qty > 0 /\ ReplaceInPlace(side, p, i, qty)
  <2> DEFINE o == book[side][p][i]
             new == [o EXCEPT !.qty = qty, !.rem = qty - AlreadyFilled(o)]
  <2>1. /\ o \in RestingOrder /\ ~ReplaceRefused(o, qty)
        /\ o.side = side /\ o.price = p
    BY <1>b, <1>2, EntryType DEF replaceOrder, InPlace
  <2>2. o.qty \in 1 .. MaxQty /\ o.rem \in 0 .. MaxQty /\ o.rem <= o.qty
    BY <2>1 DEF RestingOrder, Order, Quantities
  <2>3. /\ qty \in 1 .. MaxQty
        /\ qty - AlreadyFilled(o) \in 0 .. MaxQty
        /\ qty - AlreadyFilled(o) <= qty
    BY <1>5, <2>1, <2>2, BookAssumption DEF ReplaceRefused, AlreadyFilled
  <2>4. /\ new \in RestingOrder /\ new.id = o.id /\ new.prio = o.prio
        /\ new.side = side /\ new.price = p
    BY <2>1, <2>3 DEF RestingOrder, Order, Quantities
  <2>5. book' = Modified(side, p, i, new) /\ incoming' = new
    BY <1>5 DEF ReplaceInPlace, Modified
  <2> HIDE DEF new
  <2>6. /\ i \in DOMAIN book'[side][p]
        /\ book'[side][p][i] = new
    BY <1>b, <2>4, <2>5, ModifiedEntry
  <2> QED
    BY <2>4, <2>5, <2>6
<1> QED
  BY <1>2, <1>3, <1>4, <1>5 DEF replaceOrder

\* An order announced as accepted rests in the book as announced, when the
\* policy does not cancel incoming orders and the pool has a slot: the engine
\* announces it without looking at what addOrder did (processOrder and
\* replaceOrder, MatchingEngine.cpp; matchOrder, OrderBook.cpp).
THEOREM AnnouncedRests == Spec => []AcceptedRests
<1>1. TypeOK /\ CallInv /\ InPlace /\ AcceptedRests /\ [Next]_vars
        => AcceptedRests'
  <2> SUFFICES ASSUME TypeOK, CallInv, InPlace, AcceptedRests, [Next]_vars,
                      pc' = "done", AnnouncesAccepted',
                      stp' \in {"NONE", "CANCEL_OLDEST"},
                      getOrderCount' < PoolCapacity
               PROVE  \E i \in DOMAIN book'[incoming'.side][incoming'.price] :
                          book'[incoming'.side][incoming'.price][i] = incoming'
    BY DEF AcceptedRests
  <2>a. incoming'.rem > 0 /\ incoming'.type = "LIMIT"
    BY DEF AnnouncesAccepted
  <2>n. NoOrder.type = "MARKET"
    BY DEF NoOrder
  <2>b. book \in BookType
    BY DEF TypeOK, BookType
  <2>1. CASE EndMatch
    <3>1. pc = "match" /\ incoming' = incoming /\ addOrder(incoming)
      BY <2>1, <2>a DEF EndMatch
    <3>2. incoming \in RestingOrder
      BY <2>a, <3>1 DEF CallInv, RestingOrder
    <3>3. CASE book' = Joined(incoming)
      BY <2>b, <3>1, <3>2, <3>3, JoinedIsThere
    <3>4. CASE book' # Joined(incoming)
      <4>1. book' = book /\ ~(getOrderCount < PoolCapacity)
        BY <3>1, <3>4 DEF addOrder
      <4>2. getOrderCount' = getOrderCount
        BY <4>1 DEF getOrderCount
      <4> QED
        BY <4>1, <4>2
    <3> QED
      BY <3>3, <3>4
  <2>2. CASE RejectFOK
    BY <2>2, <2>a DEF RejectFOK, PassesFOK
  <2>3. CASE StpCancelNewest \/ PurgeEnd
    BY <2>3 DEF StpCancelNewest, PurgeEnd, CallInv
  <2>4. CASE UNCHANGED bookVars
    <3>1. book' = book /\ incoming' = incoming /\ stp' = stp /\ pc' = pc
      BY <2>4 DEF bookVars
    <3>2. getOrderCount' = getOrderCount
      BY <3>1 DEF getOrderCount
    <3>3. AnnouncesAccepted
      BY <2>a, <3>1 DEF AnnouncesAccepted
    <3> QED
      BY <3>1, <3>2, <3>3 DEF AcceptedRests
  <2>5. CASE ReplaceOrder
    BY <2>5, ReplacedIsThere
  <2>6. CASE CancelOrder
    BY <2>6, <2>a, <2>n DEF CancelOrder, cancelOrder, Ready, CallInv
  <2>7. CASE ProcessOrder \/ SetSTPPolicy \/ Return
    BY <2>7, <2>a, <2>n DEF ProcessOrder, StartMatch, SetSTPPolicy, setSTPPolicy,
       Return
  <2>8. CASE Match
    <3>1. CASE EnterLoop \/ StpCancelOldest \/ StpCancelBoth \/ PurgeOwn
               \/ PopFilled \/ ExecuteTrade \/ TradeThrows
      BY <3>1 DEF EnterLoop, StpCancelOldest, StpCancelBoth, PurgeOwn, PopFilled,
         ExecuteTrade, TradeThrows, AtLevel
    <3> QED
      BY <2>1, <2>2, <2>3, <2>8, <3>1 DEF Match, MatchOrder
  <2> QED
    BY <2>4, <2>5, <2>6, <2>7, <2>8
    DEF Next, ReplaceFails, PriorityExhausted, Halt, PublishEvent, vars
<1>2. Init => AcceptedRests
  BY DEF Init, BookInit, AcceptedRests
<1> QED
  BY <1>1, <1>2, CallInvariant, InPlaceInvariant, PTL DEF Spec

-----------------------------------------------------------------------------
(* The loops of matchOrder come to an end *)

\* Erasing an entry leaves one order less in the book.
LEMMA ErasedCount ==
  ASSUME book \in BookType, NEW side \in Sides, NEW p \in Prices,
         NEW k \in DOMAIN book[side][p],
         book' = Erased(side, p, k)
  PROVE  /\ getOrderCount \in Nat /\ getOrderCount' \in Nat
         /\ getOrderCount' < getOrderCount
<1> DEFINE q == book[side][p]
           last == <<side, p, Len(q)>>
           E == Entries(book)
           F == Entries(book')
<1>1. /\ book' \in BookType
      /\ \A s \in Sides, r \in Prices :
             book'[s][r] = IF s = side /\ r = p THEN RemoveAt(q, k) ELSE book[s][r]
  BY ErasedType
<1>2. q \in Seq(RestingOrder)
  BY DEF BookType
<1>3. Len(q) \in Nat /\ DOMAIN q = 1 .. Len(q) /\ Len(q) \in DOMAIN q
  BY <1>2, LenProperties
<1>4. book'[side][p] \in Seq(RestingOrder) /\ Len(book'[side][p]) = Len(q) - 1
  <2>1. book'[side][p] = RemoveAt(q, k)
    BY <1>1
  <2> QED
    BY <1>2, <2>1, RemoveAtProperties
<1>5. DOMAIN book'[side][p] = 1 .. Len(q) - 1
  BY <1>4, LenProperties
<1>6. \A s \in Sides, r \in Prices :
          ~(s = side /\ r = p) => book'[s][r] = book[s][r]
  BY <1>1
<1>7. F \subseteq E
  <2> SUFFICES ASSUME NEW e \in F PROVE e \in E
    OBVIOUS
  <2>1. PICK s \in Sides, r \in Prices : \E i \in DOMAIN book'[s][r] : e = <<s, r, i>>
    BY PlaceOfEntry
  <2>2. PICK i \in DOMAIN book'[s][r] : e = <<s, r, i>>
    BY <2>1
  <2>3. i \in DOMAIN book[s][r]
    BY <1>3, <1>5, <1>6, <2>2
  <2> QED
    BY <2>2, <2>3, PlaceOfEntry
<1>8. last \in E
  BY <1>3, PlaceOfEntry
<1>9. last \notin F
  <2> SUFFICES ASSUME last \in F PROVE FALSE
    OBVIOUS
  <2>1. PICK s \in Sides, r \in Prices : \E i \in DOMAIN book'[s][r] : last = <<s, r, i>>
    BY PlaceOfEntry
  <2>2. s = side /\ r = p /\ Len(q) \in DOMAIN book'[side][p]
    BY <2>1
  <2> QED
    BY <1>3, <1>5, <2>2
<1>10. IsFiniteSet(E) /\ IsFiniteSet(F)
  BY <1>1, EntriesFinite
<1> HIDE DEF E, F, last
<1>11. /\ Cardinality(E) \in Nat /\ Cardinality(F) \in Nat
       /\ Cardinality(F) < Cardinality(E)
  <2>1. Cardinality(E) \in Nat /\ Cardinality(F) \in Nat
    BY <1>10, FS_CardinalityType
  <2>2. Cardinality(F) <= Cardinality(E) /\ (Cardinality(F) = Cardinality(E) => F = E)
    BY <1>7, <1>10, FS_Subset
  <2> QED
    BY <1>8, <1>9, <2>1, <2>2
<1> QED
  BY <1>11 DEF getOrderCount, E, F

\* Changing an order in place leaves their number alone.
LEMMA ResizedCount ==
  ASSUME book \in BookType, ResizesEntry
  PROVE  getOrderCount \in Nat /\ getOrderCount' = getOrderCount
<1>1. PICK side \in Sides, p \in Prices : \E k \in DOMAIN book[side][p] :
        \E o : Resized(o, book[side][p][k]) /\ book' = Modified(side, p, k, o)
  BY DEF ResizesEntry
<1>2. \A s \in Sides, r \in Prices : DOMAIN book'[s][r] = DOMAIN book[s][r]
  BY <1>1, ModifiedEntry DEF Resized
<1>3. \A e : e \in Entries(book') <=> e \in Entries(book)
  BY <1>2, PlaceOfEntry
<1>4. Entries(book') = Entries(book)
  BY <1>3
<1> QED
  BY <1>4, EntriesFinite, FS_CardinalityType DEF getOrderCount

\* A step of one of the loops of matchOrder brings it nearer to its end: the
\* purge and the matching loop cannot go round for ever, whatever finished
\* orders, own orders and emptied levels they meet (matchOrder, OrderBook.cpp).
LEMMA LoopsComeNearer ==
  ASSUME TypeOK, CallInv, pc \in {"purge", "match"}, Match
  PROVE  ComesNearer
<1>c. MatchOrder /\ TypeOK' /\ CallInv'
  BY TypeStep, CallStep DEF Next, Match
<1> DEFINE side == Opposite(incoming.side)
<1>b. book \in BookType /\ side \in Sides
  BY OppositeType DEF TypeOK, BookType
<1>r. /\ incoming \in Order /\ incoming # NoOrder /\ incoming.rem \in Nat
  <2>1. incoming \in Order
    BY DEF CallInv
  <2>2. incoming.qty > 0 /\ NoOrder.qty = 0 /\ incoming.rem \in Nat
    BY <2>1, BookAssumption DEF Order, NoOrder, Quantities
  <2> QED
    BY <2>1, <2>2
<1>1. CASE PurgeEnd \/ EndMatch \/ TradeThrows
  <2>1. Phase["idle"] = 0 /\ Phase["done"] = 1 /\ Phase["match"] = 2 /\ Phase["purge"] = 3
    BY DEF Phase
  <2>2. pc' \in {"idle", "done"}
    BY <1>1 DEF PurgeEnd, EndMatch, TradeThrows
  <2> QED
    BY <2>1, <2>2 DEF ComesNearer
<1>2. ASSUME pc' = pc, ErasesEntry, incoming' \in Order, incoming' # NoOrder,
             incoming'.rem \in Nat, incoming'.rem <= incoming.rem
      PROVE  ComesNearer
  <2>1. /\ getOrderCount \in Nat /\ getOrderCount' \in Nat
        /\ getOrderCount' < getOrderCount
    BY <1>b, <1>2, ErasedCount DEF ErasesEntry
  <2>2. /\ Remaining = getOrderCount + incoming.rem
        /\ Remaining' = getOrderCount' + incoming'.rem
    BY <1>r, <1>2 DEF Remaining
  <2>3. Remaining' < Remaining
    BY <1>r, <1>2, <2>1, <2>2
  <2> QED
    BY <1>2, <2>3 DEF ComesNearer
<1>3. CASE PurgeOwn
  <2>1. ErasesEntry /\ incoming' = incoming /\ pc' = pc
    BY <1>b, <1>3 DEF PurgeOwn, EraseFirstOwn, ErasesEntry
  <2> QED
    BY <1>r, <1>2, <2>1
<1>4. CASE PopFilled
  <2>1. PICK p \in Prices :
          /\ AtLevel(p)
          /\ book' = [book EXCEPT ![side][p] = Tail(book[side][p])]
    BY <1>4 DEF PopFilled
  <2>2. book[side][p] # <<>>
    BY <2>1 DEF AtLevel, IsFront
  <2>3. ErasesEntry
    <3> HIDE DEF side
    <3> QED
      BY <1>b, <2>1, <2>2, PopErases
  <2>4. incoming' = incoming /\ pc' = pc
    BY <1>4 DEF PopFilled
  <2> QED
    BY <1>r, <1>2, <2>3, <2>4
<1>5. CASE ExecuteTrade
  <2>1. PICK p \in Prices :
          LET n == TradeQty(Head(book[side][p]))
          IN  /\ AtLevel(p)
              /\ Head(book[side][p]).rem > 0
              /\ incoming' = [incoming EXCEPT !.rem = @ - n]
              /\ book' = [book EXCEPT ![side][p] = FrontFilled(@, n)]
    BY <1>5 DEF ExecuteTrade
  <2> DEFINE q == book[side][p]
             n == TradeQty(Head(q))
  <2>2. q # <<>> /\ incoming.rem > 0 /\ pc = "match" /\ pc' = pc
    BY <1>5, <2>1 DEF AtLevel, IsFront, ExecuteTrade
  <2>3. Head(q) \in RestingOrder
    BY <1>b, <2>2, FrontType
  <2>4. n \in Nat /\ n > 0 /\ n <= Head(q).rem /\ n <= incoming.rem
    BY <1>r, <2>1, <2>2, <2>3, BookAssumption DEF TradeQty, RestingOrder, Order
  <2>5. incoming' = [incoming EXCEPT !.rem = incoming.rem - n]
    BY <2>1
  <2>6. \/ book' = [book EXCEPT ![side][p] = Tail(q)]
        \/ book' = [book EXCEPT ![side][p] = [q EXCEPT ![1].rem = @ - n]]
    BY <2>1 DEF FrontFilled
  <2> HIDE DEF side, n
  <2>7. ErasesEntry \/ ResizesEntry
    BY <1>b, <2>2, <2>4, <2>6, PopErases, FillResizes
  <2>8. incoming'.rem = incoming.rem - n
    BY <1>r, <2>5 DEF Order
  <2>9. incoming' \in Order /\ incoming' # NoOrder
    <3>1. incoming' \in Order
      BY <1>c, <2>2 DEF CallInv
    <3>2. incoming'.qty > 0 /\ NoOrder.qty = 0
      BY <3>1, BookAssumption DEF Order, NoOrder, Quantities
    <3> QED
      BY <3>1, <3>2
  <2>10. incoming'.rem \in Nat /\ incoming'.rem < incoming.rem
    BY <1>r, <2>4, <2>8
  <2>11. CASE ErasesEntry
    BY <1>r, <1>2, <2>2, <2>9, <2>10, <2>11
  <2>12. CASE ResizesEntry
    <3>1. getOrderCount \in Nat /\ getOrderCount' = getOrderCount
      BY <1>b, <2>12, ResizedCount
    <3>2. /\ Remaining = getOrderCount + incoming.rem
          /\ Remaining' = getOrderCount' + incoming'.rem
      BY <1>r, <2>9 DEF Remaining
    <3>3. Remaining' < Remaining
      BY <1>r, <2>10, <3>1, <3>2
    <3> QED
      BY <2>2, <3>3 DEF ComesNearer
  <2> QED
    BY <2>7, <2>11, <2>12
<1> QED
  BY <1>c, <1>1, <1>3, <1>4, <1>5
  DEF MatchOrder, RejectFOK, EnterLoop, StpCancelNewest, StpCancelOldest,
      StpCancelBoth

\* On every run, and for any size of the book: the number of orders in it and
\* the quantity left to match bound the steps matchOrder can still take.  (That
\* a stuttering step is not one of them is LoopsComeNearer's to say.)
THEOREM MatchingComesNearer ==
  Spec => [][(pc \in {"purge", "match"} /\ Match) => ComesNearer]_vars
<1>1. TypeOK /\ CallInv => (pc \in {"purge", "match"} /\ Match => ComesNearer)
  BY LoopsComeNearer
<1> QED
  BY <1>1, CallInvariant, PTL DEF Spec
=============================================================================
