------------------------- MODULE ShardedEngineProofs -------------------------
(***************************************************************************)
(* Proofs about the sharded engine for every number of shards, every set   *)
(* of symbols and every size of the queues.                                *)
(***************************************************************************)
EXTENDS ShardedEngine, TLAPS

Orders == [n : Nat, symbol : Nat, side : {"BUY", "SELL"}]

\* A symbol has one shard, and ids below the number of shards have different
\* ones.
LEMMA ShardOfSymbol ==
  /\ \A id \in Nat : getShardIndex(id) \in Shards
  /\ \A id \in 0 .. NumShards - 1 : getShardIndex(id) = id
<1>1. \A id \in Nat : id % NumShards \in 0 .. NumShards - 1
  BY ShardedAssumption
<1>2. \A id \in 0 .. NumShards - 1 : id % NumShards = id
  BY ShardedAssumption
<1> QED
  BY <1>1, <1>2 DEF getShardIndex, Shards

\* A queue p that is q without its first order.
LEMMA TailPlaces ==
  ASSUME NEW q \in Seq(Orders), q # <<>>, NEW p, p = Tail(q)
  PROVE  /\ Len(q) \in Nat \ {0}
         /\ Len(p) = Len(q) - 1
         /\ \A i \in 1 .. Len(p) : i + 1 \in 2 .. Len(q) /\ p[i] = q[i + 1]
  OBVIOUS

-----------------------------------------------------------------------------
(* Where orders are.  Neither the state of the shards nor the owner matters *)
(* for it.                                                                  *)

ShardTypes ==
    /\ symbols \in Seq(Symbols)
    /\ submitted \in Nat
    /\ queue \in [Shards -> Seq(Orders)]
    /\ resting \in [Shards -> Seq(Orders)]
    /\ pushing = <<>> \/ pushing \in Shards \X Orders
    /\ accepted \subseteq Orders
    /\ processed \subseteq Orders
    /\ traded \subseteq Nat \X Nat

\* Order o is of a known symbol and belongs to shard s.
Belongs(o, s) == o.symbol < Len(symbols) /\ getShardIndex(o.symbol) = s

\* An order waits, rests and trades in the shard of its symbol.
RoutedBySymbol ==
    /\ pushing # <<>> => Belongs(pushing[2], pushing[1])
    /\ \A s \in Shards :
           /\ \A i \in 1 .. Len(queue[s]) : Belongs(queue[s][i], s)
           /\ \A i \in 1 .. Len(resting[s]) : Belongs(resting[s][i], s)
    /\ \A pair \in traded :
           /\ pair[1] < Len(symbols) /\ pair[2] < Len(symbols)
           /\ getShardIndex(pair[1]) = getShardIndex(pair[2])

RoutingInv == ShardTypes /\ RoutedBySymbol

\* There are no orders at first.
LEMMA RoutingInvInit == Init => RoutingInv
  BY DEF Init, RoutingInv, ShardTypes, RoutedBySymbol

\* Every step leaves each order in its shard.
LEMMA RoutingInvStep == RoutingInv /\ [Next]_vars => RoutingInv'
<1> SUFFICES ASSUME RoutingInv, [Next]_vars
             PROVE  RoutingInv'
  OBVIOUS
<1>t. ShardTypes /\ RoutedBySymbol
  BY DEF RoutingInv
<1>0. CASE UNCHANGED <<symbols, submitted, queue, resting, pushing, accepted,
                       processed, traded>>
  BY <1>0, <1>t DEF RoutingInv, ShardTypes, RoutedBySymbol, Belongs
<1>1. ASSUME NEW name \in Symbols, registerSymbol(name)
      PROVE  RoutingInv'
  <2>1. symbols' \in Seq(Symbols) /\ Len(symbols') = Len(symbols) + 1
        /\ Len(symbols) \in Nat
    BY <1>1, <1>t DEF registerSymbol, ShardTypes
  <2>2. UNCHANGED <<submitted, queue, resting, pushing, accepted, processed, traded>>
    BY <1>1 DEF registerSymbol, shardVars, ghosts
  <2>3. ShardTypes'
    BY <2>1, <2>2, <1>t DEF ShardTypes
  <2>4. \A o \in Orders, s \in Shards : Belongs(o, s) => Belongs(o, s)'
    BY <2>1 DEF Belongs, Orders
  <2>5. \A s \in Shards :
            /\ queue[s] \in Seq(Orders) /\ resting[s] \in Seq(Orders)
            /\ \A i \in 1 .. Len(queue[s]) : queue[s][i] \in Orders
            /\ \A i \in 1 .. Len(resting[s]) : resting[s][i] \in Orders
    BY <1>t DEF ShardTypes
  <2>6. \A pair \in traded : pair[1] < Len(symbols') /\ pair[2] < Len(symbols')
    BY <2>1, <1>t DEF ShardTypes, RoutedBySymbol
  <2>7. RoutedBySymbol'
    BY <2>2, <2>4, <2>5, <2>6, <1>t DEF RoutedBySymbol, ShardTypes
  <2> QED
    BY <2>3, <2>7 DEF RoutingInv
<1>2. CASE startAll \/ StartShard \/ stopAll \/ StopShard \/ JoinShard
  BY <1>0, <1>2 DEF startAll, StartShard, stopAll, StopShard, JoinShard,
     tableVars, shardVars, ghosts
<1>3. ASSUME NEW id \in 0 .. Len(symbols), SubmitRejected(id)
      PROVE  RoutingInv'
  BY <1>3, <1>t DEF SubmitRejected, tableVars, shardVars, RoutingInv,
     ShardTypes, RoutedBySymbol, Belongs
<1>4. ASSUME NEW id \in 0 .. Len(symbols), NEW side \in {"BUY", "SELL"},
             SubmitRouted(id, side)
      PROVE  RoutingInv'
  <2>1. id \in Nat /\ id < Len(symbols)
    BY <1>4, <1>t DEF SubmitRouted, IsRegistered, ShardTypes
  <2> DEFINE o == NewOrder(id, side)
  <2>2. o \in Orders /\ o.symbol = id
    BY <2>1, <1>t DEF NewOrder, Orders, ShardTypes
  <2> HIDE DEF o
  <2>3. pushing' = <<getShardIndex(id), o>> /\ submitted' = submitted + 1
        /\ UNCHANGED <<symbols, queue, resting, accepted, processed, traded>>
    BY <1>4 DEF SubmitRouted, tableVars, shardVars, o
  <2>4. ShardTypes'
    <3>1. pushing' \in Shards \X Orders
      BY <2>1, <2>2, <2>3, ShardOfSymbol
    <3> QED
      BY <2>3, <3>1, <1>t DEF ShardTypes
  <2>5. RoutedBySymbol'
    BY <2>1, <2>2, <2>3, <1>t DEF RoutedBySymbol, Belongs
  <2> QED
    BY <2>4, <2>5 DEF RoutingInv
<1>5. CASE Push
  <2> DEFINE s == pushing[1]
             o == pushing[2]
  <2>1. s \in Shards /\ o \in Orders /\ Belongs(o, s) /\ queue[s] \in Seq(Orders)
    BY <1>5, <1>t DEF Push, ShardTypes, RoutedBySymbol
  <2>2. /\ queue' = [queue EXCEPT ![s] = Append(queue[s], o)]
        /\ accepted' = accepted \cup {o} /\ pushing' = <<>>
        /\ UNCHANGED <<symbols, resting, submitted, processed, traded>>
    BY <1>5 DEF Push, tableVars
  <2> HIDE DEF s, o
  <2>3. ShardTypes'
    BY <2>1, <2>2, <1>t DEF ShardTypes
  <2>4. \A r \in Shards :
            queue'[r] = IF r = s THEN Append(queue[s], o) ELSE queue[r]
    BY <2>1, <2>2, <1>t DEF ShardTypes
  <2>7. /\ Len(queue[s]) \in Nat
        /\ Len(queue'[s]) = Len(queue[s]) + 1
        /\ \A i \in 1 .. Len(queue[s]) : queue'[s][i] = queue[s][i]
        /\ queue'[s][Len(queue[s]) + 1] = o
    <3>1. queue[s] \in Seq(Orders) /\ o \in Orders /\ queue'[s] = Append(queue[s], o)
      BY <2>1, <2>4
    <3> QED
      BY <3>1
  <2>5. ASSUME NEW r \in Shards, NEW i \in 1 .. Len(queue'[r])
        PROVE  Belongs(queue'[r][i], r)
    <3>1. CASE r # s
      BY <3>1, <2>4, <1>t DEF RoutedBySymbol
    <3>2. CASE r = s /\ i <= Len(queue[s])
      <4>1. i \in 1 .. Len(queue[s])
        BY <3>2, <2>7
      <4> QED
        BY <3>2, <4>1, <2>7, <1>t DEF RoutedBySymbol
    <3>3. CASE r = s /\ i > Len(queue[s])
      <4>1. i = Len(queue[s]) + 1
        BY <3>3, <2>7
      <4> QED
        BY <3>3, <4>1, <2>1, <2>7
    <3> QED
      BY <3>1, <3>2, <3>3, <2>7
  <2>6. RoutedBySymbol'
    BY <2>2, <2>5, <1>t DEF RoutedBySymbol, Belongs
  <2> QED
    BY <2>3, <2>6 DEF RoutingInv
<1>6. CASE PushRejected
  BY <1>6, <1>t DEF PushRejected, tableVars, shardVars, ghosts, RoutingInv,
     ShardTypes, RoutedBySymbol, Belongs
<1>7. ASSUME NEW s \in Shards, Consume(s)
      PROVE  RoutingInv'
  <2> DEFINE o == Head(queue[s])
             r == Head(resting[s])
             trades == resting[s] # <<>> /\ r.side # o.side
  <2>1. /\ queue[s] \in Seq(Orders) /\ queue[s] # <<>>
        /\ resting[s] \in Seq(Orders) /\ Len(symbols) \in Nat
    BY <1>7, <1>t DEF Consume, ShardTypes
  <2>2. o \in Orders /\ Belongs(o, s)
    BY <2>1, <1>t DEF RoutedBySymbol
  <2>3. resting[s] # <<>> => r \in Orders /\ Belongs(r, s)
    BY <2>1, <1>t DEF RoutedBySymbol
  <2>4. /\ queue' = [queue EXCEPT ![s] = Tail(queue[s])]
        /\ resting' = [resting EXCEPT ![s] = IF trades THEN Tail(resting[s])
                                            ELSE Append(resting[s], o)]
        /\ traded' = IF trades THEN traded \cup {<<r.symbol, o.symbol>>}
                     ELSE traded
        /\ processed' = processed \cup {o}
        /\ UNCHANGED <<symbols, submitted, pushing, accepted>>
    BY <1>7 DEF Consume, tableVars
  <2>5. trades => resting[s] # <<>>
    OBVIOUS
  <2> HIDE DEF o, r, trades
  <2>6. ShardTypes'
    <3>1. /\ Tail(queue[s]) \in Seq(Orders) /\ Append(resting[s], o) \in Seq(Orders)
          /\ resting[s] # <<>> => Tail(resting[s]) \in Seq(Orders)
      BY <2>1, <2>2
    <3>2. resting[s] # <<>> => <<r.symbol, o.symbol>> \in Nat \X Nat
      BY <2>2, <2>3 DEF Orders
    <3> QED
      BY <2>2, <2>4, <2>5, <3>1, <3>2, <1>t DEF ShardTypes
  <2>7. \A q \in Shards :
            /\ queue'[q] = IF q = s THEN Tail(queue[s]) ELSE queue[q]
            /\ resting'[q] = IF q = s
                             THEN IF trades THEN Tail(resting[s])
                                  ELSE Append(resting[s], o)
                             ELSE resting[q]
    BY <2>4, <1>t DEF ShardTypes
  <2>8. ASSUME NEW q \in Shards, NEW i \in 1 .. Len(queue'[q])
        PROVE  Belongs(queue'[q][i], q)
    <3>1. CASE q # s
      BY <3>1, <2>7, <1>t DEF RoutedBySymbol
    <3>2. CASE q = s
      <4>1. i + 1 \in 1 .. Len(queue[s]) /\ queue'[s][i] = queue[s][i + 1]
        <5>1. queue[s] \in Seq(Orders) /\ queue[s] # <<>> /\ queue'[s] = Tail(queue[s])
          BY <2>1, <2>7
        <5>2. i + 1 \in 2 .. Len(queue[s]) /\ queue'[s][i] = queue[s][i + 1]
              /\ Len(queue[s]) \in Nat
          BY <5>1, <3>2, TailPlaces
        <5> QED
          BY <5>2
      <4> QED
        BY <3>2, <4>1, <1>t DEF RoutedBySymbol
    <3> QED
      BY <3>1, <3>2
  <2>9. ASSUME NEW q \in Shards, NEW i \in 1 .. Len(resting'[q])
        PROVE  Belongs(resting'[q][i], q)
    <3>1. CASE q # s
      BY <3>1, <2>7, <1>t DEF RoutedBySymbol
    <3>2. CASE q = s /\ trades
      <4>1. i + 1 \in 1 .. Len(resting[s]) /\ resting'[s][i] = resting[s][i + 1]
        <5>1. /\ resting[s] \in Seq(Orders) /\ resting[s] # <<>>
              /\ resting'[s] = Tail(resting[s])
          BY <3>2, <2>1, <2>5, <2>7
        <5>2. i + 1 \in 2 .. Len(resting[s]) /\ resting'[s][i] = resting[s][i + 1]
              /\ Len(resting[s]) \in Nat
          BY <5>1, <3>2, TailPlaces
        <5> QED
          BY <5>2
      <4> QED
        BY <3>2, <4>1, <1>t DEF RoutedBySymbol
    <3>3. CASE q = s /\ ~trades
      <4>1. \/ i \in 1 .. Len(resting[s]) /\ resting'[s][i] = resting[s][i]
            \/ resting'[s][i] = o
        <5>1. resting[s] \in Seq(Orders) /\ o \in Orders
              /\ resting'[s] = Append(resting[s], o)
          BY <3>3, <2>1, <2>2, <2>7
        <5> QED
          BY <5>1, <3>3
      <4> QED
        BY <3>3, <4>1, <2>2, <1>t DEF RoutedBySymbol
    <3> QED
      BY <3>1, <3>2, <3>3
  <2>10. \A pair \in traded' :
             /\ pair[1] < Len(symbols) /\ pair[2] < Len(symbols)
             /\ getShardIndex(pair[1]) = getShardIndex(pair[2])
    BY <2>2, <2>3, <2>4, <2>5, <1>t DEF RoutedBySymbol, Belongs
  <2>11. RoutedBySymbol'
    BY <2>4, <2>8, <2>9, <2>10, <1>t DEF RoutedBySymbol, Belongs
  <2> QED
    BY <2>6, <2>11 DEF RoutingInv
<1>8. CASE UNCHANGED vars
  BY <1>0, <1>8 DEF vars, tableVars, shardVars, ghosts
<1> QED
  BY <1>1, <1>2, <1>3, <1>4, <1>5, <1>6, <1>7, <1>8 DEF Next

\* The invariant holds throughout.
LEMMA RoutingInvariant == Spec => []RoutingInv
  BY RoutingInvInit, RoutingInvStep, PTL DEF Spec

\* With at most as many symbols as shards no two symbols trade with each
\* other: each has a shard, and so a book, of its own (submitOrder,
\* getShardIndex).
THEOREM SymbolsIsolated == Spec => []SymbolIsolation
<1>1. ASSUME RoutingInv, Len(symbols) <= NumShards, NEW pair \in traded
      PROVE  pair[1] = pair[2]
  <2>1. /\ pair[1] \in Nat /\ pair[2] \in Nat
        /\ pair[1] < Len(symbols) /\ pair[2] < Len(symbols)
        /\ getShardIndex(pair[1]) = getShardIndex(pair[2])
        /\ Len(symbols) \in Nat
    BY <1>1 DEF RoutingInv, ShardTypes, RoutedBySymbol
  <2>2. pair[1] \in 0 .. NumShards - 1 /\ pair[2] \in 0 .. NumShards - 1
    BY <2>1, <1>1, ShardedAssumption
  <2> QED
    BY <2>1, <2>2, ShardOfSymbol
<1>2. RoutingInv => SymbolIsolation
  BY <1>1 DEF SymbolIsolation
<1> QED
  BY <1>2, RoutingInvariant, PTL

-----------------------------------------------------------------------------
(* The order of a symbol's orders *)

\* What is accepted is processed or in the queue of its shard, and nothing
\* else is in a queue.
Placed ==
    /\ processed \subseteq accepted
    /\ \A s \in Shards : \A i \in 1 .. Len(queue[s]) : queue[s][i] \in accepted
    /\ \A a \in accepted :
           \/ a \in processed
           \/ \E i \in 1 .. Len(queue[getShardIndex(a.symbol)]) :
                  queue[getShardIndex(a.symbol)][i] = a

\* The client submits one order after the other.
Numbered ==
    /\ \A a \in accepted : a.n <= submitted
    /\ pushing # <<>> =>
           /\ pushing[2].n <= submitted
           /\ \A a \in accepted : a.n < pushing[2].n

\* A queue keeps that order, and what its shard has processed came before.
QueuesInOrder ==
    \A s \in Shards :
        /\ \A i, j \in 1 .. Len(queue[s]) : i < j => queue[s][i].n < queue[s][j].n
        /\ \A b \in processed : getShardIndex(b.symbol) = s =>
               \A i \in 1 .. Len(queue[s]) : b.n < queue[s][i].n

OrderInv == Placed /\ Numbered /\ QueuesInOrder

\* There are no orders at first.
LEMMA OrderInvInit == Init => OrderInv
  BY DEF Init, OrderInv, Placed, Numbered, QueuesInOrder

\* Every step keeps the orders of a shard in the order of their submission.
LEMMA OrderInvStep ==
  ASSUME RoutingInv, OrderInv, [Next]_vars
  PROVE  OrderInv'
<1>t. ShardTypes /\ RoutedBySymbol /\ Placed /\ Numbered /\ QueuesInOrder
  BY DEF RoutingInv, OrderInv
<1>n. /\ submitted \in Nat
      /\ \A a \in accepted : a \in Orders /\ a.n \in Nat /\ a.symbol \in Nat
      /\ \A a \in processed : a \in Orders /\ a.n \in Nat /\ a.symbol \in Nat
      /\ \A s \in Shards : queue[s] \in Seq(Orders) /\ Len(queue[s]) \in Nat
      /\ \A s \in Shards : \A i \in 1 .. Len(queue[s]) : queue[s][i].n \in Nat
  <2>1. \A a \in Orders : a.n \in Nat /\ a.symbol \in Nat
    BY DEF Orders
  <2>2. \A s \in Shards : queue[s] \in Seq(Orders) /\ Len(queue[s]) \in Nat
    BY <1>t DEF ShardTypes
  <2>3. \A s \in Shards : \A i \in 1 .. Len(queue[s]) : queue[s][i] \in accepted
    BY <1>t DEF Placed
  <2> QED
    BY <2>1, <2>2, <2>3, <1>t DEF ShardTypes
<1>0. CASE UNCHANGED <<submitted, queue, pushing, accepted, processed>>
  BY <1>0, <1>t DEF OrderInv, Placed, Numbered, QueuesInOrder
<1>1. CASE \/ \E name \in Symbols : registerSymbol(name)
           \/ startAll \/ StartShard \/ stopAll \/ StopShard \/ JoinShard
  BY <1>0, <1>1 DEF registerSymbol, startAll, StartShard, stopAll, StopShard,
     JoinShard, tableVars, shardVars, ghosts
<1>3. ASSUME NEW id \in 0 .. Len(symbols), SubmitRejected(id)
      PROVE  OrderInv'
  BY <1>3, <1>t, <1>n DEF SubmitRejected, tableVars, shardVars, OrderInv,
     Placed, Numbered, QueuesInOrder
<1>4. ASSUME NEW id \in 0 .. Len(symbols), NEW side \in {"BUY", "SELL"},
             SubmitRouted(id, side)
      PROVE  OrderInv'
  <2>1. pushing' = <<getShardIndex(id), NewOrder(id, side)>>
        /\ submitted' = submitted + 1
        /\ UNCHANGED <<queue, accepted, processed>>
    BY <1>4 DEF SubmitRouted, shardVars
  <2>2. pushing'[2].n = submitted + 1
    BY <2>1 DEF NewOrder
  <2>3. Numbered'
    BY <2>1, <2>2, <1>t, <1>n DEF Numbered
  <2> QED
    BY <2>1, <2>3, <1>t DEF OrderInv, Placed, QueuesInOrder
<1>5. CASE Push
  <2> DEFINE s == pushing[1]
             o == pushing[2]
  <2>1. /\ s \in Shards /\ o \in Orders /\ o.n \in Nat
        /\ getShardIndex(o.symbol) = s /\ queue[s] \in Seq(Orders)
    BY <1>5, <1>t DEF Push, ShardTypes, RoutedBySymbol, Belongs, Orders
  <2>2. /\ queue' = [queue EXCEPT ![s] = Append(queue[s], o)]
        /\ accepted' = accepted \cup {o} /\ pushing' = <<>>
        /\ UNCHANGED <<submitted, processed>>
    BY <1>5 DEF Push
  <2>3. o.n <= submitted /\ \A a \in accepted : a.n < o.n
    BY <1>5, <1>t DEF Push, Numbered
  <2> HIDE DEF s, o
  <2>4. \A r \in Shards :
            queue'[r] = IF r = s THEN Append(queue[s], o) ELSE queue[r]
    BY <2>1, <2>2, <1>t DEF ShardTypes
  <2>5. /\ Len(queue[s]) \in Nat
        /\ Len(queue'[s]) = Len(queue[s]) + 1
        /\ \A i \in 1 .. Len(queue[s]) : queue'[s][i] = queue[s][i]
        /\ queue'[s][Len(queue[s]) + 1] = o
    <3>1. queue[s] \in Seq(Orders) /\ o \in Orders /\ queue'[s] = Append(queue[s], o)
      BY <2>1, <2>4
    <3> QED
      BY <3>1
  <2>9. \A i \in 1 .. Len(queue'[s]) :
            i = Len(queue[s]) + 1 \/ i \in 1 .. Len(queue[s])
    BY <2>5
  <2>6. Placed'
    <3>1. processed' \subseteq accepted'
      BY <2>2, <1>t DEF Placed
    <3>2. \A r \in Shards : \A i \in 1 .. Len(queue'[r]) : queue'[r][i] \in accepted'
      BY <2>2, <2>4, <2>5, <2>9, <1>t DEF Placed
    <3>3. ASSUME NEW a \in accepted'
          PROVE  \/ a \in processed'
                 \/ \E i \in 1 .. Len(queue'[getShardIndex(a.symbol)]) :
                        queue'[getShardIndex(a.symbol)][i] = a
      <4>1. CASE a = o
        <5>1. Len(queue[s]) + 1 \in 1 .. Len(queue'[s])
          BY <2>5
        <5> QED
          BY <4>1, <5>1, <2>1, <2>5
      <4>2. CASE a \in accepted /\ a \notin processed
        <5>1. getShardIndex(a.symbol) \in Shards
          BY <4>2, <1>n, ShardOfSymbol
        <5>2. PICK i \in 1 .. Len(queue[getShardIndex(a.symbol)]) :
                  queue[getShardIndex(a.symbol)][i] = a
          BY <4>2, <1>t DEF Placed
        <5>3. CASE getShardIndex(a.symbol) # s
          BY <5>1, <5>2, <5>3, <2>4
        <5>4. CASE getShardIndex(a.symbol) = s
          <6>1. i \in 1 .. Len(queue'[s]) /\ queue'[s][i] = a
            BY <5>2, <5>4, <2>5
          <6> QED
            BY <5>4, <6>1
        <5> QED
          BY <5>3, <5>4
      <4> QED
        BY <3>3, <4>1, <4>2, <2>2
    <3> QED
      BY <3>1, <3>2, <3>3 DEF Placed
  <2>7. Numbered'
    BY <2>2, <2>3, <1>t DEF Numbered
  <2>8. QueuesInOrder'
    <3>1. \A i \in 1 .. Len(queue[s]) : queue[s][i].n < o.n
      BY <2>1, <2>3, <1>t DEF Placed
    <3>2. \A b \in processed : b.n < o.n
      BY <2>3, <1>t DEF Placed
    <3>3. ASSUME NEW r \in Shards, NEW i \in 1 .. Len(queue'[r]),
                 NEW j \in 1 .. Len(queue'[r]), i < j
          PROVE  queue'[r][i].n < queue'[r][j].n
      <4>1. CASE r # s
        BY <3>3, <4>1, <2>4, <1>t DEF QueuesInOrder
      <4>2. CASE r = s
        <5>1. i \in 1 .. Len(queue[s])
          BY <3>3, <4>2, <2>5
        <5>2. CASE j \in 1 .. Len(queue[s])
          BY <3>3, <4>2, <5>1, <5>2, <2>5, <1>t DEF QueuesInOrder
        <5>3. CASE j = Len(queue[s]) + 1
          BY <4>2, <5>1, <5>3, <3>1, <2>5
        <5> QED
          BY <4>2, <5>2, <5>3, <2>9
      <4> QED
        BY <4>1, <4>2
    <3>4. ASSUME NEW r \in Shards, NEW b \in processed,
                 getShardIndex(b.symbol) = r, NEW i \in 1 .. Len(queue'[r])
          PROVE  b.n < queue'[r][i].n
      <4>1. CASE r # s
        BY <3>4, <4>1, <2>4, <1>t DEF QueuesInOrder
      <4>2. CASE r = s /\ i \in 1 .. Len(queue[s])
        BY <3>4, <4>2, <2>5, <1>t DEF QueuesInOrder
      <4>3. CASE r = s /\ i = Len(queue[s]) + 1
        BY <4>3, <3>2, <2>5
      <4> QED
        BY <4>1, <4>2, <4>3, <2>9
    <3> QED
      BY <3>3, <3>4, <2>2 DEF QueuesInOrder
  <2> QED
    BY <2>6, <2>7, <2>8 DEF OrderInv
<1>6. CASE PushRejected
  BY <1>6, <1>t DEF PushRejected, shardVars, ghosts, OrderInv, Placed, Numbered,
     QueuesInOrder
<1>7. ASSUME NEW s \in Shards, Consume(s)
      PROVE  OrderInv'
  <2> DEFINE o == queue[s][1]
  <2>1. queue[s] \in Seq(Orders) /\ queue[s] # <<>>
    BY <1>7, <1>t DEF Consume, ShardTypes
  <2>2. /\ Head(queue[s]) = o /\ Len(queue[s]) \in Nat \ {0}
        /\ Len(Tail(queue[s])) = Len(queue[s]) - 1
        /\ \A i \in 1 .. Len(queue[s]) - 1 : Tail(queue[s])[i] = queue[s][i + 1]
    BY <2>1
  <2>3. /\ queue' = [queue EXCEPT ![s] = Tail(queue[s])]
        /\ processed' = processed \cup {o}
        /\ UNCHANGED <<submitted, pushing, accepted>>
    BY <1>7, <2>2 DEF Consume
  <2>4. /\ o \in accepted /\ getShardIndex(o.symbol) = s
        /\ \A i \in 2 .. Len(queue[s]) : o.n < queue[s][i].n
    BY <2>2, <1>t DEF Placed, RoutedBySymbol, Belongs, QueuesInOrder
  <2> HIDE DEF o
  <2>5. \A r \in Shards :
            queue'[r] = IF r = s THEN Tail(queue[s]) ELSE queue[r]
    BY <2>3, <1>t DEF ShardTypes
  <2>9. \A i \in 1 .. Len(queue'[s]) :
            i + 1 \in 2 .. Len(queue[s]) /\ queue'[s][i] = queue[s][i + 1]
    BY <2>1, <2>5, TailPlaces
  <2>6. Placed'
    <3>1. processed' \subseteq accepted'
      BY <2>3, <2>4, <1>t DEF Placed
    <3>2. \A r \in Shards : \A i \in 1 .. Len(queue'[r]) : queue'[r][i] \in accepted'
      BY <2>2, <2>3, <2>5, <2>9, <1>t DEF Placed
    <3>3. ASSUME NEW a \in accepted, a \notin processed, a # o
          PROVE  \E i \in 1 .. Len(queue'[getShardIndex(a.symbol)]) :
                     queue'[getShardIndex(a.symbol)][i] = a
      <4>1. getShardIndex(a.symbol) \in Shards
        BY <1>n, ShardOfSymbol
      <4>2. PICK i \in 1 .. Len(queue[getShardIndex(a.symbol)]) :
                queue[getShardIndex(a.symbol)][i] = a
        BY <3>3, <1>t DEF Placed
      <4>3. CASE getShardIndex(a.symbol) # s
        BY <4>1, <4>2, <4>3, <2>5
      <4>4. CASE getShardIndex(a.symbol) = s
        <5>1. i # 1
          BY <3>3, <4>2, <4>4 DEF o
        <5>2. i - 1 \in 1 .. Len(Tail(queue[s])) /\ Tail(queue[s])[i - 1] = a
          BY <5>1, <4>2, <4>4, <2>2
        <5> QED
          BY <5>2, <4>4, <2>5
      <4> QED
        BY <4>3, <4>4
    <3> QED
      BY <3>1, <3>2, <3>3, <2>3 DEF Placed
  <2>7. Numbered'
    BY <2>3, <1>t DEF Numbered
  <2>8. QueuesInOrder'
    <3>1. ASSUME NEW r \in Shards, NEW i \in 1 .. Len(queue'[r]),
                 NEW j \in 1 .. Len(queue'[r]), i < j
          PROVE  queue'[r][i].n < queue'[r][j].n
      <4>1. CASE r # s
        BY <3>1, <4>1, <2>5, <1>t DEF QueuesInOrder
      <4>2. CASE r = s
        <5>1. i + 1 \in 1 .. Len(queue[s]) /\ j + 1 \in 1 .. Len(queue[s])
              /\ i + 1 < j + 1
          BY <3>1, <4>2, <2>2, <2>9
        <5> QED
          BY <4>2, <5>1, <2>9, <1>t DEF QueuesInOrder
      <4> QED
        BY <4>1, <4>2
    <3>2. ASSUME NEW r \in Shards, NEW b \in processed',
                 getShardIndex(b.symbol) = r, NEW i \in 1 .. Len(queue'[r])
          PROVE  b.n < queue'[r][i].n
      <4>1. CASE r # s
        BY <3>2, <4>1, <2>3, <2>4, <2>5, <1>t DEF QueuesInOrder
      <4>2. CASE r = s /\ b = o
        BY <4>2, <2>4, <2>9
      <4>3. CASE r = s /\ b \in processed
        <5>1. i + 1 \in 1 .. Len(queue[s])
          BY <4>3, <2>2, <2>9
        <5> QED
          BY <3>2, <4>3, <5>1, <2>9, <1>t DEF QueuesInOrder
      <4> QED
        BY <4>1, <4>2, <4>3, <2>3
    <3> QED
      BY <3>1, <3>2 DEF QueuesInOrder
  <2> QED
    BY <2>6, <2>7, <2>8 DEF OrderInv
<1>8. CASE UNCHANGED vars
  BY <1>0, <1>8 DEF vars, shardVars, ghosts
<1> QED
  BY <1>1, <1>3, <1>4, <1>5, <1>6, <1>7, <1>8 DEF Next

\* The invariant holds throughout.
LEMMA OrderInvariant == Spec => []OrderInv
<1>1. RoutingInv /\ OrderInv /\ [Next]_vars => OrderInv'
  BY OrderInvStep
<1> QED
  BY <1>1, OrderInvInit, RoutingInvariant, PTL DEF Spec

\* The accepted orders of a symbol are matched in the order of submission,
\* however the shards are stopped and restarted (submitOrder, consumerLoop).
THEOREM SymbolsInOrder == Spec => []SymbolOrder
<1>1. ASSUME RoutingInv, OrderInv, NEW a \in accepted, NEW b \in processed,
             a.symbol = b.symbol, a.n < b.n
      PROVE  a \in processed
  <2> SUFFICES ASSUME a \notin processed PROVE FALSE
    OBVIOUS
  <2>1. a \in Orders /\ b \in Orders
    BY <1>1 DEF RoutingInv, ShardTypes
  <2>2. getShardIndex(a.symbol) \in Shards /\ a.n \in Nat /\ b.n \in Nat
    BY <2>1, ShardOfSymbol DEF Orders
  <2>3. PICK i \in 1 .. Len(queue[getShardIndex(a.symbol)]) :
            queue[getShardIndex(a.symbol)][i] = a
    BY <1>1 DEF OrderInv, Placed
  <2>4. b.n < a.n
    BY <1>1, <2>2, <2>3 DEF OrderInv, QueuesInOrder
  <2> QED
    BY <1>1, <2>2, <2>4
<1>2. RoutingInv /\ OrderInv => SymbolOrder
  BY <1>1 DEF SymbolOrder
<1> QED
  BY <1>2, RoutingInvariant, OrderInvariant, PTL
=============================================================================
