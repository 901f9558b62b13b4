-------------------------- MODULE RiskEngineProofs --------------------------
(***************************************************************************)
(* Proofs about the risk engine.  The inductive invariant RiskInv says that *)
(* both engines track the book (Tracking), that they agree unless an order *)
(* was refused (InStep), that the order being matched may still rest with  *)
(* what is left of it (Within), and how far refused orders take exposures  *)
(* above the limits (Bounded).  The last part is what makes every fill fit *)
(* an int64, without which a restore would mark its engine corrupt.        *)
(*                                                                         *)
(* A counter is the number of units its orders reserve, so what a call does*)
(* to a sum is what it does to a set of units.                             *)
(***************************************************************************)
EXTENDS RiskEngine, FiniteSetTheorems, FunctionTheorems, TLAPS

-----------------------------------------------------------------------------
(* Engines *)

\* The fields of a position, and what they may hold.
Fields == {"position", "BUY", "SELL"}
Position == [Fields -> Int]

\* e is an engine.
IsEngine(e) ==
    /\ e = [positions |-> e.positions, orders |-> e.orders, corrupt |-> e.corrupt]
    /\ e.positions \in [Traders -> Position]
    /\ e.corrupt \in BOOLEAN

\* The engine a shard starts with is well formed.
LEMMA NoPositionType == NoPosition \in Position
<1>1. NoPosition = [f \in Fields |-> 0]
  BY DEF NoPosition, Fields
<1> QED
  BY <1>1 DEF Position

LEMMA NewEngineType == IsEngine(NewEngine)
  BY NoPositionType DEF IsEngine, NewEngine

LEMMA CorruptEngineType == IsEngine(CorruptEngine) /\ CorruptEngine.corrupt
<1>1. ASSUME NEW e, IsEngine(e), NEW x
      PROVE  [e EXCEPT !.corrupt = x] =
                 [positions |-> e.positions, orders |-> e.orders, corrupt |-> x]
  BY <1>1 DEF IsEngine
<1>2. CorruptEngine = [positions |-> NewEngine.positions, orders |-> NewEngine.orders,
                       corrupt |-> TRUE]
  BY <1>1, NewEngineType DEF CorruptEngine
<1>3. NewEngine.positions \in [Traders -> Position]
  BY NewEngineType DEF IsEngine
<1>4. /\ CorruptEngine.positions = NewEngine.positions
      /\ CorruptEngine.orders = NewEngine.orders /\ CorruptEngine.corrupt = TRUE
  BY <1>2
<1> QED
  BY <1>2, <1>3, <1>4 DEF IsEngine

\* P with x in one place.
SetTo(P, t, f, x) == [P EXCEPT ![t][f] = x]

\* A counter changes and nothing else does.
LEMMA CounterUpdate ==
  ASSUME NEW P \in [Traders -> Position], NEW t \in Traders, NEW f \in Fields,
         NEW x \in Int
  PROVE  /\ SetTo(P, t, f, x) \in [Traders -> Position]
         /\ \A u \in Traders, g \in Fields :
               SetTo(P, t, f, x)[u][g] = IF u = t /\ g = f THEN x ELSE P[u][g]
  BY DEF Position, SetTo

\* c is e with n reserved for o.
Rests(e, c, o, n) ==
    /\ IsEngine(c) /\ c.corrupt = e.corrupt
    /\ c.orders = With(e.orders, o.id, [trader |-> o.trader, side |-> o.side,
                                        reserved |-> n])
    /\ \A t \in Traders, f \in Fields :
           c.positions[t][f] = e.positions[t][f] +
                               IF t = o.trader /\ f = o.side THEN n ELSE 0

\* What applyResting does to the counters.
LEMMA RestingEffect ==
  ASSUME NEW e, IsEngine(e), NEW o, o.trader \in Traders, o.side \in Sides,
         NEW n \in Nat
  PROVE  Rests(e, applyResting(e, o, n), o, n)
<1> DEFINE c == applyResting(e, o, n)
           x == e.positions[o.trader][o.side] + n
           P == SetTo(e.positions, o.trader, o.side, x)
           O == With(e.orders, o.id, [trader |-> o.trader, side |-> o.side,
                                      reserved |-> n])
<1>1. o.side \in Fields /\ x \in Int /\ e.positions \in [Traders -> Position]
  BY DEF IsEngine, Position, Fields, Sides
<1>2. c = [e EXCEPT !.positions = P, !.orders = O]
  BY DEF applyResting, SetTo
<1> HIDE DEF O, c
<1>3. c = [positions |-> P, orders |-> O, corrupt |-> e.corrupt]
  BY <1>2 DEF IsEngine
<1>4. P \in [Traders -> Position] /\ \A u \in Traders, g \in Fields :
          P[u][g] = IF u = o.trader /\ g = o.side THEN x ELSE e.positions[u][g]
  <2> HIDE DEF x
  <2> QED
    BY <1>1, CounterUpdate
<1> HIDE DEF P
<1>5. /\ c.positions = P /\ c.orders = O /\ c.corrupt = e.corrupt
  BY <1>3
<1>6. IsEngine(c)
  BY <1>3, <1>4, <1>5 DEF IsEngine
<1>7. \A t \in Traders, f \in Fields : e.positions[t][f] \in Int
  BY <1>1 DEF Position
<1>8. \A t \in Traders, f \in Fields :
          c.positions[t][f] = e.positions[t][f] +
                              IF t = o.trader /\ f = o.side THEN n ELSE 0
  BY <1>4, <1>5, <1>7
<1> QED
  BY <1>5, <1>6, <1>8 DEF Rests, O, c

-----------------------------------------------------------------------------
(* Reservations and their sums *)

\* Reservations of finitely many orders.
IsLedger(orders) ==
    /\ IsFiniteSet(DOMAIN orders)
    /\ \A id \in DOMAIN orders :
           /\ orders[id] = [trader |-> orders[id].trader,
                            side |-> orders[id].side,
                            reserved |-> orders[id].reserved]
           /\ orders[id].reserved \in Nat

\* A reserved unit belongs to an order of the trader and side.
LEMMA UnitOfOrder ==
  ASSUME NEW O, NEW t, NEW side, NEW x
  PROVE  x \in Reserved(O, t, side) <=>
            \E id \in DOMAIN O :
                /\ O[id].trader = t /\ O[id].side = side
                /\ \E u \in 1 .. O[id].reserved : x = <<id, u>>
  BY DEF Reserved

\* The numbers from m + 1 to m + n are n.
LEMMA CountFrom ==
  ASSUME NEW m \in Nat, NEW n \in Nat
  PROVE  IsFiniteSet(m + 1 .. m + n) /\ Cardinality(m + 1 .. m + n) = n
<1> DEFINE a == m + 1
           b == m + n
<1>1. a \in Int /\ b \in Int
  OBVIOUS
<1>2. IsFiniteSet(a .. b) /\ Cardinality(a .. b) = IF a > b THEN 0 ELSE b - a + 1
  <2> HIDE DEF a, b
  <2> QED
    BY ONLY <1>1, FS_Interval
<1> QED
  BY <1>2

\* Units m + 1 to m + n of one order.
UnitsFrom(id, m, n) == {id} \X (m + 1 .. m + n)

LEMMA UnitsOfOne ==
  ASSUME NEW id, NEW m \in Nat, NEW n \in Nat
  PROVE  /\ IsFiniteSet(UnitsFrom(id, m, n))
         /\ Cardinality(UnitsFrom(id, m, n)) = n
<1> DEFINE T == m + 1 .. m + n
<1>1. IsFiniteSet(T) /\ Cardinality(T) = n
  BY CountFrom
<1> HIDE DEF T
<1>2. IsFiniteSet({id}) /\ Cardinality({id}) = 1
  BY FS_Singleton
<1>3. IsFiniteSet({id} \X T) /\ Cardinality({id} \X T) = 1 * n
  BY <1>1, <1>2, FS_Product
<1> QED
  BY <1>3 DEF T, UnitsFrom

\* A ledger reserves finitely many units.
LEMMA ReservedFinite ==
  ASSUME NEW O, IsLedger(O), NEW t, NEW side
  PROVE  /\ IsFiniteSet(Reserved(O, t, side))
         /\ Cardinality(Reserved(O, t, side)) \in Nat
<1> DEFINE D == {i \in DOMAIN O : O[i].trader = t /\ O[i].side = side}
           units(id) == {id} \X (1 .. O[id].reserved)
           L == {units(id) : id \in D}
           f == [id \in D |-> units(id)]
<1>1. IsFiniteSet(D)
  <2>1. D \subseteq DOMAIN O /\ IsFiniteSet(DOMAIN O)
    BY DEF IsLedger
  <2> HIDE DEF D
  <2> QED
    BY <2>1, FS_Subset
<1>2. IsFiniteSet(L)
  <2> HIDE DEF units
  <2>1. f \in [D -> L] /\ \A l \in L : \E id \in D : f[id] = l
    OBVIOUS
  <2> HIDE DEF D, L, f
  <2>2. f \in Surjection(D, L)
    BY <2>1, Fun_IsSurj
  <2> QED
    BY <1>1, <2>2, FS_Surjection
<1>3. ASSUME NEW id \in D
      PROVE  IsFiniteSet(units(id))
  <2>1. O[id].reserved \in Nat
    BY DEF IsLedger
  <2>2. units(id) = UnitsFrom(id, 0, O[id].reserved)
    BY <2>1 DEF UnitsFrom
  <2> QED
    BY <2>1, <2>2, UnitsOfOne
<1>4. \A T \in L : IsFiniteSet(T)
  BY <1>3
<1>5. IsFiniteSet(UNION L)
  <2> HIDE DEF L
  <2> QED
    BY <1>2, <1>4, FS_UNION
<1>6. Reserved(O, t, side) = UNION L
  BY DEF Reserved
<1> QED
  BY <1>5, <1>6, FS_CardinalityType

\* What an order that rests adds to the sums.
LEMMA ReservedWith ==
  ASSUME NEW O, IsLedger(O), NEW id, id \notin DOMAIN O,
         NEW r, NEW n \in Nat, r.reserved = n,
         r = [trader |-> r.trader, side |-> r.side, reserved |-> r.reserved]
  PROVE  /\ IsLedger(With(O, id, r))
         /\ \A t, side :
               Cardinality(Reserved(With(O, id, r), t, side)) =
                   IF t = r.trader /\ side = r.side
                   THEN Cardinality(Reserved(O, t, side)) + n
                   ELSE Cardinality(Reserved(O, t, side))
<1> DEFINE W == With(O, id, r)
<1>1. /\ DOMAIN W = DOMAIN O \cup {id}
      /\ W[id] = r
      /\ \A i \in DOMAIN O : W[i] = O[i]
  BY DEF With
<1> HIDE DEF W
<1>2. IsLedger(W)
  <2>1. IsFiniteSet(DOMAIN W)
    BY <1>1, FS_AddElement DEF IsLedger
  <2> QED
    BY <1>1, <2>1 DEF IsLedger
<1>3. ASSUME NEW t, NEW side
      PROVE  Cardinality(Reserved(W, t, side)) =
                   IF t = r.trader /\ side = r.side
                   THEN Cardinality(Reserved(O, t, side)) + n
                   ELSE Cardinality(Reserved(O, t, side))
  <2> DEFINE A == Reserved(O, t, side)
             B == Reserved(W, t, side)
             N == {id} \X (1 .. n)
  <2>1. CASE ~(t = r.trader /\ side = r.side)
    <3>1. \A x : x \in B <=> x \in A
      BY <1>1, <2>1, UnitOfOrder
    <3>2. B = A
      BY <3>1
    <3> QED
      BY <2>1, <3>2
  <2>2. CASE t = r.trader /\ side = r.side
    <3>1. \A x : x \in N <=> \E u \in 1 .. n : x = <<id, u>>
      OBVIOUS
    <3>2. ASSUME NEW x PROVE x \in B <=> x \in A \cup N
      <4>1. x \in B => x \in A \cup N
        BY <1>1, <2>2, <3>1, UnitOfOrder
      <4>2. x \in A => x \in B
        BY <1>1, UnitOfOrder
      <4>3. x \in N => x \in B
        BY <1>1, <2>2, <3>1, UnitOfOrder
      <4> QED
        BY <4>1, <4>2, <4>3
    <3>3. A \cap N = {}
      <4> SUFFICES ASSUME NEW x \in A, x \in N PROVE FALSE
        OBVIOUS
      <4>1. PICK i \in DOMAIN O : \E u : x = <<i, u>>
        BY UnitOfOrder
      <4>2. i = id
        BY <3>1, <4>1
      <4> QED
        BY <4>1, <4>2
    <3>4. IsFiniteSet(A) /\ Cardinality(A) \in Nat
      BY ReservedFinite
    <3>5. IsFiniteSet(N) /\ Cardinality(N) = n
      <4>1. N = UnitsFrom(id, 0, n)
        BY DEF UnitsFrom
      <4> QED
        BY <4>1, UnitsOfOne
    <3>6. B = A \cup N
      BY <3>2
    <3> HIDE DEF A, B, N
    <3>7. Cardinality(A \cup N) = Cardinality(A) + Cardinality(N) - Cardinality(A \cap N)
      BY <3>4, <3>5, FS_Union
    <3>8. Cardinality(B) = Cardinality(A) + n
      BY <3>3, <3>4, <3>5, <3>6, <3>7, FS_EmptySet
    <3> QED
      BY <2>2, <3>8 DEF A, B
  <2> QED
    BY <2>1, <2>2
<1> QED
  BY <1>2, <1>3 DEF W

\* R is the ledger O after n has been released of the order id.
IsReleased(O, R, id, n) ==
    /\ DOMAIN R = IF O[id].reserved = n THEN DOMAIN O \ {id} ELSE DOMAIN O
    /\ \A i \in DOMAIN R :
           R[i] = IF i = id THEN [trader |-> O[id].trader, side |-> O[id].side,
                                  reserved |-> O[id].reserved - n]
                            ELSE O[i]

\* A release leaves a ledger.
LEMMA ReleasedLedger ==
  ASSUME NEW O, IsLedger(O), NEW id \in DOMAIN O, NEW n \in Nat,
         n > 0, n <= O[id].reserved
  PROVE  /\ IsLedger(Released(O, id, n))
         /\ IsReleased(O, Released(O, id, n), id, n)
<1> DEFINE R == Released(O, id, n)
<1>0. /\ O[id] = [trader |-> O[id].trader, side |-> O[id].side,
                  reserved |-> O[id].reserved]
      /\ O[id].reserved \in Nat
  BY DEF IsLedger
<1>1. CASE O[id].reserved = n
  <2>1. /\ DOMAIN R = DOMAIN O \ {id}
        /\ \A i \in DOMAIN R : R[i] = O[i]
    BY <1>1 DEF Released, Without
  <2> HIDE DEF R
  <2>2. IsFiniteSet(DOMAIN R)
    BY <2>1, FS_RemoveElement DEF IsLedger
  <2>3. IsLedger(R)
    BY <2>1, <2>2 DEF IsLedger
  <2> QED
    BY <1>1, <2>1, <2>3 DEF R, IsReleased
<1>2. CASE O[id].reserved # n
  <2> DEFINE r == [O[id] EXCEPT !.reserved = O[id].reserved - n]
  <2>1. R = [O EXCEPT ![id] = r]
    BY <1>2 DEF Released
  <2>2. r = [trader |-> O[id].trader, side |-> O[id].side,
             reserved |-> O[id].reserved - n]
    BY <1>0
  <2>3. r.trader = O[id].trader /\ r.side = O[id].side /\ r.reserved = O[id].reserved - n
    BY <2>2
  <2> HIDE DEF r
  <2>4. /\ DOMAIN R = DOMAIN O
        /\ \A i \in DOMAIN R : R[i] = IF i = id THEN r ELSE O[i]
    BY <2>1
  <2> HIDE DEF R
  <2>5. IsLedger(R)
    <3>1. r = [trader |-> r.trader, side |-> r.side, reserved |-> r.reserved]
      BY <2>2, <2>3
    <3>2. r.reserved \in Nat
      BY <1>0, <2>3
    <3> QED
      BY <2>4, <3>1, <3>2 DEF IsLedger
  <2> QED
    BY <1>2, <2>2, <2>4, <2>5 DEF R, IsReleased
<1> QED
  BY <1>1, <1>2

\* What it takes from the sums.
LEMMA ReservedReleased ==
  ASSUME NEW O, IsLedger(O), NEW id \in DOMAIN O, NEW n \in Nat,
         n > 0, n <= O[id].reserved, NEW t, NEW side
  PROVE  /\ n <= Cardinality(Reserved(O, O[id].trader, O[id].side))
         /\ Cardinality(Reserved(Released(O, id, n), t, side)) =
               IF t = O[id].trader /\ side = O[id].side
               THEN Cardinality(Reserved(O, t, side)) - n
               ELSE Cardinality(Reserved(O, t, side))
<1> DEFINE R == Released(O, id, n)
           m == O[id].reserved - n
           N == UnitsFrom(id, m, n)
<1>1. /\ DOMAIN R = IF O[id].reserved = n THEN DOMAIN O \ {id} ELSE DOMAIN O
      /\ \A i \in DOMAIN R :
             R[i] = IF i = id THEN [trader |-> O[id].trader, side |-> O[id].side,
                                    reserved |-> O[id].reserved - n]
                              ELSE O[i]
  <2>1. IsReleased(O, R, id, n)
    BY ReleasedLedger
  <2> HIDE DEF R
  <2> QED
    BY <2>1 DEF IsReleased
<1>2. O[id].reserved \in Nat /\ m \in Nat /\ m + n = O[id].reserved
  BY DEF IsLedger
<1> HIDE DEF R, m
<1>3. \A x : x \in N <=> \E u \in m + 1 .. m + n : x = <<id, u>>
  BY DEF UnitsFrom
<1>4. IsFiniteSet(N) /\ Cardinality(N) = n
  BY <1>2, UnitsOfOne
<1> HIDE DEF N
<1>5. N \subseteq Reserved(O, O[id].trader, O[id].side)
  <2> SUFFICES ASSUME NEW x \in N PROVE x \in Reserved(O, O[id].trader, O[id].side)
    OBVIOUS
  <2>1. PICK u \in m + 1 .. m + n : x = <<id, u>>
    BY <1>3
  <2>2. u \in 1 .. O[id].reserved
    BY <1>2
  <2> QED
    BY <2>1, <2>2, UnitOfOrder
<1>6. n <= Cardinality(Reserved(O, O[id].trader, O[id].side))
  <2> DEFINE A == Reserved(O, O[id].trader, O[id].side)
  <2>1. IsFiniteSet(A)
    BY ReservedFinite
  <2> HIDE DEF A
  <2>2. Cardinality(N) <= Cardinality(A)
    BY <1>5, <2>1, FS_Subset DEF A
  <2> QED
    BY <1>4, <2>2 DEF A
<1>7. CASE ~(t = O[id].trader /\ side = O[id].side)
  <2>1. ASSUME NEW x PROVE x \in Reserved(R, t, side) <=> x \in Reserved(O, t, side)
    <3>1. \A i \in DOMAIN R : i = id => R[i].trader = O[id].trader /\ R[i].side = O[id].side
      BY <1>1
    <3>2. \A i \in DOMAIN O : i # id => i \in DOMAIN R /\ R[i] = O[i]
      BY <1>1
    <3>3. DOMAIN R \subseteq DOMAIN O
      BY <1>1
    <3> QED
      BY <1>7, <3>1, <3>2, <3>3, UnitOfOrder
  <2>2. Reserved(R, t, side) = Reserved(O, t, side)
    BY <2>1
  <2> QED
    BY <1>6, <1>7, <2>2 DEF R
<1>8. CASE t = O[id].trader /\ side = O[id].side
  <2> DEFINE A == Reserved(O, t, side)
             B == Reserved(R, t, side)
  <2>1. ASSUME NEW x \in B PROVE x \in A \ N
    <3>1. PICK i \in DOMAIN R :
            /\ R[i].trader = t /\ R[i].side = side
            /\ \E u \in 1 .. R[i].reserved : x = <<i, u>>
      BY UnitOfOrder
    <3>2. PICK u \in 1 .. R[i].reserved : x = <<i, u>>
      BY <3>1
    <3>3. CASE i = id
      <4>1. R[i].reserved = m /\ id \in DOMAIN O
        BY <1>1, <3>3 DEF m
      <4>2. u \in 1 .. O[id].reserved /\ u \notin m + 1 .. m + n
        BY <1>2, <4>1
      <4> QED
        BY <1>3, <1>8, <3>2, <3>3, <4>1, <4>2, UnitOfOrder
    <3>4. CASE i # id
      <4>1. R[i] = O[i] /\ i \in DOMAIN O
        BY <1>1, <3>4
      <4> QED
        BY <1>3, <3>1, <3>2, <3>4, <4>1, UnitOfOrder
    <3> QED
      BY <3>3, <3>4
  <2>2. ASSUME NEW x \in A \ N PROVE x \in B
    <3>1. PICK i \in DOMAIN O :
            /\ O[i].trader = t /\ O[i].side = side
            /\ \E u \in 1 .. O[i].reserved : x = <<i, u>>
      BY UnitOfOrder
    <3>2. PICK u \in 1 .. O[i].reserved : x = <<i, u>>
      BY <3>1
    <3>3. CASE i = id
      <4>1. u \in 1 .. m
        BY <1>2, <1>3, <3>2, <3>3
      <4>2. O[id].reserved # n
        BY <1>2, <4>1
      <4>3. id \in DOMAIN R
        BY <1>1, <4>2
      <4>4. R[id] = [trader |-> O[id].trader, side |-> O[id].side,
                     reserved |-> O[id].reserved - n]
        BY <1>1, <4>3
      <4>5. R[id].trader = t /\ R[id].side = side /\ R[id].reserved = m
        BY <1>8, <4>4 DEF m
      <4> QED
        BY <3>2, <3>3, <4>1, <4>3, <4>5, UnitOfOrder
    <3>4. CASE i # id
      <4>1. R[i] = O[i] /\ i \in DOMAIN R
        BY <1>1, <3>4
      <4> QED
        BY <3>1, <3>2, <4>1, UnitOfOrder
    <3> QED
      BY <3>3, <3>4
  <2>3. B = A \ N
    BY <2>1, <2>2
  <2>4. A \cap N = N
    BY <1>5, <1>8
  <2>5. IsFiniteSet(A)
    BY ReservedFinite
  <2> HIDE DEF A, B
  <2>6. Cardinality(A \ N) = Cardinality(A) - Cardinality(A \cap N)
    BY <2>5, FS_Difference
  <2>7. Cardinality(B) = Cardinality(A) - n
    BY <1>4, <2>3, <2>4, <2>6
  <2> QED
    BY <1>6, <1>8, <2>7 DEF A, B, R
<1> QED
  BY <1>7, <1>8

-----------------------------------------------------------------------------
(* What the state transitions do *)

\* c is e after n has been released of the order id of trader u on side v, and
\* d added to the position.
Takes(e, c, id, u, v, n, d) ==
    /\ IsEngine(c) /\ c.corrupt = e.corrupt
    /\ c.orders = Released(e.orders, id, n)
    /\ \A t \in Traders :
           c.positions[t].position = e.positions[t].position +
                                     IF t = u THEN d ELSE 0
    /\ \A t \in Traders, side \in Sides :
           c.positions[t][side] = e.positions[t][side] -
                                  IF t = u /\ side = v THEN n ELSE 0

\* What applyCancelled takes from an engine.
LEMMA CancelledEffect ==
  ASSUME NEW e, IsEngine(e), NEW id, NEW n \in Int,
         e.orders[id].trader \in Traders, e.orders[id].side \in Sides
  PROVE  Takes(e, applyCancelled(e, id, n), id,
               e.orders[id].trader, e.orders[id].side, n, 0)
<1> DEFINE c == applyCancelled(e, id, n)
           u == e.orders[id].trader
           v == e.orders[id].side
           x == e.positions[u][v] - n
           P == SetTo(e.positions, u, v, x)
           O == Released(e.orders, id, n)
<1>1. /\ v \in Fields /\ x \in Int /\ e.positions \in [Traders -> Position]
      /\ u \in Traders /\ v \in Sides
  BY DEF IsEngine, Position, Fields, Sides
<1>2. c = [e EXCEPT !.positions = P, !.orders = O]
  BY DEF applyCancelled, SetTo
<1>i. \A t \in Traders, f \in Fields : e.positions[t][f] \in Int
  BY <1>1 DEF Position
<1>x. x = e.positions[u][v] - n
  OBVIOUS
<1> HIDE DEF O, u, v, x, c
<1>3. c = [positions |-> P, orders |-> O, corrupt |-> e.corrupt]
  BY <1>2 DEF IsEngine
<1>4. P \in [Traders -> Position] /\ \A t \in Traders, f \in Fields :
          P[t][f] = IF t = u /\ f = v THEN x ELSE e.positions[t][f]
  BY <1>1, CounterUpdate
<1> HIDE DEF P
<1>5. /\ c.positions = P /\ c.orders = O /\ c.corrupt = e.corrupt
  BY <1>3
<1>6. IsEngine(c)
  BY <1>3, <1>4, <1>5 DEF IsEngine
<1>7. ASSUME NEW t \in Traders
      PROVE  c.positions[t].position = e.positions[t].position + IF t = u THEN 0 ELSE 0
  <2>1. "position" \in Fields /\ v # "position"
    BY <1>1 DEF Fields, Sides
  <2>2. c.positions[t]["position"] = e.positions[t]["position"]
    BY <1>4, <1>5, <2>1
  <2> QED
    BY <1>i, <2>1, <2>2
<1>8. ASSUME NEW t \in Traders, NEW side \in Sides
      PROVE  c.positions[t][side] = e.positions[t][side] -
                                    IF t = u /\ side = v THEN n ELSE 0
  <2>1. side \in Fields
    BY DEF Fields, Sides
  <2> QED
    BY <1>i, <1>x, <1>4, <1>5, <2>1
<1> QED
  BY <1>5, <1>6, <1>7, <1>8 DEF Takes, O, u, v, c

\* What applyFill takes from it, and adds to the position.
LEMMA FillEffect ==
  ASSUME NEW e, IsEngine(e), NEW id, NEW n \in Int,
         e.orders[id].trader \in Traders, e.orders[id].side \in Sides
  PROVE  Takes(e, applyFill(e, id, n), id, e.orders[id].trader,
               e.orders[id].side, n, Signed(e.orders[id].side, n))
<1> DEFINE c == applyFill(e, id, n)
           u == e.orders[id].trader
           v == e.orders[id].side
           d == Signed(v, n)
           y == e.positions[u]["position"] + d
           Q == SetTo(e.positions, u, "position", y)
           x == e.positions[u][v] - n
           P == SetTo(Q, u, v, x)
           O == Released(e.orders, id, n)
<1>1. /\ v \in Fields /\ e.positions \in [Traders -> Position]
      /\ u \in Traders /\ v \in Sides /\ v # "position" /\ "position" \in Fields
  BY DEF IsEngine, Position, Fields, Sides
<1>i. \A t \in Traders, f \in Fields : e.positions[t][f] \in Int
  BY <1>1 DEF Position
<1>d. d \in Int
  BY DEF Signed
<1>2. c = [positions |-> P, orders |-> O, corrupt |-> e.corrupt]
  <2>1. c = [[[e EXCEPT !.positions[u].position = y]
                EXCEPT !.positions[u][v] = x] EXCEPT !.orders = O]
    BY DEF applyFill
  <2> HIDE DEF O, u, v, x, y
  <2>2. [e EXCEPT !.positions[u].position = y] =
            [positions |-> Q, orders |-> e.orders, corrupt |-> e.corrupt]
    BY DEF SetTo, IsEngine
  <2> HIDE DEF Q
  <2>3. c = [[[positions |-> Q, orders |-> e.orders, corrupt |-> e.corrupt]
                EXCEPT !.positions[u][v] = x] EXCEPT !.orders = O]
    BY <2>1, <2>2
  <2> QED
    BY <2>3 DEF SetTo
<1> HIDE DEF O, u, v, c, d
<1>y. y \in Int
  BY <1>1, <1>i, <1>d
<1>3. Q \in [Traders -> Position] /\ \A t \in Traders, f \in Fields :
          Q[t][f] = IF t = u /\ f = "position" THEN y ELSE e.positions[t][f]
  <2> HIDE DEF y
  <2> QED
    BY <1>1, <1>y, CounterUpdate
<1>x. x = e.positions[u][v] - n /\ x \in Int
  BY <1>1, <1>i
<1> HIDE DEF Q, x
<1>4. P \in [Traders -> Position] /\ \A t \in Traders, f \in Fields :
          P[t][f] = IF t = u /\ f = v THEN x ELSE Q[t][f]
  <2>1. Q \in [Traders -> Position]
    BY <1>3
  <2> QED
    BY <1>1, <1>x, <2>1, CounterUpdate
<1> HIDE DEF P
<1>5. c = [positions |-> P, orders |-> O, corrupt |-> e.corrupt]
  BY <1>2
<1>6. /\ c.positions = P /\ c.orders = O /\ c.corrupt = e.corrupt
  BY <1>5
<1>7. IsEngine(c)
  BY <1>4, <1>5, <1>6 DEF IsEngine
<1>8. ASSUME NEW t \in Traders
      PROVE  c.positions[t].position = e.positions[t].position + IF t = u THEN d ELSE 0
  <2>1. c.positions[t]["position"] =
            IF t = u THEN e.positions[t]["position"] + d ELSE e.positions[t]["position"]
    BY <1>1, <1>3, <1>4, <1>6
  <2> QED
    BY <1>1, <1>i, <2>1
<1>9. ASSUME NEW t \in Traders, NEW side \in Sides
      PROVE  c.positions[t][side] = e.positions[t][side] -
                                    IF t = u /\ side = v THEN n ELSE 0
  <2>1. side \in Fields /\ side # "position"
    BY DEF Fields, Sides
  <2>2. c.positions[t][side] = IF t = u /\ side = v THEN e.positions[t][side] - n ELSE e.positions[t][side]
    BY <1>x, <1>3, <1>4, <1>6, <2>1
  <2> QED
    BY <1>i, <2>1, <2>2
<1> QED
  BY <1>6, <1>7, <1>8, <1>9 DEF Takes, O, u, v, c, d

\* The counters of an engine are integers.
LEMMA CountersType ==
  ASSUME NEW e, IsEngine(e), NEW t \in Traders, NEW side \in Sides
  PROVE  /\ e.positions[t].position \in Int /\ e.positions[t][side] \in Int
         /\ Exposure(e, t, side) \in Int
         /\ Exposure(e, t, side) =
                IF side = "BUY" THEN e.positions[t].position + e.positions[t][side]
                ELSE e.positions[t][side] - e.positions[t].position
<1>1. "position" \in Fields /\ side \in Fields
  BY DEF Fields, Sides
<1>2. e.positions[t]["position"] \in Int /\ e.positions[t][side] \in Int
  BY <1>1 DEF IsEngine, Position
<1> QED
  BY <1>2 DEF Exposure, Signed

\* A fill moves quantity from an order to the position: the exposure on its
\* side stays, the one on the other side falls.
LEMMA FillExposure ==
  ASSUME NEW e, IsEngine(e), NEW c, NEW id, NEW u \in Traders, NEW v \in Sides,
         NEW n \in Nat, Takes(e, c, id, u, v, n, Signed(v, n)),
         NEW t \in Traders, NEW side \in Sides
  PROVE  Exposure(c, t, side) = Exposure(e, t, side) -
                                IF t = u /\ side # v THEN n ELSE 0
<1>1. IsEngine(c)
  BY DEF Takes
<1>2. /\ e.positions[t].position \in Int /\ e.positions[t][side] \in Int
      /\ c.positions[t].position \in Int /\ c.positions[t][side] \in Int
      /\ Exposure(e, t, side) =
                IF side = "BUY" THEN e.positions[t].position + e.positions[t][side]
                ELSE e.positions[t][side] - e.positions[t].position
      /\ Exposure(c, t, side) =
                IF side = "BUY" THEN c.positions[t].position + c.positions[t][side]
                ELSE c.positions[t][side] - c.positions[t].position
  BY <1>1, CountersType
<1>3. /\ c.positions[t].position = e.positions[t].position +
                                     IF t = u THEN Signed(v, n) ELSE 0
      /\ c.positions[t][side] = e.positions[t][side] -
                                  IF t = u /\ side = v THEN n ELSE 0
  BY DEF Takes
<1>4. side \in {"BUY", "SELL"} /\ v \in {"BUY", "SELL"}
  BY DEF Sides
<1> QED
  BY <1>2, <1>3, <1>4 DEF Signed

\* A cancel lowers the exposure of its order.
LEMMA CancelExposure ==
  ASSUME NEW e, IsEngine(e), NEW c, NEW id, NEW u \in Traders, NEW v \in Sides,
         NEW n \in Nat, Takes(e, c, id, u, v, n, 0),
         NEW t \in Traders, NEW side \in Sides
  PROVE  Exposure(c, t, side) = Exposure(e, t, side) -
                                IF t = u /\ side = v THEN n ELSE 0
<1>1. IsEngine(c)
  BY DEF Takes
<1>2. /\ e.positions[t].position \in Int /\ e.positions[t][side] \in Int
      /\ c.positions[t].position \in Int /\ c.positions[t][side] \in Int
      /\ Exposure(e, t, side) =
                IF side = "BUY" THEN e.positions[t].position + e.positions[t][side]
                ELSE e.positions[t][side] - e.positions[t].position
      /\ Exposure(c, t, side) =
                IF side = "BUY" THEN c.positions[t].position + c.positions[t][side]
                ELSE c.positions[t][side] - c.positions[t].position
  BY <1>1, CountersType
<1>3. /\ c.positions[t].position = e.positions[t].position
      /\ c.positions[t][side] = e.positions[t][side] -
                                  IF t = u /\ side = v THEN n ELSE 0
  BY <1>2 DEF Takes
<1> QED
  BY <1>2, <1>3

\* An order that rests raises it.
LEMMA RestExposure ==
  ASSUME NEW e, IsEngine(e), NEW o, o.trader \in Traders, o.side \in Sides,
         NEW rem \in Nat, NEW t \in Traders, NEW side \in Sides
  PROVE  Exposure(applyResting(e, o, rem), t, side) =
             Exposure(e, t, side) +
                 IF t = o.trader /\ side = o.side THEN rem ELSE 0
<1> DEFINE c == applyResting(e, o, rem)
<1>r. Rests(e, c, o, rem)
  BY RestingEffect
<1> HIDE DEF c
<1>1. /\ IsEngine(c)
      /\ \A r \in Traders, f \in Fields :
             c.positions[r][f] = e.positions[r][f] +
                                 IF r = o.trader /\ f = o.side THEN rem ELSE 0
  BY <1>r DEF Rests
<1>2. /\ e.positions[t].position \in Int /\ e.positions[t][side] \in Int
      /\ c.positions[t].position \in Int /\ c.positions[t][side] \in Int
      /\ Exposure(e, t, side) =
                IF side = "BUY" THEN e.positions[t].position + e.positions[t][side]
                ELSE e.positions[t][side] - e.positions[t].position
      /\ Exposure(c, t, side) =
                IF side = "BUY" THEN c.positions[t].position + c.positions[t][side]
                ELSE c.positions[t][side] - c.positions[t].position
  BY <1>1, CountersType
<1>3. "position" \in Fields /\ side \in Fields /\ o.side # "position"
  BY DEF Fields, Sides
<1>4. /\ c.positions[t]["position"] = e.positions[t]["position"]
      /\ c.positions[t][side] = e.positions[t][side] +
                                IF t = o.trader /\ side = o.side THEN rem ELSE 0
  <2>1. e.positions[t]["position"] \in Int
    BY <1>2
  <2> QED
    BY <1>1, <1>3, <2>1
<1>5. Exposure(c, t, side) = Exposure(e, t, side) +
                 IF t = o.trader /\ side = o.side THEN rem ELSE 0
  BY <1>2, <1>4
<1> QED
  BY <1>5 DEF c

-----------------------------------------------------------------------------
(* An engine that tracks orders *)

\* Orders on their way through the book.
Orders ==
    {o \in [id : OrderIds, trader : Traders, side : Sides, type : {"LIMIT", "IOC"},
            qty : 1 .. MaxQty, rem : 0 .. MaxQty] : o.rem <= o.qty}

\* o rests in the book under id.
RestsAs(o, id) == o \in Orders /\ o.id = id /\ o.type = "LIMIT" /\ o.rem > 0

IsBook(b) ==
    /\ IsFiniteSet(DOMAIN b)
    /\ \A id \in DOMAIN b : RestsAs(b[id], id)

\* Tracks, of any book.
TracksIn(e, ids, b) ==
    /\ DOMAIN e.orders = ids
    /\ \A id \in ids : e.orders[id] = [trader |-> b[id].trader,
                                       side |-> b[id].side,
                                       reserved |-> b[id].rem]
    /\ \A t \in Traders, side \in Sides :
           e.positions[t][side] = Cardinality(Reserved(e.orders, t, side))

\* What is known of the quantities of a resting order.
LEMMA RestsAsType ==
  ASSUME NEW o, NEW id, RestsAs(o, id)
  PROVE  o.rem \in Nat /\ o.rem > 0 /\ o.qty \in Nat /\ o.rem <= o.qty /\ o.qty <= MaxQty
  BY RiskAssumption DEF RestsAs, Orders

\* What the reservations of a tracking engine are.
LEMMA TrackedLedger ==
  ASSUME NEW b, IsBook(b), NEW ids \in SUBSET DOMAIN b, NEW e,
         TracksIn(e, ids, b)
  PROVE  /\ IsLedger(e.orders)
         /\ \A id \in ids : /\ e.orders[id].trader = b[id].trader
                            /\ e.orders[id].side = b[id].side
                            /\ e.orders[id].reserved = b[id].rem
         /\ \A t \in Traders, side \in Sides : e.positions[t][side] \in Nat
<1>1. IsFiniteSet(ids)
  BY FS_Subset DEF IsBook
<1>2. ASSUME NEW id \in ids
      PROVE  /\ e.orders[id].trader = b[id].trader
             /\ e.orders[id].side = b[id].side
             /\ e.orders[id].reserved = b[id].rem
             /\ b[id].rem \in Nat
             /\ e.orders[id] = [trader |-> b[id].trader, side |-> b[id].side,
                                reserved |-> b[id].rem]
  <2>1. e.orders[id] = [trader |-> b[id].trader, side |-> b[id].side,
                        reserved |-> b[id].rem]
    BY DEF TracksIn
  <2>2. b[id].rem \in Nat
    BY RestsAsType DEF IsBook
  <2> QED
    BY <2>1, <2>2
<1>3. IsLedger(e.orders)
  BY <1>1, <1>2 DEF IsLedger, TracksIn
<1>4. \A t \in Traders, side \in Sides : e.positions[t][side] \in Nat
  BY <1>3, ReservedFinite DEF TracksIn
<1> QED
  BY <1>2, <1>3, <1>4

\* An engine can release any part of an order that it tracks.
LEMMA TrackedReleases ==
  ASSUME NEW b, IsBook(b), NEW ids \in SUBSET DOMAIN b, NEW e,
         TracksIn(e, ids, b), ~e.corrupt,
         NEW id \in ids, NEW n \in Nat, n > 0, n <= b[id].rem
  PROVE  CanRelease(e, id, n)
<1>1. /\ IsLedger(e.orders) /\ id \in DOMAIN e.orders
      /\ e.orders[id].trader = b[id].trader
      /\ e.orders[id].side = b[id].side
      /\ e.orders[id].reserved = b[id].rem
  BY TrackedLedger DEF TracksIn
<1>2. n <= Cardinality(Reserved(e.orders, e.orders[id].trader, e.orders[id].side))
  BY <1>1, ReservedReleased
<1>3. b[id].trader \in Traders /\ b[id].side \in Sides
  BY DEF IsBook, RestsAs, Orders
<1>4. n <= e.positions[e.orders[id].trader][e.orders[id].side]
  BY <1>1, <1>2, <1>3 DEF TracksIn
<1> QED
  BY <1>1, <1>4 DEF CanRelease

\* b2 is the book b after n of the order id has gone.
BookTakes(b, b2, ids, id, n) ==
    /\ \A i \in ids : i # id => b2[i] = b[i]
    /\ n # b[id].rem => /\ b2[id].trader = b[id].trader
                        /\ b2[id].side = b[id].side
                        /\ b2[id].rem = b[id].rem - n

\* After a release the engine tracks the new book.
LEMMA ReleaseTracks ==
  ASSUME NEW b, IsBook(b), NEW ids \in SUBSET DOMAIN b, NEW e,
         TracksIn(e, ids, b),
         NEW id \in ids, NEW n \in Nat, n > 0, n <= b[id].rem,
         NEW c, NEW d, Takes(e, c, id, b[id].trader, b[id].side, n, d),
         NEW b2, BookTakes(b, b2, ids, id, n)
  PROVE  TracksIn(c, IF n = b[id].rem THEN ids \ {id} ELSE ids, b2)
<1> DEFINE O == e.orders
           R == c.orders
           ids2 == IF n = b[id].rem THEN ids \ {id} ELSE ids
<1>1. /\ IsLedger(O) /\ id \in DOMAIN O /\ DOMAIN O = ids
      /\ O[id].trader = b[id].trader
      /\ O[id].side = b[id].side
      /\ O[id].reserved = b[id].rem
  BY TrackedLedger DEF TracksIn
<1>2. R = Released(O, id, n)
  BY DEF Takes
<1>3. IsReleased(O, R, id, n)
  BY <1>1, <1>2, ReleasedLedger
<1>4. DOMAIN R = ids2
  BY <1>1, <1>3 DEF IsReleased
<1>5. ASSUME NEW i \in ids2
      PROVE  R[i] = [trader |-> b2[i].trader, side |-> b2[i].side,
                     reserved |-> b2[i].rem]
  <2>1. i \in ids /\ i \in DOMAIN R
    BY <1>4
  <2>2. CASE i = id
    <3>1. R[i] = [trader |-> O[id].trader, side |-> O[id].side,
                  reserved |-> O[id].reserved - n]
      BY <1>3, <2>1, <2>2 DEF IsReleased
    <3>2. n # b[id].rem
      BY <2>2
    <3>3. /\ b2[id].trader = b[id].trader /\ b2[id].side = b[id].side
          /\ b2[id].rem = b[id].rem - n
      BY <3>2 DEF BookTakes
    <3> QED
      BY <1>1, <2>2, <3>1, <3>3
  <2>3. CASE i # id
    <3>1. R[i] = O[i]
      BY <1>3, <2>1, <2>3 DEF IsReleased
    <3>2. O[i] = [trader |-> b[i].trader, side |-> b[i].side, reserved |-> b[i].rem]
      BY <2>1 DEF TracksIn
    <3>3. b2[i] = b[i]
      BY <2>1, <2>3 DEF BookTakes
    <3> QED
      BY <3>1, <3>2, <3>3
  <2> QED
    BY <2>2, <2>3
<1>6. ASSUME NEW t \in Traders, NEW side \in Sides
      PROVE  c.positions[t][side] = Cardinality(Reserved(R, t, side))
  <2>1. Cardinality(Reserved(R, t, side)) =
            IF t = O[id].trader /\ side = O[id].side
            THEN Cardinality(Reserved(O, t, side)) - n
            ELSE Cardinality(Reserved(O, t, side))
    BY <1>1, <1>2, ReservedReleased
  <2>2. c.positions[t][side] = e.positions[t][side] -
                 IF t = b[id].trader /\ side = b[id].side THEN n ELSE 0
    BY DEF Takes
  <2>3. e.positions[t][side] = Cardinality(Reserved(O, t, side))
    BY DEF TracksIn
  <2>4. e.positions[t][side] \in Nat
    BY TrackedLedger
  <2> QED
    BY <1>1, <2>1, <2>2, <2>3, <2>4
<1> HIDE DEF ids2
<1>7. TracksIn(c, ids2, b2)
  BY <1>4, <1>5, <1>6 DEF TracksIn
<1> QED
  BY <1>7 DEF ids2

\* After an order has rested, too.
LEMMA RestTracks ==
  ASSUME NEW b, IsBook(b), NEW ids \in SUBSET DOMAIN b, NEW e,
         TracksIn(e, ids, b),
         NEW o, o.id \notin ids, o.rem \in Nat,
         o.trader \in Traders, o.side \in Sides,
         NEW c, Rests(e, c, o, o.rem),
         NEW b2, b2[o.id] = o, \A i \in ids : b2[i] = b[i]
  PROVE  TracksIn(c, ids \cup {o.id}, b2)
<1> DEFINE O == e.orders
           W == c.orders
           r == [trader |-> o.trader, side |-> o.side, reserved |-> o.rem]
           n == o.rem
<1>1. IsLedger(O) /\ DOMAIN O = ids
  BY TrackedLedger DEF TracksIn
<1>2. W = With(O, o.id, r)
  BY DEF Rests
<1>r. /\ r.trader = o.trader /\ r.side = o.side /\ r.reserved = n
      /\ r = [trader |-> r.trader, side |-> r.side, reserved |-> r.reserved]
  OBVIOUS
<1>3. /\ DOMAIN W = ids \cup {o.id}
      /\ W[o.id] = r
      /\ \A i \in ids : W[i] = O[i]
  BY <1>1, <1>2 DEF With
<1>4. ASSUME NEW i \in ids \cup {o.id}
      PROVE  W[i] = [trader |-> b2[i].trader, side |-> b2[i].side,
                     reserved |-> b2[i].rem]
  <2>1. CASE i = o.id
    BY <1>3, <2>1
  <2>2. CASE i # o.id
    <3>1. W[i] = O[i] /\ b2[i] = b[i] /\ i \in ids
      BY <1>3, <2>2
    <3>2. O[i] = [trader |-> b[i].trader, side |-> b[i].side, reserved |-> b[i].rem]
      BY <3>1 DEF TracksIn
    <3> QED
      BY <3>1, <3>2
  <2> QED
    BY <2>1, <2>2
<1> HIDE DEF r
<1>5. ASSUME NEW t \in Traders, NEW side \in Sides
      PROVE  c.positions[t][side] = Cardinality(Reserved(W, t, side))
  <2>1. Cardinality(Reserved(W, t, side)) =
            IF t = r.trader /\ side = r.side
            THEN Cardinality(Reserved(O, t, side)) + n
            ELSE Cardinality(Reserved(O, t, side))
    <3> HIDE DEF O, W
    <3>1. n \in Nat /\ o.id \notin DOMAIN O
      BY <1>1
    <3> QED
      BY <1>1, <1>2, <1>r, <3>1, ReservedWith
  <2>2. c.positions[t][side] = e.positions[t][side] +
                 IF t = o.trader /\ side = o.side THEN n ELSE 0
    BY DEF Rests, Fields, Sides
  <2>3. e.positions[t][side] = Cardinality(Reserved(O, t, side))
    BY DEF TracksIn
  <2>4. e.positions[t][side] \in Nat
    BY TrackedLedger
  <2> QED
    BY <1>r, <2>1, <2>2, <2>3, <2>4
<1> QED
  BY <1>3, <1>4, <1>5 DEF TracksIn

\* Orders that the engine does not track may come and go.
LEMMA OthersTrack ==
  ASSUME NEW b, NEW ids, NEW e, TracksIn(e, ids, b),
         NEW b2, \A i \in ids : b2[i] = b[i]
  PROVE  TracksIn(e, ids, b2)
  BY DEF TracksIn

\* No exposure is above what an int64 holds.
Fit(e) == \A t \in Traders, side \in Sides : Exposure(e, t, side) <= IntMax

\* An engine whose exposures fit can fill any part of an order that it tracks.
LEMMA TrackedFills ==
  ASSUME NEW b, IsBook(b), NEW ids \in SUBSET DOMAIN b, NEW e, IsEngine(e),
         TracksIn(e, ids, b), ~e.corrupt, Fit(e),
         NEW id \in ids, NEW n \in Nat, n > 0, n <= b[id].rem
  PROVE  CanFill(e, id, n)
<1> DEFINE u == b[id].trader
           v == b[id].side
<1>1. CanRelease(e, id, n)
  BY TrackedReleases
<1>2. u \in Traders /\ v \in Sides /\ "BUY" \in Sides /\ "SELL" \in Sides
  BY DEF IsBook, RestsAs, Orders, Sides
<1>3. e.orders[id].trader = u /\ e.orders[id].side = v
  BY TrackedLedger
<1>4. \A side \in Sides : e.positions[u][side] \in Nat
  BY <1>2, TrackedLedger
<1>5. n <= e.positions[u][v]
  BY <1>1, <1>3 DEF CanRelease
<1> HIDE DEF u, v
<1>6. e.positions[u].position \in Int
  BY <1>2, CountersType
<1>7. /\ e.positions[u].position + e.positions[u]["BUY"] <= IntMax
      /\ e.positions[u]["SELL"] - e.positions[u].position <= IntMax
  <2>1. /\ Exposure(e, u, "BUY") = e.positions[u].position + e.positions[u]["BUY"]
        /\ Exposure(e, u, "SELL") = e.positions[u]["SELL"] - e.positions[u].position
    BY <1>2, CountersType
  <2> QED
    BY <1>2, <2>1 DEF Fit
<1>8. Fits(e.positions[u].position + Signed(v, n))
  <2>1. CASE v = "BUY"
    BY <1>2, <1>4, <1>5, <1>6, <1>7, <2>1, RiskAssumption DEF Fits, Signed
  <2>2. CASE v = "SELL"
    BY <1>2, <1>4, <1>5, <1>6, <1>7, <2>2, RiskAssumption DEF Fits, Signed
  <2> QED
    BY <1>2, <2>1, <2>2 DEF Sides
<1> QED
  BY <1>1, <1>3, <1>8 DEF CanFill

\* c is the engine e, which tracks the orders ids of b, after a fill of n of
\* the order id has made the book b2.
AfterFill(e, c, ids, b, id, n, b2) ==
    /\ IsEngine(c) /\ ~c.corrupt
    /\ TracksIn(c, IF n = b[id].rem THEN ids \ {id} ELSE ids, b2)
    /\ \A t \in Traders, side \in Sides :
           Exposure(c, t, side) = Exposure(e, t, side) -
               IF t = b[id].trader /\ side # b[id].side THEN n ELSE 0

\* applyFill is such a step.
LEMMA FillTracked ==
  ASSUME NEW b, IsBook(b), NEW ids \in SUBSET DOMAIN b, NEW e, IsEngine(e),
         TracksIn(e, ids, b), ~e.corrupt,
         NEW id \in ids, NEW n \in Nat, n > 0, n <= b[id].rem,
         NEW b2, BookTakes(b, b2, ids, id, n)
  PROVE  AfterFill(e, applyFill(e, id, n), ids, b, id, n, b2)
<1> DEFINE c == applyFill(e, id, n)
           u == b[id].trader
           v == b[id].side
<1>1. u \in Traders /\ v \in Sides
  BY DEF IsBook, RestsAs, Orders
<1>2. e.orders[id].trader = u /\ e.orders[id].side = v
  BY TrackedLedger
<1>n. n \in Int
  OBVIOUS
<1>3. Takes(e, c, id, u, v, n, Signed(v, n))
  <2>1. Takes(e, c, id, e.orders[id].trader, e.orders[id].side, n,
              Signed(e.orders[id].side, n))
    BY <1>1, <1>2, <1>n, FillEffect
  <2> QED
    BY <1>2, <2>1
<1> HIDE DEF c
<1>4. IsEngine(c) /\ ~c.corrupt
  BY <1>3 DEF Takes
<1>5. TracksIn(c, IF n = b[id].rem THEN ids \ {id} ELSE ids, b2)
  BY <1>3, ReleaseTracks
<1> HIDE DEF u, v
<1>6. \A t \in Traders, side \in Sides :
          Exposure(c, t, side) = Exposure(e, t, side) -
              IF t = u /\ side # v THEN n ELSE 0
  BY <1>1, <1>3, FillExposure
<1> QED
  BY <1>4, <1>5, <1>6 DEF AfterFill, c, u, v

\* The same for a cancel.
AfterCancel(e, c, ids, b, id, b2) ==
    /\ IsEngine(c) /\ ~c.corrupt
    /\ TracksIn(c, ids \ {id}, b2)
    /\ \A t \in Traders, side \in Sides :
           Exposure(c, t, side) = Exposure(e, t, side) -
               IF t = b[id].trader /\ side = b[id].side THEN b[id].rem ELSE 0

\* The release that onOrderCancelled asks for succeeds, and is one.
LEMMA CancelTracked ==
  ASSUME NEW b, IsBook(b), NEW ids \in SUBSET DOMAIN b, NEW e, IsEngine(e),
         TracksIn(e, ids, b), ~e.corrupt,
         NEW id \in ids, NEW b2, BookTakes(b, b2, ids, id, b[id].rem)
  PROVE  /\ CanRelease(e, id, b[id].rem)
         /\ AfterCancel(e, applyCancelled(e, id, b[id].rem), ids, b, id, b2)
<1> DEFINE n == b[id].rem
           c == applyCancelled(e, id, n)
           u == b[id].trader
           v == b[id].side
<1>1. u \in Traders /\ v \in Sides /\ n \in Nat /\ n > 0 /\ n <= n /\ n \in Int
  BY RestsAsType DEF IsBook, RestsAs, Orders
<1>2. e.orders[id].trader = u /\ e.orders[id].side = v
  BY TrackedLedger
<1>0. CanRelease(e, id, n)
  BY <1>1, TrackedReleases
<1>b. BookTakes(b, b2, ids, id, n)
  OBVIOUS
<1> HIDE DEF n
<1>3. Takes(e, c, id, u, v, n, 0)
  <2>1. Takes(e, c, id, e.orders[id].trader, e.orders[id].side, n, 0)
    BY <1>1, <1>2, CancelledEffect
  <2> QED
    BY <1>2, <2>1
<1> HIDE DEF c
<1>4. IsEngine(c) /\ ~c.corrupt
  BY <1>3 DEF Takes
<1>5. TracksIn(c, ids \ {id}, b2)
  <2>1. TracksIn(c, IF n = b[id].rem THEN ids \ {id} ELSE ids, b2)
    BY <1>1, <1>3, <1>b, ReleaseTracks DEF n
  <2> QED
    BY <2>1 DEF n
<1> HIDE DEF u, v
<1>6. \A t \in Traders, side \in Sides :
          Exposure(c, t, side) = Exposure(e, t, side) -
              IF t = u /\ side = v THEN n ELSE 0
  BY <1>1, <1>3, CancelExposure
<1> QED
  BY <1>0, <1>4, <1>5, <1>6 DEF AfterCancel, c, u, v, n

\* b2 is the book b with the order o.
BookGains(b, b2, ids, o) == b2[o.id] = o /\ \A i \in ids : b2[i] = b[i]

\* The same for an order that rests.
AfterRest(e, c, ids, o, b2) ==
    /\ IsEngine(c) /\ ~c.corrupt
    /\ TracksIn(c, ids \cup {o.id}, b2)
    /\ \A t \in Traders, side \in Sides :
           Exposure(c, t, side) = Exposure(e, t, side) +
               IF t = o.trader /\ side = o.side THEN o.rem ELSE 0

\* The order can rest, and applyResting is such a step.
LEMMA RestTracked ==
  ASSUME NEW b, IsBook(b), NEW ids \in SUBSET DOMAIN b, NEW e, IsEngine(e),
         TracksIn(e, ids, b), ~e.corrupt,
         NEW o \in Orders, o.id \notin ids, o.rem > 0, o.type = "LIMIT",
         NEW b2, BookGains(b, b2, ids, o)
  PROVE  /\ CanRest(e, o, o.rem)
         /\ AfterRest(e, applyResting(e, o, o.rem), ids, o, b2)
<1> DEFINE n == o.rem
           c == applyResting(e, o, n)
<1>1. /\ o.trader \in Traders /\ o.side \in Sides /\ n \in Nat /\ n > 0
      /\ o.rem \in 1 .. o.qty
  BY RiskAssumption DEF Orders
<1>2. CanRest(e, o, o.rem)
  BY <1>1 DEF CanRest, TracksIn
<1>3. Rests(e, c, o, n)
  <2> HIDE DEF n
  <2> QED
    BY <1>1, RestingEffect
<1>6. \A t \in Traders, side \in Sides :
          Exposure(c, t, side) = Exposure(e, t, side) +
              IF t = o.trader /\ side = o.side THEN n ELSE 0
  <2> HIDE DEF n
  <2> QED
    BY <1>1, RestExposure
<1> HIDE DEF c
<1>4. IsEngine(c) /\ ~c.corrupt
  BY <1>3 DEF Rests
<1>5. TracksIn(c, ids \cup {o.id}, b2)
  BY <1>1, <1>3, RestTracks DEF BookGains
<1> QED
  BY <1>2, <1>4, <1>5, <1>6 DEF AfterRest, c

-----------------------------------------------------------------------------
(* The inductive invariant *)

\* The limits leave room below INT64_MAX for the orders that onOrderResting
\* refuses and a restart brings back.
HasRoom == \A l \in Limits : l + MaxRefusals * MaxQty <= IntMax

Ceiling == IntMax - MaxRefusals * MaxQty

\* b is a book with orders that may have nothing left.
IsWholeBook(b) ==
    /\ IsFiniteSet(DOMAIN b)
    /\ \A id \in DOMAIN b : b[id] \in Orders /\ b[id].id = id /\ b[id].type = "LIMIT"

\* The orders of a book that have something left.
LivePart(b) == [id \in {i \in DOMAIN b : b[i].rem > 0} |-> b[id]]

Rested == LivePart(book)

\* Only an order of the book keeps its place.
Placed == inPlace => active # {} /\ \A o \in active : o.type = "LIMIT"

Shape ==
    /\ IsEngine(live) /\ IsEngine(replayed)
    /\ voided \in BOOLEAN
    /\ replayed.corrupt => voided
    /\ voided => replayed.corrupt
    /\ live.corrupt => voided /\ active = {}
    /\ Placed
    /\ IsWholeBook(book)
    /\ active \subseteq Orders
    /\ \A o, p \in active : o = p
    /\ \A o \in active : o.id \notin DOMAIN book
    /\ maxPos \in Limits
    /\ refused \subseteq DOMAIN Rested
    /\ refusals \in 0 .. MaxRefusals

Tracking ==
    /\ ~live.corrupt => TracksIn(live, DOMAIN Rested \ refused, Rested)
    /\ ~voided => TracksIn(replayed, DOMAIN Rested, Rested)

InStep == ~voided /\ ~diverged => replayed = live

\* The order being matched may rest with what is left of it.
Within ==
    \A o \in active : Exposure(live, o.trader, o.side) + o.rem <= maxPos

\* Only refused orders take exposures above the limits: by x in the live
\* engine, which has met them again at a restart, and by y more in the
\* restored one.
BoundedBy(x, y) ==
    /\ x + y <= refusals * MaxQty
    /\ \A t \in Traders, side \in Sides :
           /\ ~live.corrupt => Exposure(live, t, side) <= Ceiling + x
           /\ ~voided => Exposure(replayed, t, side) <= Exposure(live, t, side) + y

Bounded == \E x, y \in Nat : BoundedBy(x, y)

RiskInv == Shape /\ Tracking /\ InStep /\ Within /\ Bounded

\* Then every exposure fits.
LEMMA ExposuresFit ==
  ASSUME RiskInv, ~live.corrupt
  PROVE  Fit(live) /\ (~voided => Fit(replayed))
<1>1. PICK x \in Nat, y \in Nat : BoundedBy(x, y)
  BY DEF RiskInv, Bounded
<1>2. refusals * MaxQty <= MaxRefusals * MaxQty
  <2>1. refusals \in Nat /\ MaxRefusals \in Nat /\ refusals <= MaxRefusals
    BY RiskAssumption DEF RiskInv, Shape
  <2> QED
    BY <2>1, RiskAssumption
<1>3. refusals * MaxQty \in Int /\ MaxRefusals * MaxQty \in Int /\ IntMax \in Int
  BY RiskAssumption DEF RiskInv, Shape
<1>4. Ceiling + (x + y) <= IntMax /\ Ceiling \in Int
  BY <1>1, <1>2, <1>3 DEF Ceiling, BoundedBy
<1>5. \A t \in Traders, side \in Sides :
          Exposure(live, t, side) \in Int /\ Exposure(replayed, t, side) \in Int
  BY CountersType DEF RiskInv, Shape
<1> QED
  BY <1>1, <1>3, <1>4, <1>5 DEF BoundedBy, Fit

-----------------------------------------------------------------------------
(* What the steps make of the book *)

\* The orders with something left are a book.
LEMMA LivePartBook ==
  ASSUME NEW b, IsWholeBook(b)
  PROVE  /\ IsBook(LivePart(b))
         /\ DOMAIN LivePart(b) = {i \in DOMAIN b : b[i].rem > 0}
         /\ \A i \in DOMAIN LivePart(b) : LivePart(b)[i] = b[i]
<1>1. /\ DOMAIN LivePart(b) = {i \in DOMAIN b : b[i].rem > 0}
      /\ \A i \in DOMAIN LivePart(b) : LivePart(b)[i] = b[i]
  BY DEF LivePart
<1>2. IsFiniteSet(DOMAIN LivePart(b))
  BY <1>1, FS_Subset DEF IsWholeBook
<1>3. \A i \in DOMAIN LivePart(b) : RestsAs(LivePart(b)[i], i)
  BY <1>1 DEF IsWholeBook, RestsAs
<1> QED
  BY <1>1, <1>2, <1>3 DEF IsBook

\* An order leaves the book.
LEMMA WholeWithout ==
  ASSUME NEW b, IsWholeBook(b), NEW id
  PROVE  /\ IsWholeBook(Without(b, id)) /\ DOMAIN Without(b, id) = DOMAIN b \ {id}
         /\ LivePart(Without(b, id)) = Without(LivePart(b), id)
         /\ id \notin DOMAIN LivePart(b) => LivePart(Without(b, id)) = LivePart(b)
<1>1. /\ DOMAIN Without(b, id) = DOMAIN b \ {id}
      /\ \A i \in DOMAIN b : i # id => Without(b, id)[i] = b[i]
  BY DEF Without
<1>2. IsFiniteSet(DOMAIN b \ {id})
  BY FS_Subset DEF IsWholeBook
<1>3. IsWholeBook(Without(b, id))
  BY <1>1, <1>2 DEF IsWholeBook
<1> DEFINE c == Without(b, id)
           S == {i \in DOMAIN b : b[i].rem > 0}
<1>4. {i \in DOMAIN c : c[i].rem > 0} = S \ {id}
  BY <1>1
<1>5. LivePart(c) = [i \in S \ {id} |-> b[i]]
  BY <1>1, <1>4 DEF LivePart
<1>6. Without(LivePart(b), id) = [i \in S \ {id} |-> b[i]]
  BY DEF Without, LivePart
<1>7. id \notin DOMAIN LivePart(b) => LivePart(c) = LivePart(b)
  <2>1. DOMAIN LivePart(b) = S
    BY DEF LivePart
  <2>2. id \notin S => S \ {id} = S
    OBVIOUS
  <2> QED
    BY <1>5, <2>1, <2>2 DEF LivePart
<1> QED
  BY <1>1, <1>3, <1>5, <1>6, <1>7

\* An order joins the book.
LEMMA WholeWith ==
  ASSUME NEW b, IsWholeBook(b), NEW o \in Orders, o.type = "LIMIT",
         o.id \notin DOMAIN b
  PROVE  /\ IsWholeBook(With(b, o.id, o))
         /\ o.rem > 0 => LivePart(With(b, o.id, o)) = With(LivePart(b), o.id, o)
         /\ o.rem = 0 => LivePart(With(b, o.id, o)) = LivePart(b)
<1> DEFINE c == With(b, o.id, o)
           S == {i \in DOMAIN b : b[i].rem > 0}
<1>1. /\ DOMAIN c = DOMAIN b \cup {o.id} /\ c[o.id] = o
      /\ \A i \in DOMAIN b : c[i] = b[i]
  BY DEF With
<1>2. IsFiniteSet(DOMAIN b \cup {o.id})
  BY FS_AddElement DEF IsWholeBook
<1> HIDE DEF c
<1>3. IsWholeBook(c)
  BY <1>1, <1>2 DEF IsWholeBook
<1>4. CASE o.rem > 0
  <2>1. {i \in DOMAIN c : c[i].rem > 0} = S \cup {o.id}
    BY <1>1, <1>4
  <2>2. LivePart(c) = [i \in S \cup {o.id} |-> c[i]]
    BY <2>1 DEF LivePart
  <2>3. DOMAIN LivePart(b) = S /\ \A i \in S : LivePart(b)[i] = b[i]
    BY DEF LivePart
  <2>4. With(LivePart(b), o.id, o) =
            [i \in S \cup {o.id} |-> IF i = o.id THEN o ELSE LivePart(b)[i]]
    BY <2>3 DEF With
  <2>5. \A i \in S \cup {o.id} : c[i] = IF i = o.id THEN o ELSE LivePart(b)[i]
    BY <1>1, <2>3
  <2> QED
    BY <1>3, <1>4, <2>2, <2>4, <2>5 DEF c
<1>5. CASE o.rem = 0
  <2>1. {i \in DOMAIN c : c[i].rem > 0} = S
    BY <1>1, <1>5
  <2> QED
    BY <1>1, <1>3, <1>5, <2>1 DEF LivePart, c
<1>6. o.rem \in Nat
  BY RiskAssumption DEF Orders
<1> QED
  BY <1>3, <1>4, <1>5, <1>6 DEF c

\* An order with n less to go.
LEMMA OrderLess ==
  ASSUME NEW o \in Orders, NEW n \in Nat, n <= o.rem
  PROVE  LET p == [o EXCEPT !.rem = @ - n]
         IN  /\ p \in Orders /\ p.id = o.id /\ p.trader = o.trader
             /\ p.side = o.side /\ p.type = o.type /\ p.qty = o.qty
             /\ p.rem = o.rem - n
<1> DEFINE p == [o EXCEPT !.rem = @ - n]
<1>1. /\ p.id = o.id /\ p.trader = o.trader
      /\ p.side = o.side /\ p.type = o.type /\ p.qty = o.qty
      /\ p.rem = o.rem - n
  BY DEF Orders
<1>2. o.rem - n \in 0 .. MaxQty /\ o.rem - n <= o.qty
  BY RiskAssumption DEF Orders
<1>3. p \in Orders
  BY <1>1, <1>2 DEF Orders
<1> QED
  BY <1>1, <1>3

\* The book without an order.
LEMMA BookWithout ==
  ASSUME NEW b, IsBook(b), NEW id
  PROVE  /\ IsBook(Without(b, id)) /\ DOMAIN Without(b, id) = DOMAIN b \ {id}
         /\ \A i \in DOMAIN b : i # id => Without(b, id)[i] = b[i]
<1>1. /\ DOMAIN Without(b, id) = DOMAIN b \ {id}
      /\ \A i \in DOMAIN b : i # id => Without(b, id)[i] = b[i]
  BY DEF Without
<1>2. IsFiniteSet(DOMAIN b \ {id})
  BY FS_Subset DEF IsBook
<1> QED
  BY <1>1, <1>2 DEF IsBook

\* The book with one more.
LEMMA BookWith ==
  ASSUME NEW b, IsBook(b), NEW o \in Orders, o.type = "LIMIT", o.rem > 0,
         o.id \notin DOMAIN b
  PROVE  /\ IsBook(With(b, o.id, o))
         /\ DOMAIN With(b, o.id, o) = DOMAIN b \cup {o.id}
         /\ With(b, o.id, o)[o.id] = o
         /\ \A i \in DOMAIN b : With(b, o.id, o)[i] = b[i]
<1>1. /\ DOMAIN With(b, o.id, o) = DOMAIN b \cup {o.id}
      /\ With(b, o.id, o)[o.id] = o
      /\ \A i \in DOMAIN b : With(b, o.id, o)[i] = b[i]
  BY DEF With
<1>2. IsFiniteSet(DOMAIN b \cup {o.id})
  BY FS_AddElement DEF IsBook
<1>3. RestsAs(o, o.id)
  BY DEF RestsAs
<1> QED
  BY <1>1, <1>2, <1>3 DEF IsBook

\* The book when n of the order id has been filled.
Filled(b, id, n) ==
    IF b[id].rem = n THEN Without(b, id) ELSE [b EXCEPT ![id].rem = @ - n]

\* b2 is that book.
FilledTo(b, b2, id, n) ==
    /\ IsBook(b2)
    /\ DOMAIN b2 = IF n = b[id].rem THEN DOMAIN b \ {id} ELSE DOMAIN b
    /\ \A i \in DOMAIN b : i # id => b2[i] = b[i]
    /\ \A ids \in SUBSET DOMAIN b : BookTakes(b, b2, ids, id, n)

\* A fill makes a book again.
LEMMA FilledBook ==
  ASSUME NEW b, IsBook(b), NEW id \in DOMAIN b, NEW n \in Nat, n <= b[id].rem
  PROVE  FilledTo(b, Filled(b, id, n), id, n)
<1>1. CASE b[id].rem = n
  <2>1. Filled(b, id, n) = Without(b, id)
    BY <1>1 DEF Filled
  <2>2. /\ IsBook(Without(b, id)) /\ DOMAIN Without(b, id) = DOMAIN b \ {id}
        /\ \A i \in DOMAIN b : i # id => Without(b, id)[i] = b[i]
    BY BookWithout
  <2>3. \A ids \in SUBSET DOMAIN b : BookTakes(b, Without(b, id), ids, id, n)
    BY <1>1, <2>2 DEF BookTakes
  <2> QED
    BY <1>1, <2>1, <2>2, <2>3 DEF FilledTo
<1>2. CASE b[id].rem # n
  <2> DEFINE p == [b[id] EXCEPT !.rem = @ - n]
             b2 == [b EXCEPT ![id] = p]
  <2>1. Filled(b, id, n) = b2
    BY <1>2 DEF Filled
  <2>2. b[id] \in Orders /\ RestsAs(b[id], id)
    BY DEF IsBook, RestsAs
  <2>3. /\ p \in Orders /\ p.id = b[id].id /\ p.trader = b[id].trader
        /\ p.side = b[id].side /\ p.type = b[id].type
        /\ p.rem = b[id].rem - n
    BY <2>2, OrderLess
  <2> HIDE DEF p
  <2>4. /\ DOMAIN b2 = DOMAIN b /\ b2[id] = p
        /\ \A i \in DOMAIN b : i # id => b2[i] = b[i]
    OBVIOUS
  <2> HIDE DEF b2
  <2>5. RestsAs(p, id)
    <3>1. b[id].rem \in Nat /\ b[id].rem - n > 0
      BY <1>2, <2>2, RestsAsType
    <3> QED
      BY <2>2, <2>3, <3>1 DEF RestsAs
  <2>6. IsBook(b2)
    BY <2>4, <2>5 DEF IsBook
  <2>7. \A ids \in SUBSET DOMAIN b : BookTakes(b, b2, ids, id, n)
    BY <2>3, <2>4 DEF BookTakes
  <2> QED
    BY <1>2, <2>1, <2>4, <2>6, <2>7 DEF FilledTo
<1> QED
  BY <1>1, <1>2

\* The same of the whole book.
LEMMA WholeFilled ==
  ASSUME NEW b, IsWholeBook(b), NEW id \in DOMAIN b, NEW n \in Nat, n > 0,
         n <= b[id].rem
  PROVE  /\ IsWholeBook(Filled(b, id, n))
         /\ DOMAIN Filled(b, id, n) = IF n = b[id].rem THEN DOMAIN b \ {id} ELSE DOMAIN b
         /\ LivePart(Filled(b, id, n)) = Filled(LivePart(b), id, n)
<1>0. /\ b[id] \in Orders /\ b[id].rem \in Nat /\ b[id].rem > 0
      /\ b[id].id = id /\ b[id].type = "LIMIT"
  BY RiskAssumption DEF IsWholeBook, Orders
<1>l. id \in DOMAIN LivePart(b) /\ LivePart(b)[id] = b[id]
  BY <1>0 DEF LivePart
<1>1. CASE b[id].rem = n
  BY <1>1, <1>l, WholeWithout DEF Filled
<1>2. CASE b[id].rem # n
  <2> DEFINE p == [b[id] EXCEPT !.rem = @ - n]
             c == [b EXCEPT ![id] = p]
             S == {i \in DOMAIN b : b[i].rem > 0}
  <2>1. Filled(b, id, n) = c /\ Filled(LivePart(b), id, n) = [LivePart(b) EXCEPT ![id] = p]
    BY <1>2, <1>l DEF Filled
  <2>2. p \in Orders /\ p.id = id /\ p.type = "LIMIT" /\ p.rem > 0
    <3>1. /\ p \in Orders /\ p.id = b[id].id /\ p.type = b[id].type
          /\ p.rem = b[id].rem - n
      BY <1>0, OrderLess
    <3> QED
      BY <1>0, <1>2, <3>1
  <2> HIDE DEF p
  <2>3. /\ DOMAIN c = DOMAIN b /\ c[id] = p
        /\ \A i \in DOMAIN b : i # id => c[i] = b[i]
    OBVIOUS
  <2>4. IsWholeBook(c)
    BY <2>2, <2>3 DEF IsWholeBook
  <2>5. {i \in DOMAIN c : c[i].rem > 0} = S
    BY <1>0, <2>2, <2>3
  <2>6. LivePart(c) = [i \in S |-> c[i]]
    BY <2>5 DEF LivePart
  <2>7. [LivePart(b) EXCEPT ![id] = p] = [i \in S |-> IF i = id THEN p ELSE b[i]]
    BY <1>l DEF LivePart
  <2>8. \A i \in S : c[i] = IF i = id THEN p ELSE b[i]
    BY <2>3
  <2>9. LivePart(c) = [LivePart(b) EXCEPT ![id] = p]
    BY <2>6, <2>7, <2>8
  <2> QED
    BY <1>2, <2>1, <2>3, <2>4, <2>9
<1> QED
  BY <1>1, <1>2

\* What the book loses, the part with something left may lose too.
LEMMA LivePartWhole ==
  ASSUME NEW b, IsWholeBook(b)
  PROVE  IsWholeBook(LivePart(b)) /\ LivePart(LivePart(b)) = LivePart(b)
<1> DEFINE c == LivePart(b)
<1>1. IsBook(c) /\ \A i \in DOMAIN c : c[i].rem > 0
  BY LivePartBook DEF IsBook, RestsAs
<1>2. c = [i \in DOMAIN c |-> c[i]]
  BY DEF LivePart
<1> HIDE DEF c
<1>3. {i \in DOMAIN c : c[i].rem > 0} = DOMAIN c
  BY <1>1
<1>4. LivePart(c) = c
  BY <1>2, <1>3 DEF LivePart
<1>5. IsWholeBook(c)
  BY <1>1 DEF IsBook, IsWholeBook, RestsAs
<1> QED
  BY <1>4, <1>5 DEF c

-----------------------------------------------------------------------------
(* The bounds *)

\* No limit is above the ceiling.
LEMMA LimitsBelow ==
  ASSUME HasRoom
  PROVE  Ceiling \in Int /\ \A l \in Limits : l \in Int /\ l <= Ceiling
<1>1. MaxRefusals * MaxQty \in Int
  BY RiskAssumption
<1> QED
  BY <1>1, RiskAssumption DEF HasRoom, Ceiling

\* A step that takes no live exposure above max_position_, and none in the
\* restored engine up by more than in the live one.
Steady ==
    \A t \in Traders, side \in Sides :
        /\ Exposure(live', t, side) > Exposure(live, t, side) =>
               Exposure(live', t, side) <= maxPos
        /\ ~voided' => Exposure(replayed', t, side) - Exposure(replayed, t, side) <=
                           Exposure(live', t, side) - Exposure(live, t, side)

\* Such a step keeps the bounds.
LEMMA SteadyBounded ==
  ASSUME HasRoom, Shape, Shape', Bounded, Steady, refusals' = refusals,
         live.corrupt => live'.corrupt, voided => voided'
  PROVE  Bounded'
<1>1. PICK x \in Nat, y \in Nat : BoundedBy(x, y)
  BY DEF Bounded
<1>2. maxPos \in Int /\ maxPos <= Ceiling /\ Ceiling \in Int
  BY LimitsBelow DEF Shape
<1>3. ASSUME NEW t \in Traders, NEW side \in Sides
      PROVE  /\ ~live'.corrupt => Exposure(live', t, side) <= Ceiling + x
             /\ ~voided' => Exposure(replayed', t, side) <= Exposure(live', t, side) + y
  <2>1. /\ Exposure(live, t, side) \in Int /\ Exposure(live', t, side) \in Int
        /\ Exposure(replayed, t, side) \in Int
        /\ Exposure(replayed', t, side) \in Int
    BY CountersType DEF Shape
  <2>2. /\ ~live'.corrupt => Exposure(live, t, side) <= Ceiling + x
        /\ ~voided' => Exposure(replayed, t, side) <= Exposure(live, t, side) + y
    BY <1>1 DEF BoundedBy
  <2>3. /\ Exposure(live', t, side) > Exposure(live, t, side) =>
               Exposure(live', t, side) <= maxPos
        /\ ~voided' => Exposure(replayed', t, side) - Exposure(replayed, t, side) <=
                           Exposure(live', t, side) - Exposure(live, t, side)
    BY DEF Steady
  <2> QED
    BY <1>2, <2>1, <2>2, <2>3
<1>4. x + y <= refusals' * MaxQty
  BY <1>1 DEF BoundedBy
<1>5. BoundedBy(x, y)'
  BY <1>3, <1>4 DEF BoundedBy, Ceiling
<1> QED
  BY <1>5 DEF Bounded

\* A step that leaves the engines alone is one, and so is one after which the
\* restored engine is corrupt.
LEMMA SteadyAlone ==
  ASSUME Shape, live' = live, voided' \/ replayed' = replayed
  PROVE  Steady
<1>1. \A t \in Traders, side \in Sides :
          Exposure(live, t, side) \in Int /\ Exposure(replayed, t, side) \in Int
  BY CountersType DEF Shape
<1> QED
  BY <1>1 DEF Steady

-----------------------------------------------------------------------------
(* What the calls make of the two engines *)

\* Both engines are well formed and follow the new book, the restored one
\* unless it is corrupt, and agree unless the live one has refused an order.
Follow(d) ==
    /\ IsEngine(live') /\ ~live'.corrupt
    /\ TracksIn(live', DOMAIN Rested' \ refused', Rested')
    /\ IsEngine(replayed')
    /\ voided => replayed'.corrupt
    /\ ~voided => /\ ~replayed'.corrupt
                  /\ TracksIn(replayed', DOMAIN Rested', Rested')
                  /\ ~d => replayed' = live'

\* What the lemmas below start from.
LEMMA Engines ==
  ASSUME RiskInv, ~live.corrupt
  PROVE  /\ IsEngine(live) /\ IsEngine(replayed) /\ IsBook(Rested)
         /\ TracksIn(live, DOMAIN Rested \ refused, Rested)
         /\ voided => replayed.corrupt
         /\ ~voided => ~replayed.corrupt /\ TracksIn(replayed, DOMAIN Rested, Rested)
         /\ DOMAIN Rested \ refused \in SUBSET DOMAIN Rested
         /\ DOMAIN Rested \in SUBSET DOMAIN Rested
         /\ refused \subseteq DOMAIN Rested
<1>1. IsBook(Rested)
  BY LivePartBook DEF RiskInv, Shape, Rested
<1> QED
  BY <1>1 DEF RiskInv, Shape, Tracking

\* An engine that agrees with the restored one tracks the whole book.
LEMMA NoneRefused ==
  ASSUME RiskInv, ~diverged, ~voided, ~live.corrupt
  PROVE  replayed = live /\ refused = {}
<1>1. replayed = live
  BY DEF RiskInv, InStep
<1>2. DOMAIN live.orders = DOMAIN Rested /\ DOMAIN live.orders = DOMAIN Rested \ refused
  BY <1>1 DEF RiskInv, Tracking, TracksIn
<1>3. refused \subseteq DOMAIN Rested
  BY DEF RiskInv, Shape
<1> QED
  BY <1>1, <1>2, <1>3

\* onOrderCancelled and restoreCancelled; a refused order only the restored
\* engine knows.
LEMMA CancelFollows ==
  ASSUME RiskInv, ~live.corrupt, NEW id \in DOMAIN Rested,
         live' = onOrderCancelled(id, Rested[id].rem),
         replayed' = restoreCancelled(id, Rested[id].rem),
         Rested' = Without(Rested, id), refused' = refused \ {id},
         voided' = voided
  PROVE  /\ Follow(diverged) /\ Steady
         /\ id \notin refused =>
                \A t \in Traders, side \in Sides :
                    Exposure(live', t, side) = Exposure(live, t, side) -
                    IF t = Rested[id].trader /\ side = Rested[id].side
                    THEN Rested[id].rem ELSE 0
<1> DEFINE n == Rested[id].rem
           ids == DOMAIN Rested \ refused
           Fall(t, side) == IF t = Rested[id].trader /\ side = Rested[id].side
                            THEN Rested[id].rem ELSE 0
<1>1. /\ IsEngine(live) /\ IsEngine(replayed)
      /\ IsBook(Rested) /\ TracksIn(live, ids, Rested)
      /\ voided => replayed.corrupt
      /\ ~voided => ~replayed.corrupt /\ TracksIn(replayed, DOMAIN Rested, Rested)
      /\ ids \in SUBSET DOMAIN Rested /\ DOMAIN Rested \in SUBSET DOMAIN Rested
  BY Engines
<1>2. /\ DOMAIN Rested' = DOMAIN Rested \ {id}
      /\ \A i \in DOMAIN Rested : i # id => Rested'[i] = Rested[i]
  BY <1>1, BookWithout
<1>3. n \in Nat
  BY <1>1, RestsAsType DEF IsBook
<1>v. ASSUME voided PROVE IsEngine(replayed') /\ replayed'.corrupt
  <2>1. replayed' = CorruptEngine
    BY <1>1, <1>v DEF restoreCancelled, CanRelease
  <2> QED
    BY <2>1, CorruptEngineType
<1>4. ASSUME ~voided
      PROVE  /\ replayed' = applyCancelled(replayed, id, n)
             /\ IsEngine(replayed') /\ ~replayed'.corrupt
             /\ TracksIn(replayed', DOMAIN Rested', Rested')
             /\ \A t \in Traders, side \in Sides :
                    Exposure(replayed', t, side) = Exposure(replayed, t, side) - Fall(t, side)
  <2>1. /\ CanRelease(replayed, id, n)
        /\ AfterCancel(replayed, applyCancelled(replayed, id, n), DOMAIN Rested, Rested,
                       id, Rested')
    <3>1. BookTakes(Rested, Rested', DOMAIN Rested, id, Rested[id].rem)
      BY <1>2 DEF BookTakes
    <3> QED
      BY <1>1, <1>4, <3>1, CancelTracked
  <2>2. replayed' = applyCancelled(replayed, id, n)
    BY <2>1 DEF restoreCancelled
  <2> QED
    BY <1>2, <2>1, <2>2 DEF AfterCancel
<1>5. \A t \in Traders, side \in Sides :
          /\ Exposure(live, t, side) \in Int /\ Exposure(replayed, t, side) \in Int
          /\ Fall(t, side) \in Nat
  BY <1>1, <1>3, CountersType
<1>6. CASE id \in refused
  <2>1. ids = DOMAIN Rested' \ refused'
    BY <1>2, <1>6
  <2>2. live' = live
    BY <1>1, <1>6 DEF onOrderCancelled, CanRelease, TracksIn
  <2>3. TracksIn(live', DOMAIN Rested' \ refused', Rested')
    <3>1. \A i \in ids : Rested'[i] = Rested[i]
      BY <1>2, <1>6
    <3> HIDE DEF ids
    <3> QED
      BY <1>1, <2>1, <2>2, <3>1, OthersTrack
  <2>4. ~voided => diverged
    BY <1>6, NoneRefused
  <2>5. Steady
    <3> HIDE DEF Fall
    <3> QED
      BY <1>4, <1>5, <2>2 DEF Steady
  <2> QED
    BY <1>1, <1>4, <1>6, <1>v, <2>2, <2>3, <2>4, <2>5 DEF Follow
<1>7. CASE id \notin refused
  <2>0. id \in ids
    BY <1>7
  <2>1. /\ CanRelease(live, id, n)
        /\ AfterCancel(live, applyCancelled(live, id, n), ids, Rested, id, Rested')
    <3>1. BookTakes(Rested, Rested', ids, id, Rested[id].rem)
      BY <1>2 DEF BookTakes
    <3> HIDE DEF ids
    <3> QED
      BY <1>1, <2>0, <3>1, CancelTracked
  <2>2. live' = applyCancelled(live, id, n)
    BY <2>1 DEF onOrderCancelled
  <2>3. ids \ {id} = DOMAIN Rested' \ refused'
    BY <1>2, <1>7
  <2>4. ~voided /\ ~diverged => replayed' = live'
    BY <1>4, <2>2, NoneRefused
  <2>5. \A t \in Traders, side \in Sides :
            Exposure(live', t, side) = Exposure(live, t, side) - Fall(t, side)
    BY <2>1, <2>2 DEF AfterCancel
  <2>6. Steady
    <3> HIDE DEF Fall
    <3> QED
      BY <1>4, <1>5, <2>5 DEF Steady
  <2>7. IsEngine(live') /\ ~live'.corrupt /\ TracksIn(live', DOMAIN Rested' \ refused', Rested')
    <3> HIDE DEF ids, n
    <3> QED
      BY <2>1, <2>2, <2>3 DEF AfterCancel
  <2> QED
    BY <1>4, <1>v, <2>4, <2>5, <2>6, <2>7 DEF Follow
<1> QED
  BY <1>6, <1>7

\* onFill and restoreFill; every fill fits, by ExposuresFit.
LEMMA FillFollows ==
  ASSUME RiskInv, ~live.corrupt,
         NEW id \in DOMAIN Rested, NEW n \in Nat, n > 0, n <= Rested[id].rem,
         live' = onFill(id, n), replayed' = restoreFill(id, n),
         Rested' = Filled(Rested, id, n), refused' = refused \cap DOMAIN Rested',
         voided' = voided
  PROVE  /\ Follow(diverged) /\ Steady
         /\ \A t \in Traders, side \in Sides :
                Exposure(live', t, side) <= Exposure(live, t, side)
<1> DEFINE ids == DOMAIN Rested \ refused
           Fall(t, side) == IF t = Rested[id].trader /\ side # Rested[id].side
                            THEN n ELSE 0
<1>1. /\ IsEngine(live) /\ IsEngine(replayed)
      /\ IsBook(Rested) /\ TracksIn(live, ids, Rested)
      /\ voided => replayed.corrupt
      /\ ~voided => ~replayed.corrupt /\ TracksIn(replayed, DOMAIN Rested, Rested)
      /\ ids \in SUBSET DOMAIN Rested /\ DOMAIN Rested \in SUBSET DOMAIN Rested
  BY Engines
<1>f. Fit(live) /\ (~voided => Fit(replayed))
  BY ExposuresFit
<1>2. /\ DOMAIN Rested' = IF n = Rested[id].rem THEN DOMAIN Rested \ {id} ELSE DOMAIN Rested
      /\ \A i \in DOMAIN Rested : i # id => Rested'[i] = Rested[i]
      /\ BookTakes(Rested, Rested', ids, id, n)
      /\ BookTakes(Rested, Rested', DOMAIN Rested, id, n)
  <2>1. FilledTo(Rested, Rested', id, n)
    BY <1>1, FilledBook
  <2> HIDE DEF ids
  <2> QED
    BY <1>1, <2>1 DEF FilledTo
<1>v. ASSUME voided PROVE IsEngine(replayed') /\ replayed'.corrupt
  <2>1. replayed' = CorruptEngine
    BY <1>1, <1>v DEF restoreFill, CanFill, CanRelease
  <2> QED
    BY <2>1, CorruptEngineType
<1>4. ASSUME ~voided
      PROVE  /\ replayed' = applyFill(replayed, id, n)
             /\ IsEngine(replayed') /\ ~replayed'.corrupt
             /\ TracksIn(replayed', DOMAIN Rested', Rested')
             /\ \A t \in Traders, side \in Sides :
                    Exposure(replayed', t, side) = Exposure(replayed, t, side) - Fall(t, side)
  <2>1. CanFill(replayed, id, n)
    BY <1>1, <1>4, <1>f, TrackedFills
  <2>2. AfterFill(replayed, applyFill(replayed, id, n), DOMAIN Rested, Rested, id, n,
                  Rested')
    BY <1>1, <1>2, <1>4, FillTracked
  <2>3. replayed' = applyFill(replayed, id, n)
    BY <2>1 DEF restoreFill
  <2> QED
    BY <1>2, <2>2, <2>3 DEF AfterFill
<1>5. \A t \in Traders, side \in Sides :
          /\ Exposure(live, t, side) \in Int /\ Exposure(replayed, t, side) \in Int
          /\ Fall(t, side) \in Nat
  BY <1>1, CountersType
<1>6. CASE id \in refused
  <2>1. ids = DOMAIN Rested' \ refused'
    BY <1>2, <1>6
  <2>2. live' = live
    BY <1>1, <1>6 DEF onFill, CanFill, CanRelease, TracksIn
  <2>3. TracksIn(live', DOMAIN Rested' \ refused', Rested')
    <3>1. \A i \in ids : Rested'[i] = Rested[i]
      BY <1>2, <1>6
    <3> HIDE DEF ids
    <3> QED
      BY <1>1, <2>1, <2>2, <3>1, OthersTrack
  <2>4. ~voided => diverged
    BY <1>6, NoneRefused
  <2>5. Steady
    <3> HIDE DEF Fall
    <3> QED
      BY <1>4, <1>5, <2>2 DEF Steady
  <2> QED
    BY <1>1, <1>4, <1>5, <1>v, <2>2, <2>3, <2>4, <2>5 DEF Follow
<1>7. CASE id \notin refused
  <2>0. id \in ids
    BY <1>7
  <2>1. /\ CanFill(live, id, n)
        /\ AfterFill(live, applyFill(live, id, n), ids, Rested, id, n, Rested')
    <3> HIDE DEF ids
    <3>1. CanFill(live, id, n)
      BY <1>1, <1>f, <2>0, TrackedFills
    <3>2. AfterFill(live, applyFill(live, id, n), ids, Rested, id, n, Rested')
      BY <1>1, <1>2, <2>0, FillTracked
    <3> QED
      BY <3>1, <3>2
  <2>2. live' = applyFill(live, id, n)
    BY <2>1 DEF onFill
  <2>3. (IF n = Rested[id].rem THEN ids \ {id} ELSE ids) = DOMAIN Rested' \ refused'
    BY <1>2, <1>7
  <2>4. ~voided /\ ~diverged => replayed' = live'
    BY <1>4, <2>2, NoneRefused
  <2>5. \A t \in Traders, side \in Sides :
            Exposure(live', t, side) = Exposure(live, t, side) - Fall(t, side)
    BY <2>1, <2>2 DEF AfterFill
  <2>6. Steady /\ \A t \in Traders, side \in Sides :
                      Exposure(live', t, side) <= Exposure(live, t, side)
    <3> HIDE DEF Fall
    <3> QED
      BY <1>4, <1>5, <2>5 DEF Steady
  <2>7. IsEngine(live') /\ ~live'.corrupt /\ TracksIn(live', DOMAIN Rested' \ refused', Rested')
    <3> HIDE DEF ids
    <3> QED
      BY <2>1, <2>2, <2>3 DEF AfterFill
  <2> QED
    BY <1>4, <1>v, <2>4, <2>6, <2>7 DEF Follow
<1> QED
  BY <1>6, <1>7

\* The restored engine takes every order that rests, unless it is corrupt.
LEMMA RestoreFollows ==
  ASSUME RiskInv, ~live.corrupt, NEW o \in active, o.rem > 0, o.type = "LIMIT",
         replayed' = restoreAccepted(o, o.rem), Rested' = With(Rested, o.id, o)
  PROVE  /\ o \in Orders /\ o.id \notin DOMAIN Rested
         /\ IsBook(Rested') /\ DOMAIN Rested' = DOMAIN Rested \cup {o.id}
         /\ Rested'[o.id] = o /\ \A i \in DOMAIN Rested : Rested'[i] = Rested[i]
         /\ IsEngine(replayed')
         /\ voided => replayed'.corrupt
         /\ ~voided => /\ replayed' = applyResting(replayed, o, o.rem)
                       /\ AfterRest(replayed, replayed', DOMAIN Rested, o, Rested')
<1>1. /\ IsEngine(replayed) /\ IsBook(Rested)
      /\ voided => replayed.corrupt
      /\ ~voided => ~replayed.corrupt /\ TracksIn(replayed, DOMAIN Rested, Rested)
      /\ DOMAIN Rested \in SUBSET DOMAIN Rested
  BY Engines
<1>o. o \in Orders /\ o.id \notin DOMAIN Rested
  <2>1. o \in Orders /\ o.id \notin DOMAIN book /\ IsWholeBook(book)
    BY DEF RiskInv, Shape
  <2> QED
    BY <2>1, LivePartBook DEF Rested
<1>2. /\ IsBook(Rested') /\ DOMAIN Rested' = DOMAIN Rested \cup {o.id}
      /\ Rested'[o.id] = o /\ \A i \in DOMAIN Rested : Rested'[i] = Rested[i]
  BY <1>1, <1>o, BookWith
<1>3. BookGains(Rested, Rested', DOMAIN Rested, o)
  BY <1>2 DEF BookGains
<1>4. CASE ~voided
  <2>1. /\ CanRest(replayed, o, o.rem)
        /\ AfterRest(replayed, applyResting(replayed, o, o.rem), DOMAIN Rested, o, Rested')
    BY <1>1, <1>3, <1>4, <1>o, RestTracked
  <2>2. replayed' = applyResting(replayed, o, o.rem)
    BY <2>1 DEF restoreAccepted
  <2> QED
    BY <1>2, <1>4, <1>o, <2>1, <2>2 DEF AfterRest
<1>5. CASE voided
  <2>1. replayed' = CorruptEngine
    BY <1>1, <1>5 DEF restoreAccepted, CanRest
  <2> QED
    BY <1>2, <1>5, <1>o, <2>1, CorruptEngineType
<1> QED
  BY <1>4, <1>5

\* The live one can always take it, but for the limit.
LEMMA LiveCanRest ==
  ASSUME RiskInv, ~live.corrupt, NEW o \in active, o.rem > 0, o.type = "LIMIT"
  PROVE  CanRest(live, o, o.rem)
<1>1. o \in Orders /\ o.id \notin DOMAIN book /\ IsWholeBook(book)
  BY DEF RiskInv, Shape
<1>2. o.id \notin DOMAIN live.orders
  BY <1>1, Engines, LivePartBook DEF Rested, TracksIn
<1>3. o.rem \in 1 .. o.qty
  BY <1>1, RiskAssumption DEF Orders
<1> QED
  BY <1>1, <1>2, <1>3 DEF CanRest

\* onOrderResting returns true; validate has made sure of the exposure.
LEMMA RestFollows ==
  ASSUME RiskInv, ~live.corrupt, NEW o \in active, o.rem > 0, o.type = "LIMIT",
         live' = applyResting(live, o, o.rem),
         replayed' = restoreAccepted(o, o.rem), Rested' = With(Rested, o.id, o),
         refused' = refused, voided' = voided, HasRoom
  PROVE  Follow(diverged) /\ Steady
<1> DEFINE ids == DOMAIN Rested \ refused
           Rise(t, side) == IF t = o.trader /\ side = o.side THEN o.rem ELSE 0
<1>1. /\ o \in Orders /\ o.id \notin DOMAIN Rested
      /\ DOMAIN Rested' = DOMAIN Rested \cup {o.id}
      /\ Rested'[o.id] = o /\ \A i \in DOMAIN Rested : Rested'[i] = Rested[i]
      /\ IsEngine(replayed')
      /\ voided => replayed'.corrupt
      /\ ~voided => /\ replayed' = applyResting(replayed, o, o.rem)
                    /\ AfterRest(replayed, replayed', DOMAIN Rested, o, Rested')
  BY RestoreFollows
<1>2. /\ IsEngine(live) /\ ~live.corrupt /\ IsBook(Rested) /\ IsEngine(replayed)
      /\ TracksIn(live, ids, Rested) /\ ids \in SUBSET DOMAIN Rested
      /\ refused \subseteq DOMAIN Rested
  BY Engines
<1>w. maxPos \in Limits /\ Exposure(live, o.trader, o.side) + o.rem <= maxPos
  BY DEF RiskInv, Shape, Within
<1>3. BookGains(Rested, Rested', ids, o) /\ o.id \notin ids
  BY <1>1 DEF BookGains
<1>4. AfterRest(live, live', ids, o, Rested')
  <2> HIDE DEF ids
  <2> QED
    BY <1>1, <1>2, <1>3, RestTracked
<1>5. ids \cup {o.id} = DOMAIN Rested' \ refused'
  BY <1>1, <1>2
<1>6. ~voided /\ ~diverged => replayed' = live'
  BY <1>1, NoneRefused
<1>7. \A t \in Traders, side \in Sides :
          /\ Exposure(live', t, side) = Exposure(live, t, side) + Rise(t, side)
          /\ ~voided => Exposure(replayed', t, side) =
                            Exposure(replayed, t, side) + Rise(t, side)
  BY <1>1, <1>4 DEF AfterRest
<1>8. \A t \in Traders, side \in Sides :
          /\ Exposure(live, t, side) \in Int /\ Exposure(replayed, t, side) \in Int
          /\ Rise(t, side) \in Nat
  BY <1>1, <1>2, CountersType, RiskAssumption DEF Orders
<1>9. Steady
  <2>1. \A t \in Traders, side \in Sides :
            Rise(t, side) = 0 \/ Exposure(live, t, side) + Rise(t, side) <= maxPos
    BY <1>w
  <2> HIDE DEF Rise
  <2> QED
    BY <1>7, <1>8, <2>1 DEF Steady
<1>10. /\ IsEngine(live') /\ ~live'.corrupt
       /\ TracksIn(live', DOMAIN Rested' \ refused', Rested')
  <2> HIDE DEF ids
  <2> QED
    BY <1>4, <1>5 DEF AfterRest
<1>11. ~voided => ~replayed'.corrupt /\ TracksIn(replayed', DOMAIN Rested', Rested')
  BY <1>1 DEF AfterRest
<1> QED
  BY <1>1, <1>6, <1>9, <1>10, <1>11 DEF Follow

-----------------------------------------------------------------------------
(* The steps *)

\* What is left to show of a step whose engines follow the book.
LEMMA FollowKeeps ==
  ASSUME RiskInv, HasRoom, ~live.corrupt, Follow(diverged), Steady,
         IsWholeBook(book'), Placed',
         active' \subseteq Orders, \A o, p \in active' : o = p,
         \A o \in active' : /\ o.id \notin DOMAIN book'
                            /\ Exposure(live', o.trader, o.side) + o.rem <= maxPos,
         refused' \subseteq DOMAIN Rested', voided' = voided,
         maxPos' = maxPos, refusals' = refusals, diverged' = diverged
  PROVE  RiskInv'
<1>1. Shape'
  BY DEF RiskInv, Shape, Follow
<1>2. Tracking'
  BY DEF Tracking, Follow
<1>3. InStep'
  BY DEF InStep, Follow
<1>4. Within'
  BY DEF Within
<1>5. Bounded'
  BY <1>1, SteadyBounded DEF RiskInv
<1> QED
  BY <1>1, <1>2, <1>3, <1>4, <1>5 DEF RiskInv

\* The same of a step that leaves the live engine alone, and the restored one
\* too unless it makes that corrupt.
LEMMA AloneKeeps ==
  ASSUME RiskInv, HasRoom,
         live' = live, Rested' = Rested, IsWholeBook(book'), Placed', refused' = refused,
         refusals' = refusals, diverged' = diverged, maxPos' \in Limits,
         \/ replayed' = replayed /\ voided' = voided
         \/ IsEngine(replayed') /\ replayed'.corrupt /\ voided' = TRUE,
         active' \subseteq Orders, \A o, p \in active' : o = p,
         live.corrupt => active' = {},
         \A o \in active' : /\ o.id \notin DOMAIN book'
                            /\ Exposure(live, o.trader, o.side) + o.rem <= maxPos'
  PROVE  RiskInv'
<1>0. /\ IsEngine(replayed') /\ voided' \in BOOLEAN /\ (voided => voided')
      /\ (replayed'.corrupt => voided') /\ (voided' => replayed'.corrupt)
      /\ (~voided' => replayed' = replayed /\ ~voided)
  <2>1. CASE replayed' = replayed /\ voided' = voided
    BY <2>1 DEF RiskInv, Shape
  <2>2. CASE IsEngine(replayed') /\ replayed'.corrupt /\ voided' = TRUE
    BY <2>2
  <2> QED
    BY <2>1, <2>2
<1>1. Shape'
  BY <1>0 DEF RiskInv, Shape
<1>2. Tracking'
  BY <1>0 DEF RiskInv, Tracking
<1>3. InStep'
  BY <1>0 DEF RiskInv, InStep
<1>4. Within'
  BY DEF Within
<1>5. Bounded'
  <2>1. Shape /\ (voided' \/ replayed' = replayed)
    BY <1>0 DEF RiskInv
  <2>2. Steady
    BY <2>1, SteadyAlone
  <2> QED
    BY <1>0, <1>1, <2>1, <2>2, SteadyBounded DEF RiskInv
<1> QED
  BY <1>1, <1>2, <1>3, <1>4, <1>5 DEF RiskInv

\* validate bounds the exposure with the whole order.
LEMMA SubmitStep ==
  ASSUME RiskInv, HasRoom, NEW o \in NewOrders, Submit(o)
  PROVE  RiskInv'
<1> DEFINE p == [id |-> o.id, trader |-> o.trader, side |-> o.side,
                 type |-> o.type, qty |-> o.qty, rem |-> o.qty]
<1>1. /\ active' = {p} /\ o.id \notin DOMAIN book /\ validate(o)
      /\ UNCHANGED <<live, replayed, book, refused, refusals, diverged, voided>>
      /\ IsWholeBook(book') /\ Rested' = Rested /\ Placed'
  BY DEF Submit, RiskInv, Shape, Rested, Placed, Idle
<1>2. p \in Orders /\ p.id = o.id /\ p.trader = o.trader /\ p.side = o.side
      /\ p.rem = o.qty
  BY RiskAssumption DEF Orders, NewOrders
<1> HIDE DEF p
<1>3. Exposure(live, o.trader, o.side) + o.qty <= maxPos /\ ~live.corrupt
  BY <1>1 DEF validate
<1>4. maxPos' \in Limits
  BY DEF Submit, RiskInv, Shape
<1>5. \A q \in active' : q = p
  BY <1>1
<1>6. \A q \in active' : /\ q.id \notin DOMAIN book'
                         /\ Exposure(live, q.trader, q.side) + q.rem <= maxPos'
  BY <1>1, <1>2, <1>3, <1>5 DEF Submit
<1> QED
  BY <1>1, <1>2, <1>3, <1>4, <1>5, <1>6, AloneKeeps

\* validateReplace bounds it with the new quantity in place of the old, and
\* refuses an order the live engine does not know; so it has something left.
LEMMA ReplaceStep ==
  ASSUME RiskInv, HasRoom, NEW id \in OrderIds, NEW qty \in 1 .. MaxQty,
         NEW samePrice, Replace(id, qty, samePrice)
  PROVE  RiskInv' /\ Steady
<1> DEFINE o == book[id]
           new == [o EXCEPT !.qty = qty, !.rem = qty - (o.qty - o.rem)]
<1>1. /\ id \in DOMAIN book /\ new.rem >= 0 /\ validateReplace(new)
      /\ live' = onOrderCancelled(id, book[id].rem)
      /\ replayed' = restoreCancelled(id, book[id].rem)
      /\ active' = {new} /\ book' = Without(book, id)
      /\ UNCHANGED <<maxPos, refused, refusals, diverged, voided>>
  BY DEF Replace
<1>2. o \in Orders /\ o.id = id /\ o.type = "LIMIT" /\ IsWholeBook(book)
  BY <1>1 DEF RiskInv, Shape, IsWholeBook
<1>c. ~live.corrupt /\ new.id \in DOMAIN live.orders
  BY <1>1 DEF validateReplace
<1>4. /\ new.id = id /\ new.trader = o.trader /\ new.side = o.side
      /\ new.type = o.type /\ new.qty = qty /\ new.rem = qty - (o.qty - o.rem)
  BY <1>2 DEF Orders
<1>6. /\ id \notin refused /\ id \in DOMAIN Rested /\ Rested[id] = o
      /\ live.orders[id].reserved = o.rem
  <2>0. DOMAIN live.orders = DOMAIN Rested \ refused
    BY <1>c, Engines DEF TracksIn
  <2>1. id \in DOMAIN Rested \ refused
    BY <1>4, <1>c, <2>0
  <2>2. live.orders[id].reserved = Rested[id].rem
    <3>1. TracksIn(live, DOMAIN Rested \ refused, Rested)
      BY <1>c, Engines
    <3>2. live.orders[id] = [trader |-> Rested[id].trader, side |-> Rested[id].side,
                             reserved |-> Rested[id].rem]
      BY <2>1, <3>1 DEF TracksIn
    <3> QED
      BY <3>2
  <2>3. Rested[id] = book[id]
    BY <1>2, <2>1, LivePartBook DEF Rested
  <2> QED
    BY <2>1, <2>2, <2>3
<1>3. /\ o.rem \in Nat /\ o.rem > 0 /\ o.qty \in Nat /\ o.rem <= o.qty
  BY <1>6, <1>c, Engines, RestsAsType DEF IsBook
<1>5. new \in Orders
  <2>1. qty - (o.qty - o.rem) \in 0 .. MaxQty /\ qty - (o.qty - o.rem) <= qty
    BY <1>1, <1>3, <1>4, RiskAssumption
  <2> QED
    BY <1>2, <2>1 DEF Orders
<1> HIDE DEF o, new
<1>7. /\ refused' = refused \ {id}
      /\ live' = onOrderCancelled(id, Rested[id].rem)
      /\ replayed' = restoreCancelled(id, Rested[id].rem)
  BY <1>1, <1>6 DEF o
<1>9. /\ IsWholeBook(book') /\ DOMAIN book' = DOMAIN book \ {id}
      /\ Rested' = Without(Rested, id)
  BY <1>1, <1>2, WholeWithout DEF Rested
<1>8. /\ Follow(diverged) /\ Steady
      /\ \A t \in Traders, side \in Sides :
             Exposure(live', t, side) = Exposure(live, t, side) -
                 IF t = o.trader /\ side = o.side THEN o.rem ELSE 0
  <2>1. /\ Follow(diverged) /\ Steady
        /\ \A t \in Traders, side \in Sides :
               Exposure(live', t, side) = Exposure(live, t, side) -
                   IF t = Rested[id].trader /\ side = Rested[id].side
                   THEN Rested[id].rem ELSE 0
    BY <1>1, <1>6, <1>7, <1>9, <1>c, CancelFollows
  <2> QED
    BY <1>6, <2>1
<1>10. Exposure(live', new.trader, new.side) + new.rem <= maxPos
  <2>1. o.trader \in Traders /\ o.side \in Sides
    BY <1>2 DEF Orders
  <2>2. Exposure(live, o.trader, o.side) - o.rem + qty <= maxPos
    BY <1>1, <1>4, <1>6 DEF validateReplace
  <2>3. Exposure(live, o.trader, o.side) \in Int /\ maxPos \in Int
    BY <2>1, CountersType, RiskAssumption DEF RiskInv, Shape
  <2>4. Exposure(live', o.trader, o.side) = Exposure(live, o.trader, o.side) - o.rem
    BY <1>8, <2>1
  <2>5. qty \in Int
    OBVIOUS
  <2> QED
    BY <1>3, <1>4, <2>2, <2>3, <2>4, <2>5
<1>11. refused' \subseteq DOMAIN Rested'
  <2>1. DOMAIN Rested' = DOMAIN Rested \ {id}
    BY <1>9, <1>c, BookWithout, Engines
  <2> QED
    BY <1>7, <1>c, <2>1, Engines
<1>12. /\ active' \subseteq Orders /\ \A p, q \in active' : p = q
       /\ \A p \in active' : /\ p.id \notin DOMAIN book'
                             /\ Exposure(live', p.trader, p.side) + p.rem <= maxPos
  BY <1>1, <1>4, <1>5, <1>9, <1>10
<1>13. Placed'
  BY <1>1, <1>2, <1>4 DEF Placed
<1> QED
  BY <1>1, <1>8, <1>9, <1>11, <1>12, <1>13, <1>c, FollowKeeps

\* The smaller of two quantities.
LEMMA MinOfTwo ==
  ASSUME NEW a \in Nat, NEW b \in Nat
  PROVE  Min({a, b}) \in Nat /\ Min({a, b}) <= a /\ Min({a, b}) <= b
<1>1. \E x \in {a, b} : \A y \in {a, b} : x <= y
  <2>1. CASE a <= b
    BY <2>1
  <2>2. CASE b <= a
    BY <2>2
  <2> QED
    BY <2>1, <2>2
<1>2. Min({a, b}) \in {a, b} /\ \A y \in {a, b} : Min({a, b}) <= y
  BY <1>1 DEF Min
<1> QED
  BY <1>2

\* A trade takes as much from the incoming order as from the resting one.
LEMMA TradeStep ==
  ASSUME RiskInv, HasRoom, NEW id \in OrderIds, Trade(id)
  PROVE  RiskInv' /\ Steady /\ refused' \subseteq refused
<1>0. PICK o \in active :
        LET r == book[id]
            n == Min({o.rem, r.rem})
        IN  /\ id \in DOMAIN book
            /\ n > 0
            /\ book' = IF r.rem = n THEN Without(book, id)
                       ELSE [book EXCEPT ![id].rem = @ - n]
            /\ active' = {[o EXCEPT !.rem = @ - n]}
            /\ live' = onFill(id, n)
            /\ replayed' = restoreFill(id, n)
            /\ refused' = refused \cap DOMAIN book'
            /\ UNCHANGED <<maxPos, inPlace, refusals, diverged, voided>>
  BY DEF Trade
<1>p. ~inPlace
  BY DEF Trade
<1> DEFINE n == Min({o.rem, book[id].rem})
           p == [o EXCEPT !.rem = @ - n]
<1>1. /\ id \in DOMAIN book /\ n > 0
      /\ book' = Filled(book, id, n) /\ active' = {p}
      /\ live' = onFill(id, n) /\ replayed' = restoreFill(id, n)
      /\ refused' = refused \cap DOMAIN book'
      /\ UNCHANGED <<maxPos, refusals, diverged, voided>>
  BY <1>0 DEF Filled
<1>2. /\ o \in Orders /\ o.id \notin DOMAIN book /\ IsWholeBook(book)
      /\ Exposure(live, o.trader, o.side) + o.rem <= maxPos /\ maxPos \in Limits
      /\ IsEngine(live) /\ ~live.corrupt
  BY DEF RiskInv, Shape, Within
<1>3. o.rem \in Nat /\ book[id].rem \in Nat
  BY <1>1, <1>2, RiskAssumption DEF Orders, IsWholeBook
<1>4. n \in Nat /\ n <= o.rem /\ n <= book[id].rem
  BY <1>3, MinOfTwo
<1> HIDE DEF n
<1>5. /\ p \in Orders /\ p.id = o.id /\ p.trader = o.trader
      /\ p.side = o.side /\ p.rem = o.rem - n
  BY <1>2, <1>4, OrderLess
<1> HIDE DEF p
<1>6. /\ IsWholeBook(book') /\ Rested' = Filled(Rested, id, n)
      /\ DOMAIN book' = IF n = book[id].rem THEN DOMAIN book \ {id} ELSE DOMAIN book
  <2>1. /\ IsWholeBook(Filled(book, id, n))
        /\ DOMAIN Filled(book, id, n) = IF n = book[id].rem THEN DOMAIN book \ {id}
                                        ELSE DOMAIN book
        /\ LivePart(Filled(book, id, n)) = Filled(LivePart(book), id, n)
    BY <1>1, <1>2, <1>4, WholeFilled
  <2> QED
    BY <1>1, <2>1 DEF Rested
<1>l. id \in DOMAIN Rested /\ Rested[id] = book[id] /\ IsBook(Rested)
  <2>1. /\ IsBook(Rested) /\ DOMAIN Rested = {i \in DOMAIN book : book[i].rem > 0}
        /\ \A i \in DOMAIN Rested : Rested[i] = book[i]
    BY <1>2, LivePartBook DEF Rested
  <2>2. book[id].rem > 0
    BY <1>1, <1>3, <1>4
  <2> QED
    BY <1>1, <2>1, <2>2
<1>7. refused' = refused \cap DOMAIN Rested' /\ DOMAIN book' \subseteq DOMAIN book
  <2>1. FilledTo(Rested, Rested', id, n)
    BY <1>4, <1>6, <1>l, FilledBook
  <2>2. DOMAIN Rested' = IF n = book[id].rem THEN DOMAIN Rested \ {id} ELSE DOMAIN Rested
    BY <1>l, <2>1 DEF FilledTo
  <2>3. refused \subseteq DOMAIN Rested /\ DOMAIN Rested \subseteq DOMAIN book
    BY <1>2, Engines, LivePartBook DEF Rested
  <2> QED
    BY <1>1, <1>6, <2>2, <2>3
<1>8. /\ Follow(diverged) /\ Steady
      /\ \A t \in Traders, side \in Sides :
             Exposure(live', t, side) <= Exposure(live, t, side)
  BY <1>1, <1>2, <1>4, <1>6, <1>7, <1>l, FillFollows
<1>9. Exposure(live', p.trader, p.side) + p.rem <= maxPos
  <2>1. o.trader \in Traders /\ o.side \in Sides
    BY <1>2 DEF Orders
  <2>2. /\ Exposure(live, o.trader, o.side) \in Int
        /\ Exposure(live', o.trader, o.side) \in Int /\ maxPos \in Int
    BY <1>2, <1>8, <2>1, CountersType, RiskAssumption DEF Follow
  <2>3. Exposure(live', o.trader, o.side) <= Exposure(live, o.trader, o.side)
    BY <1>8, <2>1
  <2> QED
    BY <1>2, <1>3, <1>4, <1>5, <2>2, <2>3
<1>10. /\ active' \subseteq Orders /\ \A q, s \in active' : q = s
       /\ \A q \in active' : /\ q.id \notin DOMAIN book'
                             /\ Exposure(live', q.trader, q.side) + q.rem <= maxPos
  BY <1>1, <1>2, <1>5, <1>7, <1>9
<1>11. refused' \subseteq DOMAIN Rested' /\ refused' \subseteq refused
  BY <1>7
<1>12. Placed'
  BY <1>0, <1>p DEF Placed
<1>13. RiskInv'
  BY <1>1, <1>2, <1>6, <1>8, <1>10, <1>11, <1>12, FollowKeeps
<1> QED
  BY <1>8, <1>11, <1>13

\* The matched order joins the book.
LEMMA JoinsRested ==
  ASSUME RiskInv, NEW o \in active, o.type = "LIMIT", book' = With(book, o.id, o)
  PROVE  /\ ~live.corrupt /\ IsWholeBook(book')
         /\ o.rem > 0 => Rested' = With(Rested, o.id, o)
         /\ o.rem = 0 => Rested' = Rested
<1>1. o \in Orders /\ o.id \notin DOMAIN book /\ IsWholeBook(book) /\ ~live.corrupt
  BY DEF RiskInv, Shape
<1> QED
  BY <1>1, WholeWith DEF Rested

\* What is left rests.
LEMMA RestStep ==
  ASSUME RiskInv, HasRoom, Rest
  PROVE  RiskInv' /\ Steady
<1>1. PICK o \in active :
        /\ o.rem > 0 /\ o.type = "LIMIT"
        /\ live' = applyResting(live, o, o.rem)
        /\ replayed' = restoreAccepted(o, o.rem)
        /\ book' = With(book, o.id, o)
        /\ active' = {}
        /\ UNCHANGED <<maxPos, refused, refusals, diverged, voided>>
        /\ Placed'
  BY DEF Rest, Placed
<1>b. ~live.corrupt /\ IsWholeBook(book') /\ Rested' = With(Rested, o.id, o)
  BY <1>1, JoinsRested
<1>2. Follow(diverged) /\ Steady
  BY <1>1, <1>b, RestFollows
<1>3. DOMAIN Rested' = DOMAIN Rested \cup {o.id}
  BY <1>1, <1>b, RestoreFollows
<1>4. refused' \subseteq DOMAIN Rested'
  BY <1>1, <1>3 DEF RiskInv, Shape
<1> QED
  BY <1>1, <1>2, <1>4, <1>b, FollowKeeps

\* Once more refused: the restored engine is up by as much as an order has.
LEMMA RestRefusedStep ==
  ASSUME RiskInv, HasRoom, RestRefused
  PROVE  RiskInv'
<1>1. PICK o \in active :
        /\ o.rem > 0 /\ o.type = "LIMIT"
        /\ refusals < MaxRefusals
        /\ refused' = refused \cup {o.id}
        /\ refusals' = refusals + 1
        /\ diverged' = TRUE
        /\ replayed' = restoreAccepted(o, o.rem)
        /\ book' = With(book, o.id, o)
        /\ active' = {}
        /\ UNCHANGED <<live, maxPos, voided>>
        /\ Placed'
  BY DEF RestRefused, Placed
<1>b. ~live.corrupt /\ IsWholeBook(book') /\ Rested' = With(Rested, o.id, o)
  BY <1>1, JoinsRested
<1>2. /\ o \in Orders /\ o.id \notin DOMAIN Rested
      /\ DOMAIN Rested' = DOMAIN Rested \cup {o.id}
      /\ \A i \in DOMAIN Rested : Rested'[i] = Rested[i]
      /\ IsEngine(replayed')
      /\ voided => replayed'.corrupt
      /\ ~voided => AfterRest(replayed, replayed', DOMAIN Rested, o, Rested')
  BY <1>1, <1>b, RestoreFollows
<1>3. Shape'
  <2>1. refusals' \in 0 .. MaxRefusals
    BY <1>1, RiskAssumption DEF RiskInv, Shape
  <2>2. ~voided => ~replayed'.corrupt
    BY <1>2 DEF AfterRest
  <2> QED
    BY <1>1, <1>2, <1>b, <2>1, <2>2 DEF RiskInv, Shape
<1>4. Tracking'
  <2>1. DOMAIN Rested' \ refused' = DOMAIN Rested \ refused
    BY <1>1, <1>2
  <2>2. TracksIn(live, DOMAIN Rested \ refused, Rested')
    <3>1. \A i \in DOMAIN Rested \ refused : Rested'[i] = Rested[i]
      BY <1>2
    <3>2. TracksIn(live, DOMAIN Rested \ refused, Rested)
      BY <1>b, Engines
    <3> QED
      BY <3>1, <3>2, OthersTrack
  <2> QED
    BY <1>1, <1>2, <2>1, <2>2 DEF Tracking, AfterRest
<1>5. InStep' /\ Within'
  BY <1>1 DEF InStep, Within
<1>6. Bounded'
  <2>1. PICK x \in Nat, y \in Nat : BoundedBy(x, y)
    BY DEF RiskInv, Bounded
  <2>2. MaxQty \in Nat /\ refusals \in Nat /\ o.rem \in Nat /\ o.rem <= MaxQty
    BY <1>2, RiskAssumption DEF RiskInv, Shape, Orders
  <2>3. y + MaxQty \in Nat /\ x + (y + MaxQty) <= refusals' * MaxQty
    <3>1. refusals' * MaxQty = refusals * MaxQty + MaxQty /\ refusals * MaxQty \in Int
      BY <1>1, <2>2
    <3>2. x + y <= refusals * MaxQty
      BY <2>1 DEF BoundedBy
    <3> QED
      BY <2>2, <3>1, <3>2
  <2>4. ASSUME NEW t \in Traders, NEW side \in Sides
        PROVE  /\ Exposure(live', t, side) <= Ceiling + x
               /\ ~voided' => Exposure(replayed', t, side) <=
                                  Exposure(live', t, side) + (y + MaxQty)
    <3>1. /\ Exposure(live, t, side) <= Ceiling + x
          /\ ~voided => Exposure(replayed, t, side) <= Exposure(live, t, side) + y
      BY <1>b, <2>1 DEF BoundedBy
    <3>2. ~voided => Exposure(replayed', t, side) = Exposure(replayed, t, side) +
              IF t = o.trader /\ side = o.side THEN o.rem ELSE 0
      BY <1>2 DEF AfterRest
    <3>3. Exposure(live, t, side) \in Int /\ Exposure(replayed, t, side) \in Int
      BY CountersType DEF RiskInv, Shape
    <3> QED
      BY <1>1, <2>2, <3>1, <3>2, <3>3
  <2>5. BoundedBy(x, y + MaxQty)'
    BY <2>3, <2>4 DEF BoundedBy, Ceiling
  <2> QED
    BY <2>3, <2>5 DEF Bounded
<1> QED
  BY <1>3, <1>4, <1>5, <1>6 DEF RiskInv

\* The order is done.
LEMMA FinishStep ==
  ASSUME RiskInv, HasRoom, Finish
  PROVE  RiskInv'
<1>1. /\ active' = {} /\ maxPos' \in Limits /\ IsWholeBook(book') /\ Rested' = Rested
      /\ UNCHANGED <<live, replayed, refused, refusals, diverged, voided>>
      /\ Placed'
  BY DEF Finish, RiskInv, Shape, Rested, Placed
<1> QED
  BY <1>1, AloneKeeps

\* An order with nothing left joins the book, or leaves it.
LEMMA KeepEmptyStep ==
  ASSUME RiskInv, HasRoom, KeepEmpty
  PROVE  RiskInv'
<1>1. PICK o \in active : o.rem = 0 /\ book' = With(book, o.id, o)
  BY DEF KeepEmpty
<1>2. /\ active' = {} /\ maxPos' \in Limits
      /\ UNCHANGED <<live, replayed, refused, refusals, diverged, voided>>
      /\ Placed'
  BY DEF KeepEmpty, RiskInv, Shape, Placed
<1>3. o.type = "LIMIT"
  BY DEF KeepEmpty, RiskInv, Shape, Placed
<1>4. IsWholeBook(book') /\ Rested' = Rested
  BY <1>1, <1>3, JoinsRested
<1> QED
  BY <1>2, <1>4, AloneKeeps

LEMMA PopEmptyStep ==
  ASSUME RiskInv, HasRoom, NEW id \in OrderIds, PopEmpty(id)
  PROVE  RiskInv'
<1>1. /\ id \in DOMAIN book /\ book[id].rem = 0 /\ book' = Without(book, id)
      /\ UNCHANGED <<live, replayed, maxPos, active, refused, refusals, diverged, voided>>
      /\ Placed'
  BY DEF PopEmpty, Placed
<1>2. /\ IsWholeBook(book') /\ DOMAIN book' = DOMAIN book \ {id} /\ Rested' = Rested
  <2>1. IsWholeBook(book)
    BY DEF RiskInv, Shape
  <2>0. DOMAIN LivePart(book) = {i \in DOMAIN book : book[i].rem > 0}
    BY <2>1, LivePartBook
  <2>2. id \notin DOMAIN LivePart(book)
    BY <1>1, <2>0
  <2> QED
    BY <1>1, <2>1, <2>2, WholeWithout DEF Rested
<1>3. /\ maxPos' \in Limits /\ active' \subseteq Orders /\ \A o, p \in active' : o = p
      /\ live.corrupt => active' = {}
      /\ \A o \in active' : /\ o.id \notin DOMAIN book'
                            /\ Exposure(live, o.trader, o.side) + o.rem <= maxPos'
  BY <1>1, <1>2 DEF RiskInv, Shape, Within
<1> QED
  BY <1>1, <1>2, <1>3, AloneKeeps

\* Nothing is left to show of a corrupt engine.
LEMMA CorruptKeeps ==
  ASSUME RiskInv, live.corrupt, live' = live, IsWholeBook(book'), Placed',
         refused' \subseteq DOMAIN Rested', active' = {},
         IsEngine(replayed'), replayed'.corrupt, voided' = TRUE,
         maxPos' \in Limits, refusals' = refusals
  PROVE  RiskInv'
<1>1. Shape'
  BY DEF RiskInv, Shape
<1>2. Tracking' /\ InStep' /\ Within'
  BY DEF Tracking, InStep, Within
<1>3. Bounded'
  <2>1. PICK x \in Nat, y \in Nat : BoundedBy(x, y)
    BY DEF RiskInv, Bounded
  <2>2. BoundedBy(x, y)'
    BY <2>1 DEF BoundedBy
  <2> QED
    BY <2>2 DEF Bounded
<1> QED
  BY <1>1, <1>2, <1>3 DEF RiskInv

\* A cancel takes the whole order out.  If nothing was left of it the restored
\* engine does not accept the event.
LEMMA CancelStep ==
  ASSUME RiskInv, HasRoom, NEW id \in OrderIds, Cancel(id)
  PROVE  RiskInv'
<1>1. /\ Idle /\ id \in DOMAIN book /\ active' = {}
      /\ live' = onOrderCancelled(id, book[id].rem)
      /\ replayed' = restoreCancelled(id, book[id].rem)
      /\ book' = Without(book, id) /\ refused' = refused \ {id}
      /\ voided' = (voided \/ book[id].rem = 0)
      /\ UNCHANGED <<maxPos, refusals, diverged>>
      /\ Placed'
  BY DEF Cancel, Idle, RiskInv, Shape, Placed
<1>2. /\ IsWholeBook(book) /\ maxPos' \in Limits /\ voided \in BOOLEAN
      /\ IsEngine(replayed) /\ (live.corrupt => voided) /\ (voided => replayed.corrupt)
      /\ refused \subseteq DOMAIN Rested
  BY <1>1 DEF RiskInv, Shape
<1>3. /\ IsWholeBook(book') /\ Rested' = Without(Rested, id)
      /\ id \notin DOMAIN Rested => Rested' = Rested
  BY <1>1, <1>2, WholeWithout DEF Rested
<1>4. /\ DOMAIN Rested = {i \in DOMAIN book : book[i].rem > 0} /\ IsBook(Rested)
      /\ \A i \in DOMAIN Rested : Rested[i] = book[i]
  BY <1>2, LivePartBook DEF Rested
<1>5. CASE id \in DOMAIN Rested /\ ~live.corrupt
  <2>1. /\ live' = onOrderCancelled(id, Rested[id].rem)
        /\ replayed' = restoreCancelled(id, Rested[id].rem) /\ voided' = voided
    <3>1. book[id].rem > 0 /\ Rested[id] = book[id]
      BY <1>4, <1>5
    <3>2. book[id].rem # 0
      BY <3>1
    <3> QED
      BY <1>1, <1>2, <3>1, <3>2
  <2>2. Follow(diverged) /\ Steady
    BY <1>1, <1>3, <1>5, <2>1, CancelFollows
  <2>3. DOMAIN Rested' = DOMAIN Rested \ {id}
    BY <1>3, <1>4, BookWithout
  <2>4. refused' \subseteq DOMAIN Rested'
    BY <1>1, <1>2, <2>3
  <2> QED
    BY <1>1, <1>3, <1>5, <2>1, <2>2, <2>4, FollowKeeps
<1>6. CASE id \notin DOMAIN Rested
  <2>0. book[id].rem \in Nat
    BY <1>1, <1>2, RiskAssumption DEF IsWholeBook, Orders
  <2>1. book[id].rem = 0
    BY <1>1, <1>4, <1>6, <2>0
  <2>2. live' = live /\ replayed' = CorruptEngine /\ voided' = TRUE
    <3>1. ~CanRelease(live, id, 0) /\ ~CanRelease(replayed, id, 0)
      BY DEF CanRelease
    <3>2. live' = onOrderCancelled(id, 0) /\ replayed' = restoreCancelled(id, 0)
      BY <1>1, <2>1
    <3>3. live' = live /\ replayed' = CorruptEngine
      BY <3>1, <3>2 DEF onOrderCancelled, restoreCancelled
    <3>4. voided' = TRUE
      BY <1>1, <2>1
    <3> QED
      BY <3>3, <3>4
  <2>3. refused' = refused /\ Rested' = Rested
    BY <1>1, <1>2, <1>3, <1>6
  <2>4. IsEngine(replayed') /\ replayed'.corrupt
    BY <2>2, CorruptEngineType
  <2> QED
    BY <1>1, <1>2, <1>3, <2>2, <2>3, <2>4, AloneKeeps
<1>7. CASE live.corrupt
  <2>1. live' = live /\ replayed' = CorruptEngine /\ voided' = TRUE
    BY <1>1, <1>2, <1>7 DEF onOrderCancelled, restoreCancelled, CanRelease
  <2>2. IsEngine(replayed') /\ replayed'.corrupt
    BY <2>1, CorruptEngineType
  <2>3. refused' \subseteq DOMAIN Rested'
    BY <1>1, <1>2, <1>3, <1>4, BookWithout
  <2> QED
    BY <1>1, <1>2, <1>3, <1>7, <2>1, <2>2, <2>3, CorruptKeeps
<1> QED
  BY <1>5, <1>6, <1>7

\* The limits change between orders only.
LEMMA LimitStep ==
  ASSUME RiskInv, HasRoom, NEW n \in Limits, setMaxOrderSize(n) \/ setMaxPosition(n)
  PROVE  RiskInv'
<1>1. /\ active' = {} /\ maxPos' \in Limits /\ IsWholeBook(book') /\ Rested' = Rested
      /\ UNCHANGED <<live, replayed, refused, refusals, diverged, voided>>
      /\ Placed'
  BY DEF setMaxOrderSize, setMaxPosition, Idle, RiskInv, Shape, Rested, Placed
<1> QED
  BY <1>1, AloneKeeps

\* After a restart the live engine has met the refused orders, or is corrupt.
LEMMA RestartStep ==
  ASSUME RiskInv, HasRoom, Restart
  PROVE  RiskInv'
<1>1. /\ active = {} /\ live' = replayed /\ replayed' = replayed /\ refused' = {}
      /\ diverged' = FALSE /\ UNCHANGED <<maxPos, active, refusals, voided>>
      /\ book' = LivePart(book) /\ Placed'
  BY DEF Restart, Idle, LivePart, LiveIds, RiskInv, Shape, Placed
<1>b. IsWholeBook(book') /\ Rested' = Rested
  BY <1>1, LivePartWhole DEF RiskInv, Shape, Rested
<1>2. Shape'
  BY <1>1, <1>b DEF RiskInv, Shape
<1>3. Tracking'
  <2>1. DOMAIN Rested' \ refused' = DOMAIN Rested
    BY <1>1, <1>b
  <2>2. ~live'.corrupt => ~voided
    BY <1>1 DEF RiskInv, Shape
  <2> QED
    BY <1>1, <1>b, <2>1, <2>2 DEF RiskInv, Tracking
<1>4. InStep' /\ Within'
  BY <1>1 DEF InStep, Within
<1>5. Bounded'
  <2>1. PICK x \in Nat, y \in Nat : BoundedBy(x, y)
    BY DEF RiskInv, Bounded
  <2>2. x + y \in Nat /\ 0 \in Nat /\ (x + y) + 0 <= refusals' * MaxQty
    BY <1>1, <2>1 DEF BoundedBy
  <2>3. ASSUME NEW t \in Traders, NEW side \in Sides
        PROVE  /\ ~live'.corrupt => Exposure(live', t, side) <= Ceiling + (x + y)
               /\ Exposure(replayed', t, side) <= Exposure(live', t, side) + 0
    <3>0. (~live'.corrupt => ~voided) /\ (~voided => ~live.corrupt)
      BY <1>1 DEF RiskInv, Shape
    <3>1. /\ ~live.corrupt => Exposure(live, t, side) <= Ceiling + x
          /\ ~voided => Exposure(replayed, t, side) <= Exposure(live, t, side) + y
      BY <2>1 DEF BoundedBy
    <3>2. Exposure(live, t, side) \in Int /\ Exposure(replayed, t, side) \in Int
      BY CountersType DEF RiskInv, Shape
    <3>3. Ceiling \in Int
      BY LimitsBelow
    <3> QED
      BY <1>1, <3>0, <3>1, <3>2, <3>3
  <2>4. BoundedBy(x + y, 0)'
    BY <2>2, <2>3 DEF BoundedBy, Ceiling
  <2> QED
    BY <2>2, <2>4 DEF Bounded
<1> QED
  BY <1>2, <1>3, <1>4, <1>5 DEF RiskInv

-----------------------------------------------------------------------------
(* The theorems *)

\* The invariant holds at first, is kept by every step, and so holds always.
LEMMA RiskInit ==
  ASSUME HasRoom, Init
  PROVE  RiskInv
<1>1. /\ live = NewEngine /\ replayed = NewEngine /\ maxPos \in Limits
      /\ book = <<>> /\ active = {} /\ refused = {} /\ refusals = 0
      /\ diverged = FALSE /\ voided = FALSE /\ inPlace = FALSE
  BY DEF Init
<1>b. DOMAIN book = {}
  BY <1>1
<1>2. DOMAIN Rested = {}
  BY <1>b DEF Rested, LivePart
<1>3. IsEngine(NewEngine) /\ ~NewEngine.corrupt /\ DOMAIN NewEngine.orders = {}
  BY NewEngineType DEF NewEngine
<1>4. \A t \in Traders, side \in Sides :
          NewEngine.positions[t][side] = 0 /\ NewEngine.positions[t].position = 0
  BY DEF NewEngine, NoPosition, Sides
<1>5. Shape
  <2>1. IsWholeBook(book)
    BY <1>b, FS_EmptySet DEF IsWholeBook
  <2>2. refusals \in 0 .. MaxRefusals
    BY <1>1, RiskAssumption
  <2>3. Placed
    BY <1>1 DEF Placed
  <2> QED
    BY <1>1, <1>2, <1>3, <2>1, <2>2, <2>3 DEF Shape
<1>6. Tracking
  <2>1. \A t \in Traders, side \in Sides :
            Cardinality(Reserved(NewEngine.orders, t, side)) = 0
    <3>1. \A t, side : Reserved(NewEngine.orders, t, side) = {}
      BY <1>3 DEF Reserved
    <3> QED
      BY <3>1, FS_EmptySet
  <2>2. TracksIn(NewEngine, {}, Rested)
    BY <1>3, <1>4, <2>1 DEF TracksIn
  <2> QED
    BY <1>1, <1>2, <2>2 DEF Tracking
<1>7. InStep /\ Within
  BY <1>1 DEF InStep, Within
<1>8. Bounded
  <2>1. maxPos \in Nat /\ Ceiling \in Int /\ maxPos <= Ceiling
    BY <1>1, LimitsBelow, RiskAssumption
  <2>2. \A t \in Traders, side \in Sides : Exposure(NewEngine, t, side) = 0
    BY <1>4 DEF Exposure, Signed
  <2>3. refusals * MaxQty = 0
    BY <1>1, RiskAssumption
  <2>4. BoundedBy(0, 0)
    BY <1>1, <2>1, <2>2, <2>3 DEF BoundedBy
  <2> QED
    BY <2>4 DEF Bounded
<1> QED
  BY <1>5, <1>6, <1>7, <1>8 DEF RiskInv

LEMMA RiskStep ==
  ASSUME HasRoom, RiskInv, [Next]_vars
  PROVE  RiskInv'
<1>1. CASE UNCHANGED vars
  BY <1>1 DEF vars, RiskInv, Shape, Tracking, InStep, Within, Bounded, BoundedBy, Rested, Placed
<1>2. CASE Next
  <2>1. ASSUME NEW o \in NewOrders, Submit(o) PROVE RiskInv'
    BY <2>1, SubmitStep
  <2>2. ASSUME NEW id \in OrderIds, NEW qty \in 1 .. MaxQty, NEW samePrice \in BOOLEAN,
               Replace(id, qty, samePrice)
        PROVE  RiskInv'
    BY <2>2, ReplaceStep
  <2>3. ASSUME NEW id \in OrderIds, Trade(id) PROVE RiskInv'
    BY <2>3, TradeStep
  <2>4. ASSUME NEW id \in OrderIds, Cancel(id) PROVE RiskInv'
    BY <2>4, CancelStep
  <2>5. ASSUME Rest PROVE RiskInv'
    BY <2>5, RestStep
  <2>6. ASSUME RestRefused PROVE RiskInv'
    BY <2>6, RestRefusedStep
  <2>7. ASSUME Finish PROVE RiskInv'
    BY <2>7, FinishStep
  <2>8. ASSUME NEW n \in Limits, setMaxOrderSize(n) \/ setMaxPosition(n)
        PROVE  RiskInv'
    BY <2>8, LimitStep
  <2>9. ASSUME Restart PROVE RiskInv'
    BY <2>9, RestartStep
  <2>10. ASSUME KeepEmpty PROVE RiskInv'
    BY <2>10, KeepEmptyStep
  <2>11. ASSUME NEW id \in OrderIds, PopEmpty(id) PROVE RiskInv'
    BY <2>11, PopEmptyStep
  <2> QED
    BY <1>2, <2>1, <2>2, <2>3, <2>4, <2>5, <2>6, <2>7, <2>8, <2>9, <2>10, <2>11 DEF Next
<1> QED
  BY <1>1, <1>2

LEMMA RiskInvariance == ASSUME HasRoom PROVE Spec => []RiskInv
<1>1. Init => RiskInv
  BY RiskInit
<1>2. RiskInv /\ [Next]_vars => RiskInv'
  BY RiskStep
<1> QED
  BY <1>1, <1>2, PTL DEF Spec

\* The part of the book with something left is the book, for Tracks.
LEMMA TracksRested ==
  ASSUME RiskInv, NEW e, NEW ids \in SUBSET LiveIds, TracksIn(e, ids, Rested)
  PROVE  Tracks(e, ids)
<1>1. \A id \in ids : Rested[id] = book[id]
  BY DEF Rested, LivePart, LiveIds
<1> QED
  BY <1>1 DEF Tracks, TracksIn

\* As long as it is not corrupt, the live engine's reservations are the orders of
\* the book with something left that onOrderResting has not refused, each with
\* what is left of it, and its counters their sums, after any sequence of on*
\* calls, replaces (those that leave an order with nothing included) and
\* restarts.
THEOREM ReservationsTrackBook == ASSUME HasRoom PROVE Spec => []TracksBook
<1>1. RiskInv => TracksBook
  <2> SUFFICES ASSUME RiskInv, ~live.corrupt
               PROVE  Tracks(live, LiveIds \ refused)
    BY DEF TracksBook
  <2>1. DOMAIN Rested = LiveIds
    BY DEF Rested, LivePart, LiveIds
  <2>2. TracksIn(live, LiveIds \ refused, Rested)
    BY <2>1 DEF RiskInv, Tracking
  <2> QED
    BY <2>2, TracksRested
<1> QED
  BY <1>1, RiskInvariance, PTL

\* The restore* calls, given the events of a run of the live engine, mark the
\* restored one corrupt exactly when an order with nothing left was cancelled,
\* whatever the limits were; until then it tracks every order with something
\* left, and is the live one if that refused nothing.
THEOREM RestoreIsFaithful == ASSUME HasRoom PROVE Spec => []RestoreReproduces
<1>1. RiskInv => RestoreReproduces
  <2> SUFFICES ASSUME RiskInv PROVE RestoreReproduces
    OBVIOUS
  <2>1. DOMAIN Rested = LiveIds
    BY DEF Rested, LivePart, LiveIds
  <2>2. ~voided => Tracks(replayed, LiveIds)
    BY <2>1, TracksRested DEF RiskInv, Tracking
  <2>3. /\ (replayed.corrupt => voided) /\ (voided => replayed.corrupt)
        /\ (~voided => (~diverged => replayed = live))
    BY DEF RiskInv, Shape, InStep
  <2>4. replayed.corrupt \in BOOLEAN /\ voided \in BOOLEAN
    BY DEF RiskInv, Shape, IsEngine
  <2> QED
    BY <2>2, <2>3, <2>4 DEF RestoreReproduces
<1> QED
  BY <1>1, RiskInvariance, PTL

\* validate and validateReplace together with the check of onOrderResting let
\* no call of the live path take an exposure above max_position_.
THEOREM LimitHolds == ASSUME HasRoom PROVE Spec => ExposureBounded
<1> DEFINE P == active' # active =>
                  \A t \in Traders, side \in Sides :
                      Exposure(live', t, side) > Exposure(live, t, side) =>
                          Exposure(live', t, side) <= maxPos
<1>0. ASSUME Steady PROVE P
  BY <1>0 DEF Steady
<1>a. ASSUME RiskInv, live' = live PROVE P
  <2>1. \A t \in Traders, side \in Sides : Exposure(live, t, side) \in Int
    BY <1>a, CountersType DEF RiskInv, Shape
  <2> QED
    BY <1>a, <2>1
<1>b. ASSUME active' = active PROVE P
  BY <1>b
<1> HIDE DEF P
<1>1. ASSUME RiskInv, Next PROVE P
  <2>1. ASSUME NEW o \in NewOrders, Submit(o) PROVE P
    BY <1>1, <1>a, <2>1 DEF Submit
  <2>2. ASSUME NEW id \in OrderIds, NEW qty \in 1 .. MaxQty, NEW samePrice \in BOOLEAN,
               Replace(id, qty, samePrice)
        PROVE  P
    BY <1>0, <1>1, <2>2, ReplaceStep
  <2>3. ASSUME NEW id \in OrderIds, Trade(id) PROVE P
    BY <1>0, <1>1, <2>3, TradeStep
  <2>4. ASSUME NEW id \in OrderIds, Cancel(id) PROVE P
    BY <1>b, <2>4 DEF Cancel
  <2>5. ASSUME Rest PROVE P
    BY <1>0, <1>1, <2>5, RestStep
  <2>6. ASSUME RestRefused PROVE P
    BY <1>1, <1>a, <2>6 DEF RestRefused
  <2>7. ASSUME Finish PROVE P
    BY <1>1, <1>a, <2>7 DEF Finish
  <2>8. ASSUME NEW n \in Limits, setMaxOrderSize(n) \/ setMaxPosition(n)
        PROVE  P
    BY <1>b, <2>8 DEF setMaxOrderSize, setMaxPosition
  <2>9. ASSUME Restart PROVE P
    BY <1>b, <2>9 DEF Restart
  <2>10. ASSUME KeepEmpty PROVE P
    BY <1>1, <1>a, <2>10 DEF KeepEmpty
  <2>11. ASSUME NEW id \in OrderIds, PopEmpty(id) PROVE P
    BY <1>b, <2>11 DEF PopEmpty
  <2> QED
    BY <1>1, <2>1, <2>2, <2>3, <2>4, <2>5, <2>6, <2>7, <2>8, <2>9, <2>10, <2>11 DEF Next
<1>2. RiskInv /\ [Next]_vars => [P]_vars
  BY <1>1
<1>3. RiskInv /\ [Next]_vars =>
        [active' # active =>
           \A t \in Traders, side \in Sides :
               Exposure(live', t, side) > Exposure(live, t, side) =>
                   Exposure(live', t, side) <= maxPos]_vars
  BY <1>2 DEF P
<1> QED
  BY <1>3, RiskInvariance, PTL DEF Spec, ExposureBounded

\* onOrderResting refuses a validated order only when the trader's position is
\* on the other side: its check adds what is left to the working orders alone.
THEOREM RefusalsAgainstPosition == ASSUME HasRoom PROVE Spec => RefusedAgainstPosition
<1> DEFINE P == \A id \in refused' \ refused :
                  LET o == book'[id]
                  IN  Signed(o.side, live.positions[o.trader].position) < 0
<1>0. ASSUME refused' \subseteq refused PROVE P
  BY <1>0
<1>1. ASSUME RiskInv, RestRefused PROVE P
  <2>1. PICK o \in active :
          /\ o.rem > 0 /\ o.type = "LIMIT"
          /\ ~(CanRest(live, o, o.rem) /\ WithinLimit(live, o, o.rem))
          /\ refused' = refused \cup {o.id}
          /\ replayed' = restoreAccepted(o, o.rem)
          /\ book' = With(book, o.id, o)
    BY <1>1 DEF RestRefused
  <2>2. ~WithinLimit(live, o, o.rem)
    BY <1>1, <2>1, JoinsRested, LiveCanRest
  <2>3. o \in Orders /\ book'[o.id] = o
    BY <1>1, <2>1 DEF With, RiskInv, Shape
  <2>4. /\ o.trader \in Traders /\ o.side \in Sides /\ o.rem \in Int
        /\ IsEngine(live) /\ maxPos \in Int
        /\ Exposure(live, o.trader, o.side) + o.rem <= maxPos
    BY <1>1, <2>3, RiskAssumption DEF RiskInv, Shape, Within, Orders
  <2>5. /\ live.positions[o.trader].position \in Int
        /\ live.positions[o.trader][o.side] \in Int
    BY <2>4, CountersType
  <2>6. ~(live.positions[o.trader][o.side] + o.rem <= maxPos)
    BY <2>2 DEF WithinLimit
  <2>7. Signed(o.side, live.positions[o.trader].position) < 0
    BY <2>4, <2>5, <2>6 DEF Exposure, Signed
  <2>8. \A id \in refused' \ refused : book'[id] = o
    BY <2>1, <2>3
  <2> QED
    BY <2>7, <2>8
<1> HIDE DEF P
<1>2. ASSUME RiskInv, Next PROVE P
  <2>1. ASSUME NEW id \in OrderIds, Trade(id) PROVE P
    BY <1>0, <2>1 DEF Trade
  <2>2. ASSUME NEW id \in OrderIds, Cancel(id) PROVE P
    BY <1>0, <2>2 DEF Cancel
  <2>3. ASSUME Restart PROVE P
    BY <1>0, <2>3 DEF Restart
  <2>4. ASSUME NEW id \in OrderIds, NEW qty \in 1 .. MaxQty, NEW samePrice \in BOOLEAN,
               Replace(id, qty, samePrice)
        PROVE  P
    BY <1>0, <2>4 DEF Replace
  <2>5. ASSUME NEW o \in NewOrders, Submit(o) PROVE P
    BY <1>0, <2>5 DEF Submit
  <2>6. ASSUME NEW n \in Limits, setMaxOrderSize(n) \/ setMaxPosition(n)
        PROVE  P
    BY <1>0, <2>6 DEF setMaxOrderSize, setMaxPosition
  <2>7. ASSUME Rest \/ Finish \/ KeepEmpty PROVE P
    BY <1>0, <2>7 DEF Rest, Finish, KeepEmpty
  <2>8. ASSUME NEW id \in OrderIds, PopEmpty(id) PROVE P
    BY <1>0, <2>8 DEF PopEmpty
  <2> QED
    BY <1>1, <1>2, <2>1, <2>2, <2>3, <2>4, <2>5, <2>6, <2>7, <2>8 DEF Next
<1>3. RiskInv /\ [Next]_vars => [P]_vars
  BY <1>2
<1>4. RiskInv /\ [Next]_vars =>
        [\A id \in refused' \ refused :
           LET o == book'[id]
           IN  Signed(o.side, live.positions[o.trader].position) < 0]_vars
  BY <1>3 DEF P
<1> QED
  BY <1>4, RiskInvariance, PTL DEF Spec, RefusedAgainstPosition
=============================================================================
