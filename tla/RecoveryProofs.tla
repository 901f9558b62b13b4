---------------------------- MODULE RecoveryProofs ----------------------------
(***************************************************************************)
(* Proofs that the journal rebuilds the book: for every set of orders,     *)
(* prices and traders, every number of crashes and every length of the     *)
(* history.  Replay is a recursion over the file and the live part of a    *)
(* queue one over the queue; both are reasoned about by induction over     *)
(* sets of sequences.                                                      *)
(***************************************************************************)
EXTENDS Recovery, MatchingEngineProofs, WellFoundedInduction

-----------------------------------------------------------------------------
(* Induction.  The induction theorems of the library have an operator as a  *)
(* parameter; with a set in its place the provers can use them.             *)

\* A set of natural numbers that is not empty has a least element.
LEMMA LeastElement ==
  ASSUME NEW T \in SUBSET Nat, T # {}
  PROVE  \E n \in T : \A m \in T : n <= m
<1> DEFINE R == OpToRel(<, Nat)
<1>1. IsWellFoundedOn(R, Nat)
  BY NatLessThanWellFounded
<1>2. \A m, n \in Nat : m < n => <<m, n>> \in R
  BY DEF OpToRel
<1> HIDE DEF R
<1>3. PICK x \in T : \A y \in T : ~ (<<y, x>> \in R)
  BY <1>1, WFMin
<1>4. ASSUME NEW y \in T PROVE x <= y
  <2>1. x \in Nat /\ y \in Nat
    OBVIOUS
  <2>2. ~(y < x)
    BY <1>2, <1>3, <2>1
  <2> QED
    BY <2>1, <2>2
<1> QED
  BY <1>4

\* A set that has 0 and with each number the next has every number.
LEMMA SetInduction ==
  ASSUME NEW S, 0 \in S, \A n \in Nat : n \in S => n + 1 \in S
  PROVE  Nat \subseteq S
<1> DEFINE T == {n \in Nat : n \notin S}
<1> SUFFICES ASSUME T # {} PROVE FALSE
  OBVIOUS
<1>1. PICK n \in T : \A m \in T : n <= m
  <2> HIDE DEF T
  <2>1. T \in SUBSET Nat
    BY DEF T
  <2> QED
    BY <2>1, LeastElement
<1>2. n # 0 /\ n - 1 \in Nat /\ n - 1 \notin T
  BY <1>1
<1> QED
  BY <1>1, <1>2

\* A sequence that is not empty is its front with its last element appended.
LEMMA FrontAndLast ==
  ASSUME NEW S, NEW f \in Seq(S), NEW n \in Nat, Len(f) = n + 1
  PROVE  /\ SubSeq(f, 1, n) \in Seq(S)
         /\ Len(SubSeq(f, 1, n)) = n
         /\ f[n + 1] \in S
         /\ f = Append(SubSeq(f, 1, n), f[n + 1])
<1> DEFINE g == SubSeq(f, 1, n)
<1>1. /\ g \in Seq(S)
      /\ Len(g) = n
      /\ \A k \in 1 .. n : g[k] = f[k]
  BY SubSeqProperties
<1>2. f[n + 1] \in S
  BY ElementOfSeq
<1> HIDE DEF g
<1>3. /\ Append(g, f[n + 1]) \in Seq(S)
      /\ Len(Append(g, f[n + 1])) = n + 1
      /\ \A k \in 1 .. n : Append(g, f[n + 1])[k] = g[k]
      /\ Append(g, f[n + 1])[n + 1] = f[n + 1]
  BY <1>1, <1>2, AppendProperties
<1>4. \A k \in 1 .. n + 1 : Append(g, f[n + 1])[k] = f[k]
  <2> TAKE k \in 1 .. n + 1
  <2>1. k \in 1 .. n \/ k = n + 1
    OBVIOUS
  <2> QED
    BY <1>1, <1>3, <2>1
<1>5. f = Append(g, f[n + 1])
  BY <1>3, <1>4, SeqEqual
<1> QED
  BY <1>1, <1>2, <1>5 DEF g

\* A set of sequences that has the empty one and with each its extensions has
\* all of them.
LEMMA SequenceInduction ==
  ASSUME NEW S, NEW A,
         <<>> \in A,
         \A f \in Seq(S), x \in S : f \in A => Append(f, x) \in A
  PROVE  Seq(S) \subseteq A
<1> DEFINE N == {n \in Nat : \A f \in Seq(S) : Len(f) = n => f \in A}
<1>1. 0 \in N
  BY EmptySeq
<1>2. ASSUME NEW n \in Nat, n \in N
      PROVE  n + 1 \in N
  <2> SUFFICES ASSUME NEW f \in Seq(S), Len(f) = n + 1
               PROVE  f \in A
    OBVIOUS
  <2>1. /\ SubSeq(f, 1, n) \in Seq(S)
        /\ Len(SubSeq(f, 1, n)) = n
        /\ f[n + 1] \in S
        /\ f = Append(SubSeq(f, 1, n), f[n + 1])
    BY FrontAndLast
  <2> QED
    BY <1>2, <2>1
<1>3. Nat \subseteq N
  <2> HIDE DEF N
  <2> QED
    BY <1>1, <1>2, SetInduction
<1> QED
  BY <1>3, LenProperties

-----------------------------------------------------------------------------
(* Replay, record by record *)

\* g[k] is the state of replay after the first k records of f.
IsReplay(f, g) ==
    g = [k \in 0 .. Len(f) |-> IF k = 0 THEN ReplayInit
                               ELSE processRecord(g[k - 1], f[k])]

\* The states replay passes through are determined by the file.
LEMMA ReplayUnique ==
  ASSUME NEW f, Len(f) \in Nat, NEW g, NEW h, IsReplay(f, g), IsReplay(f, h)
  PROVE  g = h
<1> DEFINE N == {n \in Nat : n <= Len(f) => g[n] = h[n]}
<1>1. /\ DOMAIN g = 0 .. Len(f) /\ DOMAIN h = 0 .. Len(f)
      /\ g = [k \in 0 .. Len(f) |-> g[k]]
      /\ h = [k \in 0 .. Len(f) |-> h[k]]
      /\ g[0] = ReplayInit /\ h[0] = ReplayInit
      /\ \A k \in 1 .. Len(f) : /\ g[k] = processRecord(g[k - 1], f[k])
                                /\ h[k] = processRecord(h[k - 1], f[k])
  BY DEF IsReplay
<1>2. 0 \in N
  BY <1>1
<1>3. ASSUME NEW n \in Nat, n \in N
      PROVE  n + 1 \in N
  <2> SUFFICES ASSUME n + 1 <= Len(f)
               PROVE  g[n + 1] = h[n + 1]
    OBVIOUS
  <2>1. g[n] = h[n]
    BY <1>3
  <2>2. \E m \in 1 .. Len(f) : m = n + 1 /\ m - 1 = n
    OBVIOUS
  <2> QED
    BY <1>1, <2>1, <2>2
<1>4. Nat \subseteq N
  <2> HIDE DEF N
  <2> QED
    BY <1>2, <1>3, SetInduction
<1>5. \A k \in 0 .. Len(f) : g[k] = h[k]
  BY <1>4
<1> QED
  BY <1>1, <1>5

\* The last of these states is what replay makes of the file.
LEMMA ReplayIsApply ==
  ASSUME NEW f, Len(f) \in Nat, NEW g, IsReplay(f, g)
  PROVE  Apply(f) = g[Len(f)]
<1> DEFINE a == CHOOSE h : h = [k \in 0 .. Len(f) |->
                   IF k = 0 THEN ReplayInit
                   ELSE processRecord(h[k - 1], f[k])]
<1>1. Apply(f) = a[Len(f)]
  BY DEF Apply
<1>2. a = CHOOSE h : IsReplay(f, h)
  BY DEF IsReplay
<1> HIDE DEF a
<1>3. IsReplay(f, a)
  BY <1>2
<1> QED
  BY <1>1, <1>3, ReplayUnique

\* Replay of a file with a record more has a state more: processRecord of the
\* last one.
LEMMA ReplayExtends ==
  ASSUME NEW S, NEW f \in Seq(S), NEW r \in S, NEW g, IsReplay(f, g)
  PROVE  \E h : /\ IsReplay(Append(f, r), h)
                /\ h[Len(f) + 1] = processRecord(g[Len(f)], r)
<1> DEFINE n == Len(f)
           h == [k \in 0 .. n + 1 |-> IF k = n + 1 THEN processRecord(g[n], r) ELSE g[k]]
           F == Append(f, r)
<1>1. n \in Nat
  BY LenProperties
<1>2. Len(F) = n + 1 /\ F[n + 1] = r /\ \A k \in 1 .. n : F[k] = f[k]
  BY AppendProperties
<1>3. /\ g[0] = ReplayInit
      /\ \A k \in 1 .. n : g[k] = processRecord(g[k - 1], f[k])
  BY <1>1 DEF IsReplay
<1> HIDE DEF F, n
<1>4. \A k \in 0 .. n : h[k] = g[k]
  BY <1>1
<1>5. h[n + 1] = processRecord(g[n], r)
  BY <1>1
<1>6. h = [k \in 0 .. n + 1 |-> h[k]]
  OBVIOUS
<1>h. DOMAIN h = 0 .. n + 1
  OBVIOUS
<1> HIDE DEF h
<1>7. \A k \in 0 .. n + 1 : h[k] = IF k = 0 THEN ReplayInit ELSE processRecord(h[k - 1], F[k])
  <2> TAKE k \in 0 .. n + 1
  <2>1. CASE k = 0
    BY <1>1, <1>3, <1>4, <2>1
  <2>2. CASE k \in 1 .. n
    <3>1. k \in 0 .. n /\ k - 1 \in 0 .. n /\ k # 0
      BY <1>1, <2>2
    <3> QED
      BY <1>2, <1>3, <1>4, <2>2, <3>1
  <2>3. CASE k = n + 1
    <3>1. k # 0 /\ k - 1 = n /\ n \in 0 .. n
      BY <1>1, <2>3
    <3>2. h[n] = g[n]
      BY <1>4, <3>1
    <3> QED
      BY <1>2, <1>5, <2>3, <3>1, <3>2
  <2> QED
    BY <1>1, <2>1, <2>2, <2>3
<1>8. IsReplay(F, h)
  BY <1>2, <1>6, <1>7 DEF IsReplay
<1> QED
  BY <1>5, <1>8 DEF F, n

\* Every file can be replayed.
LEMMA ReplayExists ==
  ASSUME NEW S
  PROVE  \A f \in Seq(S) : \E g : IsReplay(f, g)
<1> DEFINE A == {f \in Seq(S) : \E g : IsReplay(f, g)}
<1>1. <<>> \in A
  <2> DEFINE g == [k \in 0 .. 0 |-> ReplayInit]
  <2>1. Len(<<>>) = 0 /\ <<>> \in Seq(S)
    BY EmptySeq
  <2>2. g = [k \in 0 .. 0 |-> IF k = 0 THEN ReplayInit
                               ELSE processRecord(g[k - 1], <<>>[k])]
    OBVIOUS
  <2>3. IsReplay(<<>>, g)
    BY <2>1, <2>2 DEF IsReplay
  <2> QED
    BY <2>1, <2>3
<1>2. \A f \in Seq(S), x \in S : f \in A => Append(f, x) \in A
  BY ReplayExtends, AppendProperties
<1>3. Seq(S) \subseteq A
  <2> HIDE DEF A
  <2> QED
    BY <1>1, <1>2, SequenceInduction
<1> QED
  BY <1>3

\* Replay of an empty file changes nothing.
LEMMA ApplyEmpty == Apply(<<>>) = ReplayInit
<1>0. Len(<<>>) = 0 /\ <<>> \in Seq({})
  BY EmptySeq
<1>1. PICK g : IsReplay(<<>>, g)
  BY <1>0, ReplayExists
<1>2. g[0] = ReplayInit
  BY <1>0, <1>1 DEF IsReplay
<1> QED
  BY <1>0, <1>1, <1>2, ReplayIsApply

\* Replay of a longer file goes on from where replay of the shorter one ends.
LEMMA ApplyAppend ==
  ASSUME NEW S, NEW f \in Seq(S), NEW r \in S
  PROVE  Apply(Append(f, r)) = processRecord(Apply(f), r)
<1> DEFINE F == Append(f, r)
<1>1. PICK g : IsReplay(f, g)
  BY ReplayExists
<1>2. PICK h : IsReplay(F, h) /\ h[Len(f) + 1] = processRecord(g[Len(f)], r)
  BY <1>1, ReplayExtends
<1>3. Len(f) \in Nat /\ Len(F) = Len(f) + 1
  BY LenProperties, AppendProperties
<1> HIDE DEF F
<1>4. Apply(f) = g[Len(f)]
  BY <1>1, <1>3, ReplayIsApply
<1>5. Apply(F) = h[Len(F)]
  BY <1>2, <1>3, ReplayIsApply
<1> QED
  BY <1>2, <1>3, <1>4, <1>5 DEF F

-----------------------------------------------------------------------------
(* The live orders of a queue *)

\* The live part of a queue, when the order o joins the queue.
WithLive(q, o) == IF o.rem > 0 THEN Append(q, o) ELSE q

\* g[k] is the live part of the first k orders of f.
IsLiveRun(f, g) ==
    g = [k \in 0 .. Len(f) |-> IF k = 0 THEN <<>>
                               ELSE WithLive(g[k - 1], f[k])]

\* The live parts of the beginnings of a queue are determined by the queue.
LEMMA LiveRunUnique ==
  ASSUME NEW f, Len(f) \in Nat, NEW g, NEW h, IsLiveRun(f, g), IsLiveRun(f, h)
  PROVE  g = h
<1> DEFINE N == {n \in Nat : n <= Len(f) => g[n] = h[n]}
<1>1. /\ DOMAIN g = 0 .. Len(f) /\ DOMAIN h = 0 .. Len(f)
      /\ g = [k \in 0 .. Len(f) |-> g[k]]
      /\ h = [k \in 0 .. Len(f) |-> h[k]]
      /\ g[0] = <<>> /\ h[0] = <<>>
      /\ \A k \in 1 .. Len(f) : /\ g[k] = WithLive(g[k - 1], f[k])
                                /\ h[k] = WithLive(h[k - 1], f[k])
  BY DEF IsLiveRun
<1>2. 0 \in N
  BY <1>1
<1>3. ASSUME NEW n \in Nat, n \in N
      PROVE  n + 1 \in N
  <2> SUFFICES ASSUME n + 1 <= Len(f)
               PROVE  g[n + 1] = h[n + 1]
    OBVIOUS
  <2>1. g[n] = h[n]
    BY <1>3
  <2>2. \E m \in 1 .. Len(f) : m = n + 1 /\ m - 1 = n
    OBVIOUS
  <2> QED
    BY <1>1, <2>1, <2>2
<1>4. Nat \subseteq N
  <2> HIDE DEF N
  <2> QED
    BY <1>2, <1>3, SetInduction
<1>5. \A k \in 0 .. Len(f) : g[k] = h[k]
  BY <1>4
<1> QED
  BY <1>1, <1>5

\* The last of them is the live part of the queue.
LEMMA LiveRunIsLive ==
  ASSUME NEW f, Len(f) \in Nat, NEW g, IsLiveRun(f, g)
  PROVE  LiveOrders(f) = g[Len(f)]
<1> DEFINE a == CHOOSE h : h = [k \in 0 .. Len(f) |->
                   IF k = 0 THEN <<>>
                   ELSE WithLive(h[k - 1], f[k])]
<1>1. LiveOrders(f) = a[Len(f)]
  BY DEF LiveOrders, WithLive
<1>2. a = CHOOSE h : IsLiveRun(f, h)
  BY DEF IsLiveRun
<1> HIDE DEF a
<1>3. IsLiveRun(f, a)
  BY <1>2
<1> QED
  BY <1>1, <1>3, LiveRunUnique

\* A queue with an order more has one more of them.
LEMMA LiveRunExtends ==
  ASSUME NEW S, NEW f \in Seq(S), NEW r \in S, NEW g, IsLiveRun(f, g)
  PROVE  \E h : /\ IsLiveRun(Append(f, r), h)
                /\ h[Len(f) + 1] = WithLive(g[Len(f)], r)
<1> DEFINE n == Len(f)
           h == [k \in 0 .. n + 1 |-> IF k = n + 1 THEN WithLive(g[n], r) ELSE g[k]]
           F == Append(f, r)
<1>1. n \in Nat
  BY LenProperties
<1>2. Len(F) = n + 1 /\ F[n + 1] = r /\ \A k \in 1 .. n : F[k] = f[k]
  BY AppendProperties
<1>3. /\ g[0] = <<>>
      /\ \A k \in 1 .. n : g[k] = WithLive(g[k - 1], f[k])
  BY <1>1 DEF IsLiveRun
<1> HIDE DEF F, n
<1>4. \A k \in 0 .. n : h[k] = g[k]
  BY <1>1
<1>5. h[n + 1] = WithLive(g[n], r)
  BY <1>1
<1>6. h = [k \in 0 .. n + 1 |-> h[k]]
  OBVIOUS
<1>h. DOMAIN h = 0 .. n + 1
  OBVIOUS
<1> HIDE DEF h
<1>7. \A k \in 0 .. n + 1 : h[k] = IF k = 0 THEN <<>> ELSE WithLive(h[k - 1], F[k])
  <2> TAKE k \in 0 .. n + 1
  <2>1. CASE k = 0
    BY <1>1, <1>3, <1>4, <2>1
  <2>2. CASE k \in 1 .. n
    <3>1. k \in 0 .. n /\ k - 1 \in 0 .. n /\ k # 0
      BY <1>1, <2>2
    <3> QED
      BY <1>2, <1>3, <1>4, <2>2, <3>1
  <2>3. CASE k = n + 1
    <3>1. k # 0 /\ k - 1 = n /\ n \in 0 .. n
      BY <1>1, <2>3
    <3>2. h[n] = g[n]
      BY <1>4, <3>1
    <3> QED
      BY <1>2, <1>5, <2>3, <3>1, <3>2
  <2> QED
    BY <1>1, <2>1, <2>2, <2>3
<1>8. IsLiveRun(F, h)
  BY <1>2, <1>6, <1>7 DEF IsLiveRun
<1> QED
  BY <1>5, <1>8 DEF F, n

\* Every queue has a live part.
LEMMA LiveRunExists ==
  ASSUME NEW S
  PROVE  \A f \in Seq(S) : \E g : IsLiveRun(f, g)
<1> DEFINE A == {f \in Seq(S) : \E g : IsLiveRun(f, g)}
<1>1. <<>> \in A
  <2> DEFINE g == [k \in 0 .. 0 |-> <<>>]
  <2>1. Len(<<>>) = 0 /\ <<>> \in Seq(S)
    BY EmptySeq
  <2>2. g = [k \in 0 .. 0 |-> IF k = 0 THEN <<>>
                               ELSE WithLive(g[k - 1], <<>>[k])]
    OBVIOUS
  <2>3. IsLiveRun(<<>>, g)
    BY <2>1, <2>2 DEF IsLiveRun
  <2> QED
    BY <2>1, <2>3
<1>2. \A f \in Seq(S), x \in S : f \in A => Append(f, x) \in A
  BY LiveRunExtends, AppendProperties
<1>3. Seq(S) \subseteq A
  <2> HIDE DEF A
  <2> QED
    BY <1>1, <1>2, SequenceInduction
<1> QED
  BY <1>3

\* An empty queue has no live part.
LEMMA LiveEmpty == LiveOrders(<<>>) = <<>>
<1>0. Len(<<>>) = 0 /\ <<>> \in Seq({})
  BY EmptySeq
<1>1. PICK g : IsLiveRun(<<>>, g)
  BY <1>0, LiveRunExists
<1>2. g[0] = <<>>
  BY <1>0, <1>1 DEF IsLiveRun
<1> QED
  BY <1>0, <1>1, <1>2, LiveRunIsLive

\* An order that joins a queue joins its live part, if it has something left.
LEMMA LiveAppend ==
  ASSUME NEW S, NEW f \in Seq(S), NEW r \in S
  PROVE  LiveOrders(Append(f, r)) = WithLive(LiveOrders(f), r)
<1> DEFINE F == Append(f, r)
<1>1. PICK g : IsLiveRun(f, g)
  BY LiveRunExists
<1>2. PICK h : IsLiveRun(F, h) /\ h[Len(f) + 1] = WithLive(g[Len(f)], r)
  BY <1>1, LiveRunExtends
<1>3. Len(f) \in Nat /\ Len(F) = Len(f) + 1
  BY LenProperties, AppendProperties
<1> HIDE DEF F
<1>4. LiveOrders(f) = g[Len(f)]
  BY <1>1, <1>3, LiveRunIsLive
<1>5. LiveOrders(F) = h[Len(F)]
  BY <1>2, <1>3, LiveRunIsLive
<1> QED
  BY <1>2, <1>3, <1>4, <1>5 DEF F

\* A live order of a queue stands in the queue and has something left.
LEMMA LiveType ==
  ASSUME NEW S
  PROVE  \A q \in Seq(S) :
            /\ LiveOrders(q) \in Seq(S)
            /\ \A k \in DOMAIN LiveOrders(q) :
                   /\ LiveOrders(q)[k].rem > 0
                   /\ \E j \in DOMAIN q : LiveOrders(q)[k] = q[j]
<1> DEFINE P(q) == /\ LiveOrders(q) \in Seq(S)
                   /\ \A k \in DOMAIN LiveOrders(q) :
                          /\ LiveOrders(q)[k].rem > 0
                          /\ \E j \in DOMAIN q : LiveOrders(q)[k] = q[j]
           A == {q \in Seq(S) : P(q)}
<1>1. <<>> \in A
  <2>1. <<>> \in Seq(S) /\ \A k \in DOMAIN <<>> : FALSE
    BY EmptySeq
  <2>2. P(<<>>)
    BY <2>1, LiveEmpty, Zenon
  <2> QED
    BY <2>1, <2>2
<1>2. ASSUME NEW q \in Seq(S), NEW x \in S, q \in A
      PROVE  Append(q, x) \in A
  <2> DEFINE l == LiveOrders(q)
             Q == Append(q, x)
             L == LiveOrders(Q)
  <2>1. /\ l \in Seq(S)
        /\ \A k \in DOMAIN l : l[k].rem > 0 /\ \E j \in DOMAIN q : l[k] = q[j]
    BY <1>2
  <2>2. L = IF x.rem > 0 THEN Append(l, x) ELSE l
    BY LiveAppend DEF WithLive
  <2>3. /\ Q \in Seq(S) /\ DOMAIN Q = 1 .. Len(q) + 1
        /\ \A k \in DOMAIN q : k \in DOMAIN Q /\ Q[k] = q[k]
        /\ Q[Len(q) + 1] = x /\ Len(q) + 1 \in DOMAIN Q
    BY AppendProperties, LenProperties
  <2> HIDE DEF l, Q, L
  <2>4. CASE x.rem > 0
    <3>1. /\ L \in Seq(S) /\ DOMAIN L = 1 .. Len(l) + 1
          /\ \A k \in 1 .. Len(l) : L[k] = l[k]
          /\ L[Len(l) + 1] = x
          /\ DOMAIN l = 1 .. Len(l) /\ Len(l) \in Nat
      BY <2>1, <2>2, <2>4, AppendProperties, LenProperties
    <3>2. ASSUME NEW k \in DOMAIN L
          PROVE  L[k].rem > 0 /\ \E j \in DOMAIN Q : L[k] = Q[j]
      <4>1. CASE k \in 1 .. Len(l)
        BY <2>1, <2>3, <3>1, <4>1
      <4>2. CASE k = Len(l) + 1
        BY <2>3, <2>4, <3>1, <4>2
      <4> QED
        BY <3>1, <4>1, <4>2
    <3> QED
      BY <2>3, <3>1, <3>2 DEF L, Q
  <2>5. CASE ~(x.rem > 0)
    <3>1. L = l
      BY <2>2, <2>5
    <3> QED
      BY <2>1, <2>3, <3>1 DEF L, Q
  <2> QED
    BY <2>4, <2>5
<1>3. Seq(S) \subseteq A
  <2> HIDE DEF A
  <2> QED
    BY <1>1, <1>2, SequenceInduction
<1> QED
  BY <1>3

\* A queue of live orders is its own live part.
LEMMA LiveAll ==
  ASSUME NEW S
  PROVE  \A q \in Seq(S) : (\A k \in DOMAIN q : q[k].rem > 0) => LiveOrders(q) = q
<1> DEFINE A == {q \in Seq(S) :
                    (\A k \in DOMAIN q : q[k].rem > 0) => LiveOrders(q) = q}
<1>1. <<>> \in A
  BY LiveEmpty, EmptySeq
<1>2. ASSUME NEW q \in Seq(S), NEW x \in S, q \in A
      PROVE  Append(q, x) \in A
  <2> DEFINE Q == Append(q, x)
  <2>1. /\ Q \in Seq(S)
        /\ \A k \in DOMAIN q : k \in DOMAIN Q /\ Q[k] = q[k]
        /\ Q[Len(q) + 1] = x /\ Len(q) + 1 \in DOMAIN Q
    BY AppendProperties, LenProperties
  <2>2. LiveOrders(Q) = IF x.rem > 0 THEN Append(LiveOrders(q), x) ELSE LiveOrders(q)
    BY LiveAppend DEF WithLive
  <2>3. ASSUME \A k \in DOMAIN Q : Q[k].rem > 0
        PROVE  LiveOrders(Q) = Q
    <3>1. x.rem > 0 /\ \A k \in DOMAIN q : q[k].rem > 0
      <4> HIDE DEF Q
      <4> QED
        BY <2>1, <2>3
    <3> QED
      BY <1>2, <2>2, <3>1
  <2> QED
    BY <2>1, <2>3
<1>3. Seq(S) \subseteq A
  <2> HIDE DEF A
  <2> QED
    BY <1>1, <1>2, SequenceInduction
<1> QED
  BY <1>3

\* The live part of two queues one behind the other.
LEMMA LiveConcat ==
  ASSUME NEW S, NEW q \in Seq(S)
  PROVE  \A r \in Seq(S) : LiveOrders(q \o r) = LiveOrders(q) \o LiveOrders(r)
<1> DEFINE A == {r \in Seq(S) : LiveOrders(q \o r) = LiveOrders(q) \o LiveOrders(r)}
<1>q. LiveOrders(q) \in Seq(S)
  BY LiveType
<1>1. <<>> \in A
  <2>1. <<>> \in Seq(S) /\ q \o <<>> = q /\ LiveOrders(q) \o <<>> = LiveOrders(q)
    BY <1>q, EmptySeq, ConcatEmptySeq
  <2> QED
    BY <2>1, LiveEmpty
<1>2. ASSUME NEW r \in Seq(S), NEW x \in S, r \in A
      PROVE  Append(r, x) \in A
  <2>r. LiveOrders(r) \in Seq(S)
    BY LiveType
  <2>1. q \o Append(r, x) = Append(q \o r, x)
    BY SMT
  <2>2. LiveOrders(q) \o Append(LiveOrders(r), x) = Append(LiveOrders(q) \o LiveOrders(r), x)
    <3> DEFINE lq == LiveOrders(q)
               lr == LiveOrders(r)
    <3> HIDE DEF lq, lr
    <3>1. lq \in Seq(S) /\ lr \in Seq(S)
      BY <1>q, <2>r DEF lq, lr
    <3>2. lq \o Append(lr, x) = Append(lq \o lr, x)
      BY <3>1, SMT
    <3> QED
      BY <3>2 DEF lq, lr
  <2>3. q \o r \in Seq(S) /\ Append(r, x) \in Seq(S)
    BY ConcatProperties, AppendProperties
  <2>4. LiveOrders(Append(q \o r, x)) = WithLive(LiveOrders(q \o r), x)
    BY <2>3, LiveAppend
  <2>5. LiveOrders(Append(r, x)) = WithLive(LiveOrders(r), x)
    BY LiveAppend
  <2>6. LiveOrders(q \o r) = LiveOrders(q) \o LiveOrders(r)
    BY <1>2
  <2>7. LiveOrders(q \o Append(r, x)) = LiveOrders(q) \o LiveOrders(Append(r, x))
    <3>1. CASE x.rem > 0
      BY <2>1, <2>2, <2>4, <2>5, <2>6, <3>1 DEF WithLive
    <3>2. CASE ~(x.rem > 0)
      BY <2>1, <2>4, <2>5, <2>6, <3>2 DEF WithLive
    <3> QED
      BY <3>1, <3>2
  <2> QED
    BY <2>3, <2>7
<1>3. Seq(S) \subseteq A
  <2> HIDE DEF A
  <2> QED
    BY <1>1, <1>2, SequenceInduction
<1> QED
  BY <1>3

\* The live part of a queue of one order.
LEMMA LiveSingle ==
  ASSUME NEW S, NEW o \in S
  PROVE  LiveOrders(<<o>>) = IF o.rem > 0 THEN <<o>> ELSE <<>>
<1>1. <<>> \in Seq(S) /\ Append(<<>>, o) = <<o>>
  OBVIOUS
<1>2. LiveOrders(Append(<<>>, o)) = WithLive(LiveOrders(<<>>), o)
  BY <1>1, LiveAppend
<1> QED
  BY <1>1, <1>2, LiveEmpty DEF WithLive

\* The queue q is a, then its order at place i, then b.
Parted(S, q, i, a, b) ==
    /\ Len(a) = i - 1
    /\ q = a \o (<<q[i]>> \o b)
    /\ RemoveAt(q, i) = a \o b
    /\ \A o \in S : [q EXCEPT ![i] = o] = a \o (<<o>> \o b)

\* A queue around one of its orders, and with that order removed or changed.
LEMMA QueueParts ==
  ASSUME NEW S, NEW q \in Seq(S), NEW i \in DOMAIN q
  PROVE  \E a, b \in Seq(S) : Parted(S, q, i, a, b)
<1> DEFINE a == SubSeq(q, 1, i - 1)
           b == SubSeq(q, i + 1, Len(q))
           n == Len(q)
<1>1. n \in Nat /\ i \in 1 .. n /\ i \in Nat
  BY LenProperties
<1>2. /\ a \in Seq(S)
      /\ Len(a) = i - 1
      /\ \A k \in 1 .. i - 1 : a[k] = q[k]
  BY <1>1, SubSeqProperties
<1>3. /\ b \in Seq(S)
      /\ Len(b) = n - i
      /\ \A k \in 1 .. n - i : b[k] = q[i + k]
  BY <1>1, SubSeqProperties
<1>4. RemoveAt(q, i) = a \o b
  BY DEF RemoveAt
<1>n. n = Len(q)
  OBVIOUS
<1> HIDE DEF a, b, n
<1>5. ASSUME NEW o \in S
      PROVE  /\ a \o (<<o>> \o b) \in Seq(S)
             /\ Len(a \o (<<o>> \o b)) = n
             /\ \A k \in 1 .. n :
                    (a \o (<<o>> \o b))[k] = IF k = i THEN o ELSE q[k]
  <2> DEFINE ob == <<o>> \o b
             u == a \o ob
  <2>1. /\ ob \in Seq(S) /\ Len(ob) = (n - i) + 1
        /\ ob[1] = o
        /\ \A k \in 2 .. (n - i) + 1 : ob[k] = b[k - 1]
    BY <1>1, <1>3
  <2> HIDE DEF ob
  <2>2. /\ u \in Seq(S)
        /\ Len(u) = Len(a) + Len(ob)
        /\ \A k \in 1 .. Len(a) + Len(ob) :
               u[k] = IF k <= Len(a) THEN a[k] ELSE ob[k - Len(a)]
    BY <1>2, <2>1, ConcatProperties
  <2> HIDE DEF u
  <2>3. Len(u) = n /\ Len(a) + Len(ob) = n
    <3>1. Len(a) = i - 1 /\ Len(ob) = (n - i) + 1 /\ i \in Nat
      BY <1>1, <1>2, <2>1
    <3>2. Len(a) + Len(ob) = n
      BY ONLY <1>1, <3>1
    <3> QED
      BY <2>2, <3>2
  <2>4. \A k \in 1 .. n :
            u[k] = IF k <= i - 1 THEN a[k] ELSE ob[k - (i - 1)]
    BY <1>2, <2>2, <2>3, Zenon
  <2>5. ASSUME NEW k \in 1 .. n
        PROVE  u[k] = IF k = i THEN o ELSE q[k]
    <3>1. CASE k < i
      <4>1. k <= i - 1 /\ k \in 1 .. i - 1 /\ k # i
        BY <1>1, <3>1
      <4> QED
        BY <1>2, <2>4, <4>1
    <3>2. CASE k = i
      <4>1. ~(k <= i - 1) /\ k - (i - 1) = 1
        BY <1>1, <3>2
      <4> QED
        BY <2>1, <2>4, <3>2, <4>1
    <3>3. CASE k > i
      <4> DEFINE m == k - (i - 1)
      <4>1. /\ ~(k <= i - 1) /\ m \in 2 .. (n - i) + 1
            /\ m - 1 \in 1 .. n - i
            /\ i + (m - 1) = k
            /\ k # i
        BY <1>1, <3>3
      <4>2. u[k] = ob[m]
        BY <2>4, <4>1
      <4> HIDE DEF m
      <4>3. u[k] = b[m - 1]
        BY <2>1, <4>1, <4>2
      <4> QED
        BY <1>3, <4>1, <4>3
    <3> QED
      BY <1>1, <3>1, <3>2, <3>3
  <2> QED
    BY <2>2, <2>3, <2>5 DEF u, ob
<1>6. ASSUME NEW o \in S
      PROVE  [q EXCEPT ![i] = o] = a \o (<<o>> \o b)
  <2> DEFINE u == a \o (<<o>> \o b)
             v == [q EXCEPT ![i] = o]
  <2>1. /\ v \in Seq(S) /\ Len(v) = n
        /\ \A k \in 1 .. n : v[k] = IF k = i THEN o ELSE q[k]
    BY <1>1, <1>n, ExceptSeq, LenProperties
  <2>2. u \in Seq(S) /\ Len(u) = n
        /\ \A k \in 1 .. n : u[k] = IF k = i THEN o ELSE q[k]
    BY <1>5
  <2> HIDE DEF u, v
  <2>3. u = v
    BY <1>n, <2>1, <2>2, SeqEqual
  <2> QED
    BY <2>3 DEF u, v
<1>7. q = a \o (<<q[i]>> \o b)
  <2>1. q[i] \in S
    BY <1>1, <1>n, ElementOfSeq
  <2>2. [q EXCEPT ![i] = q[i]] = q
    BY <1>1
  <2> QED
    BY <1>6, <2>1, <2>2
<1>8. Parted(S, q, i, a, b)
  BY <1>2, <1>4, <1>6, <1>7 DEF Parted
<1> QED
  BY <1>2, <1>3, <1>8

\* The places around an order in a queue.
IsAround(S, u, a, x, b, m) ==
    /\ u \in Seq(S)
    /\ Len(u) = (m + 1) + Len(b)
    /\ m + 1 \in DOMAIN u
    /\ \A k \in 1 .. m : u[k] = a[k]
    /\ u[m + 1] = x
    /\ \A k \in 1 .. Len(b) : u[(m + 1) + k] = b[k]

\* What stands where in the queue of a, then x, then b.
LEMMA Around ==
  ASSUME NEW S, NEW a \in Seq(S), NEW b \in Seq(S), NEW x \in S,
         NEW m \in Nat, m = Len(a)
  PROVE  IsAround(S, a \o (<<x>> \o b), a, x, b, m)
<1> DEFINE xb == <<x>> \o b
           u == a \o xb
           n == Len(b)
<1>1. /\ xb \in Seq(S) /\ Len(xb) = n + 1 /\ xb[1] = x
      /\ \A k \in 2 .. n + 1 : xb[k] = b[k - 1]
      /\ n \in Nat
  BY LenProperties
<1> HIDE DEF xb, n
<1>2. /\ u \in Seq(S)
      /\ Len(u) = m + Len(xb)
      /\ \A k \in 1 .. m + Len(xb) : u[k] = IF k <= m THEN a[k] ELSE xb[k - m]
  BY <1>1, ConcatProperties
<1> HIDE DEF u
<1>3. Len(u) = (m + 1) + n
      /\ \A k \in 1 .. (m + 1) + n : u[k] = IF k <= m THEN a[k] ELSE xb[k - m]
  <2>1. m + Len(xb) = (m + 1) + n
    BY <1>1
  <2> QED
    BY <1>2, <2>1
<1>4. m + 1 \in DOMAIN u
  BY <1>1, <1>2, <1>3, LenProperties
<1>5. \A k \in 1 .. m : u[k] = a[k]
  BY <1>1, <1>3
<1>6. u[m + 1] = x
  <2>1. m + 1 \in 1 .. (m + 1) + n /\ ~(m + 1 <= m) /\ (m + 1) - m = 1
    BY <1>1
  <2> QED
    BY <1>1, <1>3, <2>1
<1>7. ASSUME NEW k \in 1 .. n
      PROVE  u[(m + 1) + k] = b[k]
  <2> DEFINE c == (m + 1) + k
  <2>1. c \in 1 .. (m + 1) + n /\ ~(c <= m) /\ c - m = k + 1 /\ k + 1 \in 2 .. n + 1
        /\ (k + 1) - 1 = k
    BY <1>1
  <2> HIDE DEF c
  <2>2. u[c] = xb[k + 1]
    BY <1>3, <2>1
  <2>3. xb[k + 1] = b[k]
    BY <1>1, <2>1
  <2> QED
    BY <2>2, <2>3 DEF c
<1> QED
  BY <1>2, <1>3, <1>4, <1>5, <1>6, <1>7 DEF u, xb, n, IsAround

\* The queue of a, then x, then b.
Between(a, x, b) == a \o (<<x>> \o b)

\* The parts of a queue are determined by the place they leave out.
LEMMA PartsUnique ==
  ASSUME NEW S, NEW a \in Seq(S), NEW b \in Seq(S), NEW c \in Seq(S),
         NEW d \in Seq(S), NEW x \in S, Len(a) = Len(c),
         Between(a, x, b) = Between(c, x, d)
  PROVE  a = c /\ b = d
<1> DEFINE m == Len(a)
           n == Len(b)
           ld == Len(d)
           u == Between(a, x, b)
<1>0. m \in Nat /\ n \in Nat /\ ld \in Nat /\ m = Len(c)
  BY LenProperties
<1>a. IsAround(S, u, a, x, b, m)
  BY <1>0, Around DEF Between
<1>u. u = Between(c, x, d)
  OBVIOUS
<1> HIDE DEF u
<1>c. IsAround(S, u, c, x, d, m)
  <2> HIDE DEF m
  <2> QED
    BY <1>0, <1>u, Around DEF Between
<1>1. /\ Len(u) = (m + 1) + n
      /\ \A k \in 1 .. m : u[k] = a[k]
      /\ \A k \in 1 .. n : u[(m + 1) + k] = b[k]
  BY <1>a DEF IsAround
<1>2. /\ Len(u) = (m + 1) + ld
      /\ \A k \in 1 .. m : u[k] = c[k]
      /\ \A k \in 1 .. ld : u[(m + 1) + k] = d[k]
  BY <1>c DEF IsAround
<1>3. a = c
  BY <1>1, <1>2, SeqEqual
<1>4. n = ld
  <2> HIDE DEF ld, m, n
  <2> QED
    BY <1>0, <1>1, <1>2
<1>5. b = d
  BY <1>1, <1>2, <1>4, SeqEqual
<1> QED
  BY <1>3, <1>5

\* A live order of a queue keeps a place of its own in the live part: erasing
\* it there is erasing it in the queue, and so is changing it.
LEMMA LivePlace ==
  ASSUME NEW S, NEW q \in Seq(S), NEW i \in DOMAIN q, q[i].rem > 0
  PROVE  \E j \in DOMAIN LiveOrders(q) :
            /\ LiveOrders(q)[j] = q[i]
            /\ LiveOrders(RemoveAt(q, i)) = RemoveAt(LiveOrders(q), j)
            /\ \A o \in S : o.rem > 0 =>
                   LiveOrders([q EXCEPT ![i] = o]) = [LiveOrders(q) EXCEPT ![j] = o]
<1>p. PICK a, b \in Seq(S) : Parted(S, q, i, a, b)
  BY QueueParts
<1>1. /\ q = a \o (<<q[i]>> \o b)
      /\ RemoveAt(q, i) = a \o b
      /\ \A o \in S : [q EXCEPT ![i] = o] = a \o (<<o>> \o b)
  BY <1>p DEF Parted
<1> DEFINE la == LiveOrders(a)
           lb == LiveOrders(b)
           j == Len(la) + 1
<1>2. la \in Seq(S) /\ lb \in Seq(S)
  BY LiveType
<1>3. LiveOrders(a \o b) = la \o lb
  BY LiveConcat
<1>4. ASSUME NEW o \in S, o.rem > 0
      PROVE  LiveOrders(a \o (<<o>> \o b)) = la \o (<<o>> \o lb)
  <2>1. <<o>> \in Seq(S)
    OBVIOUS
  <2>2. <<o>> \o b \in Seq(S)
    BY <2>1, ConcatProperties
  <2>3. LiveOrders(a \o (<<o>> \o b)) = la \o LiveOrders(<<o>> \o b)
    BY <2>2, LiveConcat
  <2>4. LiveOrders(<<o>> \o b) = LiveOrders(<<o>>) \o lb
    BY <2>1, LiveConcat
  <2>5. LiveOrders(<<o>>) = <<o>>
    BY <1>4, LiveSingle
  <2> QED
    BY <2>3, <2>4, <2>5
<1> HIDE DEF la, lb
<1>5. q[i] \in S
  BY LenProperties, ElementOfSeq
<1>6. LiveOrders(q) = la \o (<<q[i]>> \o lb)
  BY <1>1, <1>4, <1>5
<1> DEFINE l == LiveOrders(q)
           x == q[i]
<1>j. Len(la) \in Nat
  BY <1>2, LenProperties
<1>7. la \o (<<x>> \o lb) \in Seq(S) /\ j \in DOMAIN (la \o (<<x>> \o lb))
      /\ (la \o (<<x>> \o lb))[j] = x
  BY <1>2, <1>5, <1>j, Around DEF IsAround
<1>8. l \in Seq(S) /\ j \in DOMAIN l /\ l[j] = x
  BY <1>6, <1>7
<1> HIDE DEF l, x
<1>9. PICK c, d \in Seq(S) : Parted(S, l, j, c, d)
  BY <1>8, QueueParts
<1>10. c = la /\ d = lb
  <2>1. l = c \o (<<x>> \o d) /\ Len(c) = j - 1
    BY <1>8, <1>9 DEF Parted
  <2>2. Len(c) = Len(la)
    BY <1>j, <2>1
  <2>3. l = la \o (<<x>> \o lb) /\ x \in S
    BY <1>5, <1>6 DEF l, x
  <2> QED
    <3>1. Between(c, x, d) = Between(la, x, lb)
      BY <2>1, <2>3 DEF Between
    <3> QED
      BY <1>2, <2>2, <2>3, <3>1, PartsUnique
<1>11. LiveOrders(RemoveAt(q, i)) = RemoveAt(l, j)
  BY <1>1, <1>3, <1>9, <1>10 DEF la, lb, Parted
<1>12. ASSUME NEW o \in S, o.rem > 0
       PROVE  LiveOrders([q EXCEPT ![i] = o]) = [l EXCEPT ![j] = o]
  <2>1. LiveOrders([q EXCEPT ![i] = o]) = la \o (<<o>> \o lb)
    BY <1>1, <1>4, <1>12
  <2>2. [l EXCEPT ![j] = o] = la \o (<<o>> \o lb)
    BY <1>9, <1>10 DEF Parted
  <2> QED
    BY <2>1, <2>2
<1> QED
  BY <1>8, <1>11, <1>12 DEF l, x

\* An order with nothing left makes no difference to the live part.
LEMMA DeadPlace ==
  ASSUME NEW S, NEW q \in Seq(S), NEW i \in DOMAIN q
  PROVE  /\ ~(q[i].rem > 0) => LiveOrders(RemoveAt(q, i)) = LiveOrders(q)
         /\ \A o \in S : ~(o.rem > 0) =>
                LiveOrders([q EXCEPT ![i] = o]) = LiveOrders(RemoveAt(q, i))
<1>p. PICK a, b \in Seq(S) : Parted(S, q, i, a, b)
  BY QueueParts
<1>1. /\ q = a \o (<<q[i]>> \o b)
      /\ RemoveAt(q, i) = a \o b
      /\ \A o \in S : [q EXCEPT ![i] = o] = a \o (<<o>> \o b)
  BY <1>p DEF Parted
<1>2. ASSUME NEW o \in S, ~(o.rem > 0)
      PROVE  LiveOrders(a \o (<<o>> \o b)) = LiveOrders(a \o b)
  <2>1. <<o>> \in Seq(S)
    OBVIOUS
  <2>2. <<o>> \o b \in Seq(S)
    BY <2>1, ConcatProperties
  <2>3. LiveOrders(a \o (<<o>> \o b)) = LiveOrders(a) \o LiveOrders(<<o>> \o b)
    BY <2>2, LiveConcat
  <2>4. LiveOrders(<<o>> \o b) = LiveOrders(<<o>>) \o LiveOrders(b)
    BY <2>1, LiveConcat
  <2>5. LiveOrders(<<o>>) = <<>>
    BY <1>2, LiveSingle
  <2>6. <<>> \o LiveOrders(b) = LiveOrders(b)
    BY LiveType, ConcatEmptySeq
  <2>7. LiveOrders(a \o b) = LiveOrders(a) \o LiveOrders(b)
    BY LiveConcat
  <2> QED
    BY <2>3, <2>4, <2>5, <2>6, <2>7
<1>3. q[i] \in S
  BY LenProperties, ElementOfSeq
<1> QED
  BY <1>1, <1>2, <1>3

-----------------------------------------------------------------------------
(* What one record does to the state of replay *)

\* What the journal writes for an accepted order, a cancel and a trade.
NewOrderRecord ==
    {r \in [kind : {"NEW_ORDER"}, seq : Nat, id : OrderIds, trader : Traders,
            side : Sides, price : {doubleToTicks(p) : p \in Prices},
            qty : Quantities, rem : Quantities, type : {"LIMIT"},
            prio : Nat] : r.rem <= r.qty /\ r.prio < PriorityMax}

CancelRecord == [kind : {"CANCEL_ORDER"}, seq : Nat, id : OrderIds, rem : Nat]

FillRecord == [kind : {"FILL"}, seq : Nat, id : OrderIds, qty : Quantities]

Records == NewOrderRecord \cup CancelRecord \cup FillRecord

\* The state of replay.
ReplayState ==
    [ok : BOOLEAN, book : BookType, lastSequence : Nat, first : BOOLEAN,
     maxPriority : Nat, newOrders : Nat]

\* The book b with the queue q at (side, p).
WithQueue(b, side, p, q) == [b EXCEPT ![side][p] = q]

\* The state s after the record r, with the book b.
AfterRecord(s, r, b) ==
    [s EXCEPT !.first = FALSE, !.lastSequence = r.seq, !.book = b]

\* The order a NEW_ORDER record stands for.
OrderOf(r) ==
    [id |-> r.id, trader |-> r.trader, side |-> r.side, type |-> r.type,
     price |-> TicksToPrice(r.price), qty |-> r.qty, rem |-> r.rem,
     prio |-> r.prio]

\* The order o when n more of it has traded.
Filled(o, n) == [o EXCEPT !.rem = @ - n]

\* replay takes the record.
Takes(s, r) == s.ok /\ validateSequence(s, r)

\* restoreOrder makes an order of the book from a NEW_ORDER record.
LEMMA OrderOfType ==
  ASSUME WholeTicks, NEW r \in NewOrderRecord
  PROVE  /\ OrderOf(r) \in RestingOrder
         /\ OrderOf(r).price \in Prices /\ OrderOf(r).price > 0
         /\ OrderOf(r).side \in Sides
         /\ OrderOf(r).rem > 0
         /\ OrderOf(r).id = r.id /\ OrderOf(r).prio = r.prio
<1>1. PICK p \in Prices : r.price = doubleToTicks(p)
  BY DEF NewOrderRecord
<1>2. TicksToPrice(r.price) = p /\ p \in Nat /\ p > 0
  BY <1>1, BookAssumption DEF WholeTicks
<1>3. /\ r.id \in OrderIds /\ r.trader \in Traders /\ r.side \in Sides
      /\ r.qty \in Quantities /\ r.rem \in Quantities /\ r.rem <= r.qty
      /\ r.type = "LIMIT" /\ r.prio \in Nat
  BY DEF NewOrderRecord
<1> QED
  BY <1>2, <1>3, BookAssumption DEF OrderOf, RestingOrder, Order, Quantities, Types

\* A place of the book with this id.
LEMMA EntriesOfPlace ==
  ASSUME NEW b, NEW id, NEW e
  PROVE  e \in EntriesOf(b, id) <=>
            \E side \in Sides, p \in Prices : \E i \in DOMAIN b[side][p] :
                e = <<side, p, i>> /\ b[side][p][i].id = id
<1>1. ASSUME e \in EntriesOf(b, id)
      PROVE  \E side \in Sides, p \in Prices : \E i \in DOMAIN b[side][p] :
                e = <<side, p, i>> /\ b[side][p][i].id = id
  <2>1. e \in Entries(b) /\ b[e[1]][e[2]][e[3]].id = id
    BY <1>1 DEF EntriesOf
  <2> QED
    BY <2>1, PlaceFields
<1>2. ASSUME NEW side \in Sides, NEW p \in Prices, NEW i \in DOMAIN b[side][p],
             e = <<side, p, i>>, b[side][p][i].id = id
      PROVE  e \in EntriesOf(b, id)
  <2>1. e \in Entries(b)
    BY <1>2, PlaceOfEntry
  <2>2. e[1] = side /\ e[2] = p /\ e[3] = i
    BY <1>2
  <2> QED
    BY <1>2, <2>1, <2>2 DEF EntriesOf
<1> QED
  BY <1>1, <1>2

\* restoreCancel erases an entry with the record's id.
LEMMA CancelOutcome ==
  ASSUME NEW s \in ReplayState, NEW r \in CancelRecord, Takes(s, r),
         EntriesOf(s.book, r.id) # {}
  PROVE  \E side \in Sides, p \in Prices : \E i \in DOMAIN s.book[side][p] :
            /\ s.book[side][p][i].id = r.id
            /\ processRecord(s, r) =
                   AfterRecord(s, r, WithQueue(s.book, side, p,
                                               RemoveAt(s.book[side][p], i)))
<1> DEFINE t == [s EXCEPT !.first = FALSE, !.lastSequence = r.seq]
           e == CHOOSE e \in EntriesOf(s.book, r.id) : TRUE
<1>1. processRecord(s, r) = restoreCancel(t, r)
  BY DEF processRecord, CancelRecord, Takes
<1>2. t.book = s.book
  BY DEF ReplayState
<1>3. restoreCancel(t, r) = [t EXCEPT !.book[e[1]][e[2]] = RemoveAt(@, e[3])]
  BY <1>2 DEF restoreCancel
<1>4. e \in EntriesOf(s.book, r.id)
  OBVIOUS
<1> HIDE DEF e
<1>5. PICK side \in Sides, p \in Prices : \E i \in DOMAIN s.book[side][p] :
          e = <<side, p, i>> /\ s.book[side][p][i].id = r.id
  BY <1>4, EntriesOfPlace
<1>6. PICK i \in DOMAIN s.book[side][p] :
          e = <<side, p, i>> /\ s.book[side][p][i].id = r.id
  BY <1>5
<1>7. e[1] = side /\ e[2] = p /\ e[3] = i
  BY <1>6
<1>8. restoreCancel(t, r) = [t EXCEPT !.book[side][p] = RemoveAt(@, i)]
  BY <1>3, <1>7
<1>9. [t EXCEPT !.book[side][p] = RemoveAt(@, i)] =
          AfterRecord(s, r, WithQueue(s.book, side, p, RemoveAt(s.book[side][p], i)))
  BY DEF AfterRecord, WithQueue, ReplayState
<1> QED
  BY <1>1, <1>6, <1>8, <1>9

\* What applyFill makes of a queue q whose order at place i trades n.
FilledQueue(q, i, n) ==
    IF q[i].rem = n THEN RemoveAt(q, i) ELSE [q EXCEPT ![i] = Filled(q[i], n)]

\* applyFill takes what was traded from an entry with the record's id.
LEMMA FillOutcome ==
  ASSUME NEW s \in ReplayState, NEW r \in FillRecord, Takes(s, r),
         \E e \in EntriesOf(s.book, r.id) : s.book[e[1]][e[2]][e[3]].rem >= r.qty
  PROVE  \E side \in Sides, p \in Prices : \E i \in DOMAIN s.book[side][p] :
            /\ s.book[side][p][i].id = r.id
            /\ processRecord(s, r) =
                   AfterRecord(s, r, WithQueue(s.book, side, p,
                                       FilledQueue(s.book[side][p], i, r.qty)))
<1> DEFINE t == [s EXCEPT !.first = FALSE, !.lastSequence = r.seq]
           e == CHOOSE e \in EntriesOf(s.book, r.id) : TRUE
<1>1. processRecord(s, r) = applyFill(t, r)
  BY DEF processRecord, FillRecord, Takes
<1>2. t.book = s.book
  BY DEF ReplayState
<1>3. applyFill(t, r) = IF s.book[e[1]][e[2]][e[3]].rem = r.qty
             THEN [t EXCEPT !.book[e[1]][e[2]] = RemoveAt(@, e[3])]
             ELSE [t EXCEPT !.book[e[1]][e[2]][e[3]].rem = @ - r.qty]
  BY <1>2 DEF applyFill
<1>4. e \in EntriesOf(s.book, r.id)
  OBVIOUS
<1> HIDE DEF e
<1>5. PICK side \in Sides, p \in Prices : \E i \in DOMAIN s.book[side][p] :
          e = <<side, p, i>> /\ s.book[side][p][i].id = r.id
  BY <1>4, EntriesOfPlace
<1>6. PICK i \in DOMAIN s.book[side][p] :
          e = <<side, p, i>> /\ s.book[side][p][i].id = r.id
  BY <1>5
<1>7. e[1] = side /\ e[2] = p /\ e[3] = i
  BY <1>6
<1>8. applyFill(t, r) = IF s.book[side][p][i].rem = r.qty
             THEN [t EXCEPT !.book[side][p] = RemoveAt(@, i)]
             ELSE [t EXCEPT !.book[side][p][i].rem = @ - r.qty]
  BY <1>3, <1>7
<1>9. [t EXCEPT !.book[side][p] = RemoveAt(@, i)] =
          AfterRecord(s, r, WithQueue(s.book, side, p, RemoveAt(s.book[side][p], i)))
  BY DEF AfterRecord, WithQueue, ReplayState
<1>10. [t EXCEPT !.book[side][p][i].rem = @ - r.qty] =
          AfterRecord(s, r, WithQueue(s.book, side, p,
              [s.book[side][p] EXCEPT ![i] = Filled(s.book[side][p][i], r.qty)]))
  BY DEF AfterRecord, WithQueue, ReplayState, Filled
<1>11. applyFill(t, r) = AfterRecord(s, r, WithQueue(s.book, side, p,
                                       FilledQueue(s.book[side][p], i, r.qty)))
  BY <1>8, <1>9, <1>10 DEF FilledQueue
<1> QED
  BY <1>1, <1>6, <1>11

\* restoreOrder appends the order and remembers its priority.
Restored(s, r) ==
    [AfterRecord(s, r, WithQueue(s.book, OrderOf(r).side, OrderOf(r).price,
                           Append(s.book[OrderOf(r).side][OrderOf(r).price],
                                  OrderOf(r))))
     EXCEPT !.maxPriority = r.prio, !.newOrders = @ + 1]

\* restoreOrder takes a record whose priority is new, whose id is not in the
\* book and for which the pool has a slot.
LEMMA NewOutcome ==
  ASSUME WholeTicks, NEW s \in ReplayState, NEW r \in NewOrderRecord, Takes(s, r),
         validatePrioritySequence(s, r), EntriesOf(s.book, r.id) = {},
         Cardinality(Entries(s.book)) < PoolCapacity
  PROVE  processRecord(s, r) = Restored(s, r)
<1> DEFINE t == [s EXCEPT !.first = FALSE, !.lastSequence = r.seq]
           o == OrderOf(r)
<1>1. processRecord(s, r) = restoreOrder(t, r)
  BY DEF processRecord, NewOrderRecord, Takes
<1>2. t.book = s.book /\ t.newOrders = s.newOrders /\ t.maxPriority = s.maxPriority
  BY DEF ReplayState
<1>3. r.type = "LIMIT" /\ r.rem \in 1 .. r.qty
  BY BookAssumption DEF NewOrderRecord, Quantities
<1>4. validatePrioritySequence(t, r)
  BY <1>2 DEF validatePrioritySequence
<1>5. o.price > 0
  BY OrderOfType
<1>6. restoreOrder(t, r) = [t EXCEPT !.book[o.side][o.price] = Append(@, o),
                       !.maxPriority = r.prio, !.newOrders = @ + 1]
  BY <1>2, <1>3, <1>4, <1>5 DEF restoreOrder, OrderOf
<1> HIDE DEF o
<1>7. [t EXCEPT !.book[o.side][o.price] = Append(@, o),
                       !.maxPriority = r.prio, !.newOrders = @ + 1]
      = [AfterRecord(s, r, WithQueue(s.book, o.side, o.price,
                                     Append(s.book[o.side][o.price], o)))
         EXCEPT !.maxPriority = r.prio, !.newOrders = @ + 1]
  BY DEF AfterRecord, WithQueue, ReplayState
<1> QED
  BY <1>1, <1>6, <1>7 DEF Restored, o

\* A record that replay refuses leaves the book alone.
Refused(s, t) ==
    /\ t \in ReplayState
    /\ t.book = s.book /\ t.maxPriority = s.maxPriority
    /\ t.newOrders = s.newOrders

\* processRecord refuses a record, or one of the three handlers can apply it.
LEMMA RefusedOutcome ==
  ASSUME NEW s \in ReplayState, NEW r \in Records
  PROVE  \/ Refused(s, processRecord(s, r))
         \/ /\ Takes(s, r)
            /\ \/ r \in CancelRecord /\ EntriesOf(s.book, r.id) # {}
               \/ /\ r \in FillRecord
                  /\ \E e \in EntriesOf(s.book, r.id) :
                         s.book[e[1]][e[2]][e[3]].rem >= r.qty
               \/ /\ r \in NewOrderRecord
                  /\ validatePrioritySequence(s, r)
                  /\ EntriesOf(s.book, r.id) = {}
                  /\ Cardinality(Entries(s.book)) < PoolCapacity
<1> DEFINE t == [s EXCEPT !.first = FALSE, !.lastSequence = r.seq]
<1>0. r.seq \in Nat
  BY DEF Records, NewOrderRecord, CancelRecord, FillRecord
<1>1. CASE ~s.ok
  <2>1. processRecord(s, r) = s
    BY <1>1 DEF processRecord
  <2> QED
    BY <2>1 DEF Refused
<1>2. CASE s.ok /\ ~validateSequence(s, r)
  <2>1. processRecord(s, r) = [s EXCEPT !.ok = FALSE]
    BY <1>2 DEF processRecord
  <2> QED
    BY <2>1 DEF Refused, ReplayState
<1>3. CASE Takes(s, r)
  <2>0. /\ t \in ReplayState /\ t.book = s.book /\ t.maxPriority = s.maxPriority
        /\ t.newOrders = s.newOrders
    BY <1>0 DEF ReplayState
  <2>r. Refused(s, [t EXCEPT !.ok = FALSE])
    <3> HIDE DEF t
    <3> QED
      BY <2>0 DEF ReplayState, Refused
  <2>1. CASE r \in CancelRecord
    <3>1. processRecord(s, r) = restoreCancel(t, r)
      BY <1>3, <2>1 DEF processRecord, CancelRecord, Takes
    <3>2. CASE EntriesOf(s.book, r.id) = {}
      <4>1. restoreCancel(t, r) = [t EXCEPT !.ok = FALSE]
        BY <2>0, <3>2 DEF restoreCancel
      <4> QED
        BY <2>r, <3>1, <4>1
    <3> QED
      BY <1>3, <2>1, <3>2
  <2>2. CASE r \in FillRecord
    <3>1. processRecord(s, r) = applyFill(t, r)
      BY <1>3, <2>2 DEF processRecord, FillRecord, Takes
    <3>2. CASE ~\E e \in EntriesOf(s.book, r.id) :
                   s.book[e[1]][e[2]][e[3]].rem >= r.qty
      <4>1. applyFill(t, r) = [t EXCEPT !.ok = FALSE]
        BY <2>0, <3>2 DEF applyFill
      <4> QED
        BY <2>r, <3>1, <4>1
    <3> QED
      BY <1>3, <2>2, <3>2
  <2>3. CASE r \in NewOrderRecord
    <3>1. processRecord(s, r) = restoreOrder(t, r)
      BY <1>3, <2>3 DEF processRecord, NewOrderRecord, Takes
    <3>2. CASE ~(/\ validatePrioritySequence(s, r)
                 /\ EntriesOf(s.book, r.id) = {}
                 /\ Cardinality(Entries(s.book)) < PoolCapacity)
      <4>1. validatePrioritySequence(s, r) = validatePrioritySequence(t, r)
        BY <2>0 DEF validatePrioritySequence
      <4>2. restoreOrder(t, r) = [t EXCEPT !.ok = FALSE]
        <5> HIDE DEF t
        <5> QED
          BY <2>0, <3>2, <4>1 DEF restoreOrder
      <4> QED
        BY <2>r, <3>1, <4>2
    <3> QED
      BY <1>3, <2>3, <3>2
  <2> QED
    BY <2>1, <2>2, <2>3 DEF Records
<1> QED
  BY <1>1, <1>2, <1>3 DEF Takes

-----------------------------------------------------------------------------
(* Every book replay builds is well formed, whatever is in the file *)

\* No two orders of the book b share an id or a priority.
NoClashIn(b) ==
    \A s1, s2 \in Sides, r1, r2 \in Prices :
        \A i \in DOMAIN b[s1][r1], j \in DOMAIN b[s2][r2] :
            Clash(b[s1][r1][i], b[s2][r2][j]) => s1 = s2 /\ r1 = r2 /\ i = j

\* The orders of r are orders of q, each at a place of its own.
DrawnFrom(q, r) ==
    \E f \in [DOMAIN r -> DOMAIN q] :
        /\ \A i, j \in DOMAIN r : f[i] = f[j] => i = j
        /\ \A i \in DOMAIN r : r[i].id = q[f[i]].id /\ r[i].prio = q[f[i]].prio

\* Setting one queue of a book leaves the others alone.
LEMMA WithQueueType ==
  ASSUME NEW b \in BookType, NEW side \in Sides, NEW p \in Prices,
         NEW q \in Seq(RestingOrder)
  PROVE  /\ WithQueue(b, side, p, q) \in BookType
         /\ \A s \in Sides, r \in Prices :
                WithQueue(b, side, p, q)[s][r] =
                    IF s = side /\ r = p THEN q ELSE b[s][r]
  BY LevelUpdate DEF WithQueue

\* A queue that only lost orders brings no two orders together.
LEMMA DrawnNoClash ==
  ASSUME NEW b \in BookType, NoClashIn(b), NEW side \in Sides, NEW p \in Prices,
         NEW q \in Seq(RestingOrder), DrawnFrom(b[side][p], q)
  PROVE  NoClashIn(WithQueue(b, side, p, q))
<1> DEFINE c == WithQueue(b, side, p, q)
<1>1. \A s \in Sides, r \in Prices :
          c[s][r] = IF s = side /\ r = p THEN q ELSE b[s][r]
  BY WithQueueType
<1>2. PICK f \in [DOMAIN q -> DOMAIN b[side][p]] :
        /\ \A i, j \in DOMAIN q : f[i] = f[j] => i = j
        /\ \A i \in DOMAIN q : /\ q[i].id = b[side][p][f[i]].id
                               /\ q[i].prio = b[side][p][f[i]].prio
  BY DEF DrawnFrom
<1> DEFINE g(s, r, i) == IF s = side /\ r = p THEN f[i] ELSE i
<1> HIDE DEF c
<1>3. ASSUME NEW s \in Sides, NEW r \in Prices, NEW i \in DOMAIN c[s][r]
      PROVE  /\ g(s, r, i) \in DOMAIN b[s][r]
             /\ c[s][r][i].id = b[s][r][g(s, r, i)].id
             /\ c[s][r][i].prio = b[s][r][g(s, r, i)].prio
  <2>1. CASE s = side /\ r = p
    BY <1>1, <1>2, <2>1
  <2>2. CASE ~(s = side /\ r = p)
    BY <1>1, <2>2
  <2> QED
    BY <2>1, <2>2
<1>4. ASSUME NEW s \in Sides, NEW r \in Prices, NEW i \in DOMAIN c[s][r],
             NEW j \in DOMAIN c[s][r], g(s, r, i) = g(s, r, j)
      PROVE  i = j
  <2>1. CASE s = side /\ r = p
    BY <1>1, <1>2, <1>4, <2>1
  <2>2. CASE ~(s = side /\ r = p)
    BY <1>4, <2>2
  <2> QED
    BY <2>1, <2>2
<1> HIDE DEF g
<1> SUFFICES ASSUME NEW s1 \in Sides, NEW s2 \in Sides,
                    NEW r1 \in Prices, NEW r2 \in Prices,
                    NEW i \in DOMAIN c[s1][r1], NEW j \in DOMAIN c[s2][r2],
                    Clash(c[s1][r1][i], c[s2][r2][j])
             PROVE  s1 = s2 /\ r1 = r2 /\ i = j
  BY DEF NoClashIn, c
<1>5. Clash(b[s1][r1][g(s1, r1, i)], b[s2][r2][g(s2, r2, j)])
  BY <1>3 DEF Clash
<1>6. s1 = s2 /\ r1 = r2 /\ g(s1, r1, i) = g(s2, r2, j)
  BY <1>3, <1>5 DEF NoClashIn
<1> QED
  BY <1>4, <1>6

\* Erasing an order from a queue only loses that order.
LEMMA DrawnByRemove ==
  ASSUME NEW q \in Seq(RestingOrder), NEW k \in DOMAIN q
  PROVE  /\ RemoveAt(q, k) \in Seq(RestingOrder)
         /\ DrawnFrom(q, RemoveAt(q, k))
         /\ \A i \in DOMAIN RemoveAt(q, k) :
                \E j \in DOMAIN q : RemoveAt(q, k)[i] = q[j]
<1> DEFINE r == RemoveAt(q, k)
           f == [i \in DOMAIN r |-> IF i < k THEN i ELSE i + 1]
<1>1. Len(q) \in Nat /\ DOMAIN q = 1 .. Len(q) /\ k \in 1 .. Len(q)
  BY LenProperties
<1>2. /\ r \in Seq(RestingOrder)
      /\ Len(r) = Len(q) - 1
      /\ \A i \in 1 .. Len(q) - 1 : r[i] = IF i < k THEN q[i] ELSE q[i + 1]
  BY RemoveAtProperties
<1>3. DOMAIN r = 1 .. Len(q) - 1
  BY <1>2, LenProperties
<1> HIDE DEF r
<1>4. f \in [DOMAIN r -> DOMAIN q]
  BY <1>1, <1>3
<1>5. \A i, j \in DOMAIN r : f[i] = f[j] => i = j
  BY <1>1, <1>3
<1>6. \A i \in DOMAIN r : r[i] = q[f[i]]
  BY <1>1, <1>2, <1>3
<1> HIDE DEF f
<1>7. DrawnFrom(q, r)
  BY <1>4, <1>5, <1>6 DEF DrawnFrom
<1>8. \A i \in DOMAIN r : \E j \in DOMAIN q : r[i] = q[j]
  BY <1>4, <1>6
<1> QED
  BY <1>2, <1>7, <1>8 DEF r

\* An order that changes but for its id and its priority keeps its place.
LEMMA DrawnByChange ==
  ASSUME NEW q \in Seq(RestingOrder), NEW k \in DOMAIN q, NEW o \in RestingOrder,
         o.id = q[k].id, o.prio = q[k].prio
  PROVE  /\ [q EXCEPT ![k] = o] \in Seq(RestingOrder)
         /\ DrawnFrom(q, [q EXCEPT ![k] = o])
         /\ \A i \in DOMAIN [q EXCEPT ![k] = o] :
                /\ i \in DOMAIN q
                /\ [q EXCEPT ![k] = o][i] = IF i = k THEN o ELSE q[i]
<1> DEFINE r == [q EXCEPT ![k] = o]
           f == [i \in DOMAIN r |-> i]
<1>1. r \in Seq(RestingOrder)
  BY LenProperties, ExceptSeq
<1>2. DOMAIN r = DOMAIN q /\ \A i \in DOMAIN q : r[i] = IF i = k THEN o ELSE q[i]
  OBVIOUS
<1> HIDE DEF r
<1>3. f \in [DOMAIN r -> DOMAIN q] /\ \A i \in DOMAIN r : f[i] = i
  BY <1>2
<1> HIDE DEF f
<1>4. \A i, j \in DOMAIN r : f[i] = f[j] => i = j
  BY <1>3
<1>5. \A i \in DOMAIN r : r[i].id = q[f[i]].id /\ r[i].prio = q[f[i]].prio
  BY <1>2, <1>3
<1>6. DrawnFrom(q, r)
  BY <1>3, <1>4, <1>5 DEF DrawnFrom
<1> QED
  BY <1>1, <1>2, <1>6 DEF r

\* An order with an id and a priority of its own joins a queue.
LEMMA JoinedNoClash ==
  ASSUME NEW b \in BookType, NoClashIn(b), NEW side \in Sides, NEW p \in Prices,
         NEW o \in RestingOrder,
         \A s \in Sides, r \in Prices : \A i \in DOMAIN b[s][r] : ~Clash(o, b[s][r][i])
  PROVE  /\ WithQueue(b, side, p, Append(b[side][p], o)) \in BookType
         /\ NoClashIn(WithQueue(b, side, p, Append(b[side][p], o)))
         /\ \A s \in Sides, r \in Prices :
              \A i \in DOMAIN WithQueue(b, side, p, Append(b[side][p], o))[s][r] :
                \/ /\ i \in DOMAIN b[s][r]
                   /\ WithQueue(b, side, p, Append(b[side][p], o))[s][r][i] = b[s][r][i]
                \/ /\ WithQueue(b, side, p, Append(b[side][p], o))[s][r][i] = o
                   /\ s = side /\ r = p
<1> DEFINE q == b[side][p]
           Q == Append(q, o)
           c == WithQueue(b, side, p, Q)
<1>1. q \in Seq(RestingOrder)
  BY DEF BookType
<1>2. /\ Q \in Seq(RestingOrder) /\ DOMAIN Q = 1 .. Len(q) + 1
      /\ DOMAIN q = 1 .. Len(q) /\ Len(q) \in Nat
      /\ \A k \in 1 .. Len(q) : Q[k] = q[k]
      /\ Q[Len(q) + 1] = o
  BY <1>1, AppendProperties, LenProperties
<1> HIDE DEF Q
<1>3. /\ c \in BookType
      /\ \A s \in Sides, r \in Prices :
             c[s][r] = IF s = side /\ r = p THEN Q ELSE b[s][r]
  BY <1>2, WithQueueType
<1> HIDE DEF c
<1>4. ASSUME NEW s \in Sides, NEW r \in Prices, NEW i \in DOMAIN c[s][r]
      PROVE  \/ i \in DOMAIN b[s][r] /\ c[s][r][i] = b[s][r][i]
             \/ /\ c[s][r][i] = o
                /\ s = side /\ r = p /\ i = Len(q) + 1
  <2>1. CASE s = side /\ r = p
    <3>1. i \in DOMAIN Q /\ c[s][r] = Q
      BY <1>3, <2>1
    <3>2. i \in 1 .. Len(q) \/ i = Len(q) + 1
      BY <1>2, <3>1
    <3> QED
      BY <1>2, <2>1, <3>1, <3>2
  <2>2. CASE ~(s = side /\ r = p)
    BY <1>3, <2>2
  <2> QED
    BY <2>1, <2>2
<1>5. NoClashIn(c)
  <2> SUFFICES ASSUME NEW s1 \in Sides, NEW s2 \in Sides,
                      NEW r1 \in Prices, NEW r2 \in Prices,
                      NEW i \in DOMAIN c[s1][r1], NEW j \in DOMAIN c[s2][r2],
                      Clash(c[s1][r1][i], c[s2][r2][j])
               PROVE  s1 = s2 /\ r1 = r2 /\ i = j
    BY DEF NoClashIn
  <2> DEFINE old1 == i \in DOMAIN b[s1][r1] /\ c[s1][r1][i] = b[s1][r1][i]
             new1 == c[s1][r1][i] = o /\ s1 = side /\ r1 = p /\ i = Len(q) + 1
             old2 == j \in DOMAIN b[s2][r2] /\ c[s2][r2][j] = b[s2][r2][j]
             new2 == c[s2][r2][j] = o /\ s2 = side /\ r2 = p /\ j = Len(q) + 1
  <2>1. (old1 \/ new1) /\ (old2 \/ new2)
    BY <1>4
  <2>2. CASE old1 /\ old2
    BY <2>2 DEF NoClashIn
  <2>3. CASE old1 /\ new2
    BY <2>3 DEF Clash
  <2>4. CASE new1 /\ old2
    BY <2>4 DEF Clash
  <2>5. CASE new1 /\ new2
    BY <2>5
  <2> QED
    BY <2>1, <2>2, <2>3, <2>4, <2>5
<1> QED
  BY <1>3, <1>4, <1>5 DEF c, Q

\* An order of the book replay has built from f is live, comes from a record
\* of f, and has a priority replay has seen.
Backed(f, s, o) ==
    /\ o.rem > 0
    /\ o.prio <= s.maxPriority
    /\ s.newOrders > 0
    /\ \E k \in DOMAIN f :
           f[k].kind = "NEW_ORDER" /\ f[k].id = o.id /\ f[k].prio = o.prio

\* The same of every order of the book b.
AllBacked(f, s, b) ==
    \A side \in Sides, p \in Prices : \A i \in DOMAIN b[side][p] :
        Backed(f, s, b[side][p][i])

\* The highest priority replay has seen is that of a record of f.
MaxRecorded(f, s) ==
    s.newOrders > 0 =>
        \E k \in DOMAIN f : f[k].kind = "NEW_ORDER" /\ f[k].prio = s.maxPriority

\* What replay of f can come to, whatever f holds.
WellFormed(f, s) ==
    /\ s \in ReplayState
    /\ NoClashIn(s.book)
    /\ AllBacked(f, s, s.book)
    /\ MaxRecorded(f, s)

\* What an id is found by is one place, and the order there.
LEMMA FoundAt ==
  ASSUME NEW b, NoClashIn(b), NEW side \in Sides, NEW p \in Prices,
         NEW i \in DOMAIN b[side][p]
  PROVE  EntriesOf(b, b[side][p][i].id) = {<<side, p, i>>}
<1> DEFINE id == b[side][p][i].id
<1>1. <<side, p, i>> \in EntriesOf(b, id)
  BY EntriesOfPlace
<1>2. ASSUME NEW e \in EntriesOf(b, id)
      PROVE  e = <<side, p, i>>
  <2>1. PICK s \in Sides, r \in Prices : \E j \in DOMAIN b[s][r] :
            e = <<s, r, j>> /\ b[s][r][j].id = id
    BY EntriesOfPlace
  <2>2. PICK j \in DOMAIN b[s][r] : e = <<s, r, j>> /\ b[s][r][j].id = id
    BY <2>1
  <2>3. s = side /\ r = p /\ j = i
    BY <2>2 DEF NoClashIn, Clash
  <2> QED
    BY <2>2, <2>3
<1> QED
  BY <1>1, <1>2

\* A record more takes no order its NEW_ORDER record.
LEMMA StillBacked ==
  ASSUME NEW f \in Seq(Records), NEW r \in Records, NEW s, NEW t, NEW o,
         Backed(f, s, o), t.maxPriority = s.maxPriority, t.newOrders = s.newOrders
  PROVE  Backed(Append(f, r), t, o)
<1>1. \A k \in DOMAIN f : k \in DOMAIN Append(f, r) /\ Append(f, r)[k] = f[k]
  BY AppendProperties, LenProperties
<1> QED
  BY <1>1 DEF Backed

\* A record more leaves the highest priority that has been seen in the file.
LEMMA StillRecorded ==
  ASSUME NEW f \in Seq(Records), NEW r \in Records, NEW s, NEW t,
         MaxRecorded(f, s), t.maxPriority = s.maxPriority, t.newOrders = s.newOrders
  PROVE  MaxRecorded(Append(f, r), t)
<1>1. \A k \in DOMAIN f : k \in DOMAIN Append(f, r) /\ Append(f, r)[k] = f[k]
  BY AppendProperties, LenProperties
<1> QED
  BY <1>1 DEF MaxRecorded

\* What a record leaves in the state of replay.
LEMMA AfterRecordFields ==
  ASSUME NEW s \in ReplayState, NEW r \in Records, NEW b \in BookType
  PROVE  /\ AfterRecord(s, r, b) \in ReplayState
         /\ AfterRecord(s, r, b).book = b
         /\ AfterRecord(s, r, b).ok = s.ok
         /\ AfterRecord(s, r, b).first = FALSE
         /\ AfterRecord(s, r, b).lastSequence = r.seq
         /\ AfterRecord(s, r, b).maxPriority = s.maxPriority
         /\ AfterRecord(s, r, b).newOrders = s.newOrders
<1>1. r.seq \in Nat
  BY DEF Records, NewOrderRecord, CancelRecord, FillRecord
<1> QED
  BY <1>1 DEF AfterRecord, ReplayState

\* A record that only thins out a queue.
LEMMA ThinnedWellFormed ==
  ASSUME NEW f \in Seq(Records), NEW r \in Records, NEW s, WellFormed(f, s),
         NEW side \in Sides, NEW p \in Prices, NEW q \in Seq(RestingOrder),
         DrawnFrom(s.book[side][p], q),
         \A i \in DOMAIN q : Backed(f, s, q[i])
  PROVE  WellFormed(Append(f, r), AfterRecord(s, r, WithQueue(s.book, side, p, q)))
<1> DEFINE b == s.book
           c == WithQueue(b, side, p, q)
           t == AfterRecord(s, r, c)
<1>0. s \in ReplayState /\ b \in BookType /\ NoClashIn(b) /\ AllBacked(f, s, b)
  BY DEF WellFormed, ReplayState
<1>1. /\ c \in BookType
      /\ \A u \in Sides, v \in Prices :
             c[u][v] = IF u = side /\ v = p THEN q ELSE b[u][v]
  BY <1>0, WithQueueType
<1>2. NoClashIn(c)
  BY <1>0, DrawnNoClash
<1> HIDE DEF c
<1>3. /\ t \in ReplayState /\ t.book = c /\ t.maxPriority = s.maxPriority
      /\ t.newOrders = s.newOrders
  BY <1>0, <1>1, AfterRecordFields
<1> HIDE DEF t
<1>4. AllBacked(Append(f, r), t, c)
  <2> SUFFICES ASSUME NEW u \in Sides, NEW v \in Prices, NEW i \in DOMAIN c[u][v]
               PROVE  Backed(Append(f, r), t, c[u][v][i])
    BY DEF AllBacked
  <2>1. Backed(f, s, c[u][v][i])
    <3>1. CASE u = side /\ v = p
      BY <1>1, <3>1
    <3>2. CASE ~(u = side /\ v = p)
      BY <1>0, <1>1, <3>2 DEF AllBacked
    <3> QED
      BY <3>1, <3>2
  <2> QED
    BY <1>3, <2>1, StillBacked
<1>5. MaxRecorded(Append(f, r), t)
  BY <1>3, StillRecorded DEF WellFormed
<1> QED
  BY <1>2, <1>3, <1>4, <1>5 DEF WellFormed, t, c

\* A fill that is not larger than what remains leaves an order.
LEMMA FilledType ==
  ASSUME NEW o \in RestingOrder, NEW n \in Quantities, n <= o.rem
  PROVE  /\ Filled(o, n) \in RestingOrder
         /\ Filled(o, n).id = o.id /\ Filled(o, n).prio = o.prio
         /\ Filled(o, n).rem = o.rem - n
         /\ o.rem # n => Filled(o, n).rem > 0
  BY BookAssumption DEF Filled, RestingOrder, Order, Quantities

\* Replay of one more record.
LEMMA WellFormedStep ==
  ASSUME WholeTicks, NEW f \in Seq(Records), NEW r \in Records, NEW s,
         WellFormed(f, s)
  PROVE  WellFormed(Append(f, r), processRecord(s, r))
<1> DEFINE b == s.book
           t == processRecord(s, r)
<1>0. s \in ReplayState /\ b \in BookType /\ NoClashIn(b) /\ AllBacked(f, s, b)
  BY DEF WellFormed, ReplayState
<1>b. \A side \in Sides, p \in Prices : b[side][p] \in Seq(RestingOrder)
  BY <1>0 DEF BookType
<1>e. \A side \in Sides, p \in Prices : \A i \in DOMAIN b[side][p] :
          b[side][p][i].prio \in Nat
  <2> TAKE side \in Sides, p \in Prices
  <2> TAKE i \in DOMAIN b[side][p]
  <2>1. b[side][p][i] \in RestingOrder
    BY <1>0 DEF BookType
  <2> QED
    BY <2>1 DEF RestingOrder, Order
<1>1. CASE Refused(s, t)
  <2> HIDE DEF t
  <2>1. /\ t \in ReplayState /\ t.book = b /\ t.maxPriority = s.maxPriority
        /\ t.newOrders = s.newOrders
    BY <1>1 DEF Refused
  <2>2. AllBacked(Append(f, r), t, t.book)
    BY <1>0, <2>1, StillBacked DEF AllBacked
  <2>3. MaxRecorded(Append(f, r), t)
    BY <2>1, StillRecorded DEF WellFormed
  <2>4. WellFormed(Append(f, r), t)
    BY <1>0, <2>1, <2>2, <2>3 DEF WellFormed
  <2> QED
    BY <2>4 DEF t
<1>2. CASE Takes(s, r) /\ r \in CancelRecord /\ EntriesOf(b, r.id) # {}
  <2>1. PICK side \in Sides, p \in Prices : \E i \in DOMAIN b[side][p] :
            t = AfterRecord(s, r, WithQueue(b, side, p, RemoveAt(b[side][p], i)))
    BY <1>0, <1>2, CancelOutcome
  <2>2. PICK i \in DOMAIN b[side][p] :
            t = AfterRecord(s, r, WithQueue(b, side, p, RemoveAt(b[side][p], i)))
    BY <2>1
  <2> DEFINE q == b[side][p]
             u == RemoveAt(q, i)
  <2>3. /\ u \in Seq(RestingOrder) /\ DrawnFrom(q, u)
        /\ \A k \in DOMAIN u : \E j \in DOMAIN q : u[k] = q[j]
    <3> HIDE DEF q
    <3>1. q \in Seq(RestingOrder) /\ i \in DOMAIN q
      BY <1>b DEF q
    <3> QED
      BY <3>1, DrawnByRemove
  <2>4. \A k \in DOMAIN u : Backed(f, s, u[k])
    BY <1>0, <2>3 DEF AllBacked
  <2> HIDE DEF u, t
  <2>5. WellFormed(Append(f, r), AfterRecord(s, r, WithQueue(b, side, p, u)))
    BY <2>3, <2>4, ThinnedWellFormed
  <2> QED
    BY <2>2, <2>5 DEF u, t
<1>3. CASE /\ Takes(s, r) /\ r \in FillRecord
           /\ \E e \in EntriesOf(b, r.id) : b[e[1]][e[2]][e[3]].rem >= r.qty
  <2>1. PICK side \in Sides, p \in Prices : \E i \in DOMAIN b[side][p] :
            /\ b[side][p][i].id = r.id
            /\ t = AfterRecord(s, r, WithQueue(b, side, p,
                                         FilledQueue(b[side][p], i, r.qty)))
    BY <1>0, <1>3, FillOutcome
  <2>2. PICK i \in DOMAIN b[side][p] :
            /\ b[side][p][i].id = r.id
            /\ t = AfterRecord(s, r, WithQueue(b, side, p,
                                         FilledQueue(b[side][p], i, r.qty)))
    BY <2>1
  <2> DEFINE q == b[side][p]
             u == FilledQueue(q, i, r.qty)
  <2>q. q \in Seq(RestingOrder) /\ i \in DOMAIN q /\ q[i] \in RestingOrder
    BY <1>b, LenProperties, ElementOfSeq
  <2>3. r.qty \in Quantities /\ q[i].rem >= r.qty
    <3>1. EntriesOf(b, r.id) = {<<side, p, i>>}
      BY <1>0, <2>2, FoundAt
    <3>2. <<side, p, i>>[1] = side /\ <<side, p, i>>[2] = p /\ <<side, p, i>>[3] = i
      OBVIOUS
    <3> QED
      BY <1>3, <3>1, <3>2 DEF FillRecord
  <2>4. q[i].rem \in Nat /\ r.qty \in Nat /\ r.qty <= q[i].rem
    BY <2>3, <2>q, BookAssumption DEF RestingOrder, Order, Quantities
  <2>5. \A j \in DOMAIN q : Backed(f, s, q[j])
    BY <1>0 DEF AllBacked
  <2> HIDE DEF q
  <2>6. u \in Seq(RestingOrder) /\ DrawnFrom(q, u) /\ \A k \in DOMAIN u : Backed(f, s, u[k])
    <3>1. CASE q[i].rem = r.qty
      <4>1. u = RemoveAt(q, i)
        BY <3>1 DEF FilledQueue
      <4>2. /\ u \in Seq(RestingOrder) /\ DrawnFrom(q, u)
            /\ \A k \in DOMAIN u : \E j \in DOMAIN q : u[k] = q[j]
        BY <2>q, <4>1, DrawnByRemove
      <4> QED
        BY <2>5, <4>2
    <3>2. CASE q[i].rem # r.qty
      <4> DEFINE o == Filled(q[i], r.qty)
      <4>1. u = [q EXCEPT ![i] = o]
        BY <3>2 DEF FilledQueue
      <4>2. /\ o \in RestingOrder /\ o.id = q[i].id /\ o.prio = q[i].prio /\ o.rem > 0
        BY <2>q, <2>3, <2>4, <3>2, FilledType
      <4> HIDE DEF o
      <4>3. /\ u \in Seq(RestingOrder) /\ DrawnFrom(q, u)
            /\ \A k \in DOMAIN u : k \in DOMAIN q /\ u[k] = IF k = i THEN o ELSE q[k]
        BY <2>q, <4>1, <4>2, DrawnByChange
      <4>4. Backed(f, s, o)
        BY <2>5, <2>q, <4>2 DEF Backed
      <4> QED
        BY <2>5, <4>3, <4>4
    <3> QED
      BY <3>1, <3>2
  <2> HIDE DEF u, t
  <2>7. WellFormed(Append(f, r), AfterRecord(s, r, WithQueue(b, side, p, u)))
    BY <2>6, ThinnedWellFormed DEF q
  <2> QED
    BY <2>2, <2>7 DEF u, t, q
<1>4. CASE /\ Takes(s, r) /\ r \in NewOrderRecord
           /\ validatePrioritySequence(s, r)
           /\ EntriesOf(b, r.id) = {}
           /\ Cardinality(Entries(b)) < PoolCapacity
  <2> DEFINE o == OrderOf(r)
             side == o.side
             p == o.price
             c == WithQueue(b, side, p, Append(b[side][p], o))
             F == Append(f, r)
  <2>1. t = [AfterRecord(s, r, c) EXCEPT !.maxPriority = r.prio, !.newOrders = @ + 1]
    BY <1>0, <1>4, NewOutcome DEF Restored
  <2>2. /\ o \in RestingOrder /\ p \in Prices /\ side \in Sides /\ o.rem > 0
        /\ o.id = r.id /\ o.prio = r.prio
    BY <1>4, OrderOfType
  <2>3. r.prio \in Nat /\ r.kind = "NEW_ORDER"
    BY <1>4 DEF NewOrderRecord
  <2> HIDE DEF o, t
  <2>4. ASSUME NEW u \in Sides, NEW v \in Prices, NEW i \in DOMAIN b[u][v]
        PROVE  ~Clash(o, b[u][v][i]) /\ b[u][v][i].prio < r.prio
    <3>1. b[u][v][i].id # r.id
      <4>1. b[u][v][i].id = r.id => <<u, v, i>> \in EntriesOf(b, r.id)
        BY EntriesOfPlace
      <4> QED
        BY <1>4, <4>1
    <3>2. Backed(f, s, b[u][v][i])
      BY <1>0 DEF AllBacked
    <3>3. r.prio > s.maxPriority
      BY <1>0, <1>4, <3>2 DEF Backed, validatePrioritySequence
    <3>4. b[u][v][i].prio \in Nat /\ s.maxPriority \in Nat
      BY <1>0, <1>e DEF ReplayState
    <3>5. b[u][v][i].prio < r.prio
      BY <2>3, <3>2, <3>3, <3>4 DEF Backed
    <3> QED
      BY <2>2, <2>3, <3>1, <3>4, <3>5 DEF Clash
  <2>5. /\ c \in BookType /\ NoClashIn(c)
        /\ \A u \in Sides, v \in Prices : \A i \in DOMAIN c[u][v] :
              \/ i \in DOMAIN b[u][v] /\ c[u][v][i] = b[u][v][i]
              \/ c[u][v][i] = o /\ u = side /\ v = p
    BY <1>0, <2>2, <2>4, JoinedNoClash
  <2> HIDE DEF c
  <2>6. /\ t \in ReplayState /\ t.book = c /\ t.maxPriority = r.prio
        /\ t.newOrders = s.newOrders + 1
    <3> DEFINE a == AfterRecord(s, r, c)
    <3>1. a \in ReplayState /\ a.book = c /\ a.newOrders = s.newOrders
      BY <1>0, <2>5, AfterRecordFields
    <3>2. t = [a EXCEPT !.maxPriority = r.prio, !.newOrders = @ + 1]
      BY <2>1
    <3>3. s.newOrders + 1 \in Nat
      BY <1>0 DEF ReplayState
    <3> HIDE DEF a
    <3> QED
      BY <2>3, <3>1, <3>2, <3>3 DEF ReplayState
  <2>7. /\ \A k \in DOMAIN f : k \in DOMAIN F /\ F[k] = f[k]
        /\ Len(f) + 1 \in DOMAIN F /\ F[Len(f) + 1] = r
    BY AppendProperties, LenProperties
  <2>n. s.newOrders \in Nat
    BY <1>0 DEF ReplayState
  <2> HIDE DEF F
  <2>8. ASSUME NEW u \in Sides, NEW v \in Prices, NEW i \in DOMAIN c[u][v]
        PROVE  Backed(F, t, c[u][v][i])
    <3>1. CASE i \in DOMAIN b[u][v] /\ c[u][v][i] = b[u][v][i]
      <4>1. Backed(f, s, b[u][v][i]) /\ b[u][v][i].prio < r.prio
        BY <1>0, <2>4, <3>1 DEF AllBacked
      <4>2. b[u][v][i].prio \in Nat
        BY <1>e, <3>1
      <4>3. b[u][v][i].prio <= t.maxPriority
        BY <2>3, <2>6, <4>1, <4>2
      <4>4. t.newOrders > 0
        BY <2>n, <2>6
      <4> QED
        BY <2>7, <3>1, <4>1, <4>3, <4>4 DEF Backed
    <3>2. CASE c[u][v][i] = o
      <4>1. t.newOrders > 0
        BY <2>n, <2>6
      <4> QED
        BY <2>2, <2>3, <2>6, <2>7, <3>2, <4>1 DEF Backed
    <3> QED
      BY <2>5, <3>1, <3>2
  <2>9. AllBacked(F, t, t.book)
    BY <2>6, <2>8 DEF AllBacked
  <2>10. MaxRecorded(F, t)
    BY <2>3, <2>6, <2>7 DEF MaxRecorded
  <2>11. WellFormed(F, t)
    BY <2>5, <2>6, <2>9, <2>10 DEF WellFormed
  <2> QED
    BY <2>11 DEF F, t
<1> QED
  BY <1>0, <1>1, <1>2, <1>3, <1>4, RefusedOutcome

\* Whatever is in the file, replay builds a well-formed book from it.
LEMMA ReplayWellFormed ==
  ASSUME WholeTicks
  PROVE  \A f \in Seq(Records) : WellFormed(f, Apply(f))
<1> DEFINE A == {f \in Seq(Records) : WellFormed(f, Apply(f))}
<1>1. <<>> \in A
  <2>1. ReplayInit \in ReplayState
    BY EmptySeq DEF ReplayInit, ReplayState, BookType, EmptyBook
  <2>2. \A side \in Sides, p \in Prices : ReplayInit.book[side][p] = <<>>
    BY DEF ReplayInit, EmptyBook
  <2>3. \A side \in Sides, p \in Prices : \A i \in DOMAIN ReplayInit.book[side][p] : FALSE
    BY <2>2
  <2>4. ReplayInit.newOrders = 0
    BY DEF ReplayInit
  <2>5. NoClashIn(ReplayInit.book) /\ AllBacked(<<>>, ReplayInit, ReplayInit.book)
    BY <2>3 DEF NoClashIn, AllBacked
  <2>6. MaxRecorded(<<>>, ReplayInit)
    BY <2>4 DEF MaxRecorded
  <2>7. WellFormed(<<>>, ReplayInit)
    BY <2>1, <2>5, <2>6 DEF WellFormed
  <2> QED
    BY <2>7, ApplyEmpty, EmptySeq
<1>2. ASSUME NEW f \in Seq(Records), NEW r \in Records, f \in A
      PROVE  Append(f, r) \in A
  <2>1. WellFormed(f, Apply(f))
    BY <1>2
  <2>2. WellFormed(Append(f, r), processRecord(Apply(f), r))
    BY <2>1, WellFormedStep
  <2>3. Append(f, r) \in Seq(Records)
    BY AppendProperties
  <2>4. Apply(Append(f, r)) = processRecord(Apply(f), r)
    BY ApplyAppend
  <2> QED
    BY <2>2, <2>3, <2>4
<1>3. Seq(Records) \subseteq A
  <2> HIDE DEF A
  <2> QED
    BY <1>1, <1>2, SequenceInduction
<1> QED
  BY <1>3

-----------------------------------------------------------------------------
(* The journal as it will be when the operation in progress has published   *)
(* all that has happened so far                                             *)

\* The events of the call in progress so far: the cancel of the order it takes
\* off the book, then its trades.
CallEvents ==
    (IF old = NoOrder THEN <<>> ELSE <<OrderCancelledEvent(old)>>)
    \o [k \in DOMAIN trades |-> TradeEvent(trades[k])]

\* What has happened so far; at the end of the call this is all it publishes.
Happened == IF pc = "done" THEN Events ELSE CallEvents

\* The file f and, numbered from n, the records of the events behind the first k.
Extended(f, n, ev, k) ==
    f \o [i \in 1 .. Len(ev) - k |-> Record(n + (i - 1), ev[k + i])]

\* The journal as it will be, and the sequence number it will have reached.
Whole == Extended(file, sequence, Happened, sent)

NextNumber == sequence + (Len(Happened) - sent)

\* The best bid of the book b is below its best ask.
Uncrossed(b) ==
    \A p, q \in Prices : b["BUY"][p] # <<>> /\ b["SELL"][q] # <<>> => p < q

\* A clean file is replayed to its end, and the book it gives is not crossed.
Accepts(f) == Clean(f) => Apply(f).ok /\ Uncrossed(Apply(f).book)

\* The same of every beginning of f: a crash may leave any of them.
AllAccepted(f) == \A n \in 0 .. Len(f) : Accepts(SubSeq(f, 1, n))

\* The book b without the orders that have nothing left.
LiveOf(b) == [side \in Sides |-> [p \in Prices |-> LiveOrders(b[side][p])]]

\* Replay of f gives the live orders of the book b, and a record numbered n
\* is the next it takes.
Follows(f, n, b) ==
    Clean(f) =>
        /\ Apply(f).ok
        /\ Uncrossed(Apply(f).book)
        /\ Apply(f).book = LiveOf(b)
        /\ Apply(f).first \/ n = Apply(f).lastSequence + 1

\* The orders f announces have their ids in S.
NamesIn(f, S) == \A k \in DOMAIN f : IsNewOrder(f[k]) => f[k].id \in S

NamesUsed(f) == NamesIn(f, used)

\* A process that has just started, before it recovers.
Fresh ==
    /\ pc = "recover"
    /\ book = EmptyBook /\ nextTradeId = 1
    /\ priority = 0 /\ state = "READY"
    /\ used \subseteq OrderIds
    /\ filled \in [OrderIds -> Nat]

\* Between two calls nothing is in progress, events are published at the end of
\* a call only, and a halted engine takes no call.
BetweenCalls ==
    /\ pc \in {"idle", "recover"} =>
           old = NoOrder /\ trades = <<>> /\ incoming = NoOrder
    /\ pc # "done" => sent = 0
    /\ state = "HALTED" => pc = "idle"
    /\ stp = "NONE"

\* What the file holds: records, and what is left of a record at a crash.
Lines == Records \cup {Torn}

\* What a file says is in each of its beginnings.
LEMMA CleanPrefix ==
  ASSUME NEW f \in Seq(Lines), NEW n \in 0 .. Len(f), Clean(f)
  PROVE  Clean(SubSeq(f, 1, n))
<1> DEFINE g == SubSeq(f, 1, n)
<1>1. /\ g \in Seq(Lines) /\ Len(g) = n
      /\ \A k \in 1 .. n : g[k] = f[k]
  BY SubSeqProperties
<1>2. DOMAIN g = 1 .. n /\ DOMAIN f = 1 .. Len(f) /\ Len(f) \in Nat
  BY <1>1, LenProperties
<1> HIDE DEF g
<1>3. \A k \in DOMAIN g : k \in DOMAIN f /\ g[k] = f[k]
  BY <1>1, <1>2
<1>4. Clean(g)
  BY <1>3 DEF Clean, Increasing
<1> QED
  BY <1>4 DEF g

\* A clean file without its last record is clean, and a NEW_ORDER record at
\* its end has the highest priority of all.
LEMMA CleanAppend ==
  ASSUME NEW f \in Seq(Lines), NEW r \in Lines, Clean(Append(f, r))
  PROVE  /\ Clean(f)
         /\ f \in Seq(Records)
         /\ r \in Records
         /\ r.kind = "CANCEL_ORDER" => r.rem > 0
         /\ r.kind = "NEW_ORDER" =>
                \A k \in DOMAIN f : f[k].kind = "NEW_ORDER" => f[k].prio < r.prio
<1> DEFINE F == Append(f, r)
           n == Len(f)
<1>1. /\ n \in Nat /\ DOMAIN f = 1 .. n /\ DOMAIN F = 1 .. n + 1 /\ F[n + 1] = r
      /\ \A k \in 1 .. n : F[k] = f[k]
  BY AppendProperties, LenProperties
<1> HIDE DEF F, n
<1>2. /\ \A k \in DOMAIN f : k \in DOMAIN F /\ F[k] = f[k] /\ k < n + 1
      /\ n + 1 \in DOMAIN F
  BY <1>1
<1>3. Clean(F)
  BY DEF F
<1>4. Clean(f)
  BY <1>2, <1>3 DEF Clean, Increasing
<1>5. \A k \in DOMAIN f : f[k] # Torn
  BY <1>4 DEF Clean
<1>6. r # Torn
  BY <1>1, <1>2, <1>3 DEF Clean
<1>7. f \in Seq(Records)
  <2>1. \A k \in 1 .. n : f[k] \in Records
    BY <1>1, <1>5, ElementOfSeq DEF Lines, n
  <2> QED
    BY <1>1, <2>1 DEF n
<1>8. r.kind = "CANCEL_ORDER" => r.rem > 0
  BY <1>1, <1>2, <1>3 DEF Clean
<1>9. ASSUME r.kind = "NEW_ORDER", NEW k \in DOMAIN f, f[k].kind = "NEW_ORDER"
      PROVE  f[k].prio < r.prio
  <2>1. IsNewOrder(F[k]) /\ IsNewOrder(F[n + 1])
    BY <1>1, <1>2, <1>5, <1>6, <1>9 DEF IsNewOrder
  <2> QED
    BY <1>1, <1>2, <1>3, <2>1 DEF Clean, Increasing
<1> QED
  BY <1>4, <1>6, <1>7, <1>8, <1>9 DEF Lines

\* A clean file has no torn record.
LEMMA CleanRecords ==
  ASSUME NEW f \in Seq(Lines), Clean(f)
  PROVE  f \in Seq(Records)
<1>1. \A k \in 1 .. Len(f) : f[k] \in Records
  BY ElementOfSeq, LenProperties DEF Lines, Clean
<1> QED
  BY <1>1

\* The beginnings of a beginning are beginnings.
LEMMA PrefixOfPrefix ==
  ASSUME NEW S, NEW f \in Seq(S), NEW m \in 0 .. Len(f), NEW n \in 0 .. m
  PROVE  SubSeq(SubSeq(f, 1, m), 1, n) = SubSeq(f, 1, n)
<1> DEFINE g == SubSeq(f, 1, m)
           h == SubSeq(g, 1, n)
           u == SubSeq(f, 1, n)
<1>0. Len(f) \in Nat /\ m \in Nat /\ n \in Nat /\ m <= Len(f) /\ n <= m /\ n <= Len(f)
  BY LenProperties
<1>1. g \in Seq(S) /\ Len(g) = m /\ \A k \in 1 .. m : g[k] = f[k]
  BY <1>0, SubSeqProperties
<1>2. u \in Seq(S) /\ Len(u) = n /\ \A k \in 1 .. n : u[k] = f[k]
  BY <1>0, SubSeqProperties
<1> HIDE DEF g, u
<1>3. h \in Seq(S) /\ Len(h) = n /\ \A k \in 1 .. n : h[k] = g[k]
  BY <1>0, <1>1, SubSeqProperties
<1> HIDE DEF h
<1>4. \A k \in 1 .. n : h[k] = u[k]
  BY <1>0, <1>1, <1>2, <1>3
<1>5. h = u
  BY <1>2, <1>3, <1>4, SeqEqual
<1> QED
  BY <1>5 DEF h, g, u

\* A sequence is a beginning of itself.
LEMMA WholePrefix ==
  ASSUME NEW S, NEW f \in Seq(S)
  PROVE  SubSeq(f, 1, Len(f)) = f
<1> DEFINE u == SubSeq(f, 1, Len(f))
<1>1. u \in Seq(S) /\ Len(u) = Len(f) /\ \A k \in 1 .. Len(f) : u[k] = f[k]
  BY LenProperties, SubSeqProperties
<1> HIDE DEF u
<1>2. u = f
  BY <1>1, SeqEqual
<1> QED
  BY <1>2 DEF u

\* A beginning of a sequence is one of every longer sequence.
LEMMA PrefixOfAppend ==
  ASSUME NEW S, NEW f \in Seq(S), NEW r \in S, NEW n \in 0 .. Len(f)
  PROVE  SubSeq(Append(f, r), 1, n) = SubSeq(f, 1, n)
<1> DEFINE F == Append(f, r)
           u == SubSeq(F, 1, n)
           v == SubSeq(f, 1, n)
<1>0. Len(f) \in Nat /\ n \in Nat /\ n <= Len(f)
  BY LenProperties
<1>1. F \in Seq(S) /\ Len(F) = Len(f) + 1 /\ \A k \in 1 .. Len(f) : F[k] = f[k]
  BY AppendProperties
<1>2. v \in Seq(S) /\ Len(v) = n /\ \A k \in 1 .. n : v[k] = f[k]
  BY <1>0, SubSeqProperties
<1> HIDE DEF F, v
<1>3. u \in Seq(S) /\ Len(u) = n /\ \A k \in 1 .. n : u[k] = F[k]
  BY <1>0, <1>1, SubSeqProperties
<1> HIDE DEF u
<1>4. \A k \in 1 .. n : u[k] = v[k]
  BY <1>0, <1>1, <1>2, <1>3
<1>5. u = v
  BY <1>2, <1>3, <1>4, SeqEqual
<1> QED
  BY <1>5 DEF u, v, F

\* When replay accepts every beginning of a file it does so for a shorter one.
LEMMA AcceptedPrefix ==
  ASSUME NEW f \in Seq(Lines), NEW m \in 0 .. Len(f), AllAccepted(f)
  PROVE  AllAccepted(SubSeq(f, 1, m))
<1>1. Len(f) \in Nat /\ Len(SubSeq(f, 1, m)) = m
  BY LenProperties, SubSeqProperties
<1>2. ASSUME NEW n \in 0 .. m
      PROVE  Accepts(SubSeq(SubSeq(f, 1, m), 1, n))
  <2>1. SubSeq(SubSeq(f, 1, m), 1, n) = SubSeq(f, 1, n)
    BY PrefixOfPrefix
  <2>2. n \in 0 .. Len(f)
    BY <1>1
  <2> QED
    BY <2>1, <2>2 DEF AllAccepted
<1> QED
  BY <1>1, <1>2 DEF AllAccepted

\* Every beginning of a file with a record more is one of the file, or all of it.
LEMMA AcceptedAppend ==
  ASSUME NEW f \in Seq(Lines), NEW r \in Lines, AllAccepted(f),
         Accepts(Append(f, r))
  PROVE  AllAccepted(Append(f, r))
<1> DEFINE F == Append(f, r)
<1>1. F \in Seq(Lines) /\ Len(F) = Len(f) + 1 /\ Len(f) \in Nat
  BY AppendProperties, LenProperties
<1> SUFFICES ASSUME NEW n \in 0 .. Len(F)
             PROVE  Accepts(SubSeq(F, 1, n))
  BY DEF AllAccepted
<1>2. CASE n \in 0 .. Len(f)
  BY <1>2, PrefixOfAppend DEF AllAccepted
<1>3. CASE n = Len(F)
  <2> HIDE DEF F
  <2>1. SubSeq(F, 1, n) = F
    BY <1>1, <1>3, WholePrefix
  <2> QED
    BY <2>1 DEF F
<1> QED
  BY <1>1, <1>2, <1>3

\* When replay accepts every beginning of a file it accepts the file.
LEMMA AcceptedWhole ==
  ASSUME NEW f \in Seq(Lines), AllAccepted(f)
  PROVE  Accepts(f)
<1>1. Len(f) \in 0 .. Len(f)
  BY LenProperties
<1> QED
  BY <1>1, WholePrefix DEF AllAccepted

-----------------------------------------------------------------------------
(* What an event does to the book, its record does in replay *)

\* The live part of a book is a book.
LEMMA LiveOfType ==
  ASSUME NEW b \in BookType
  PROVE  /\ LiveOf(b) \in BookType
         /\ \A side \in Sides, p \in Prices :
                LiveOf(b)[side][p] = LiveOrders(b[side][p])
<1>1. \A side \in Sides, p \in Prices : LiveOrders(b[side][p]) \in Seq(RestingOrder)
  BY LiveType DEF BookType
<1> QED
  BY <1>1 DEF LiveOf, BookType

\* Setting a queue of a book sets its live part in the live book.
LEMMA LiveOfWithQueue ==
  ASSUME NEW b \in BookType, NEW side \in Sides, NEW p \in Prices,
         NEW q \in Seq(RestingOrder)
  PROVE  LiveOf(WithQueue(b, side, p, q)) =
             WithQueue(LiveOf(b), side, p, LiveOrders(q))
<1> DEFINE c == WithQueue(b, side, p, q)
           d == WithQueue(LiveOf(b), side, p, LiveOrders(q))
<1>1. LiveOrders(q) \in Seq(RestingOrder)
  BY LiveType
<1>2. /\ c \in BookType
      /\ \A s \in Sides, r \in Prices :
             c[s][r] = IF s = side /\ r = p THEN q ELSE b[s][r]
  BY WithQueueType
<1>3. /\ LiveOf(b) \in BookType
      /\ \A s \in Sides, r \in Prices : LiveOf(b)[s][r] = LiveOrders(b[s][r])
  BY LiveOfType
<1>4. /\ d \in BookType
      /\ \A s \in Sides, r \in Prices :
             d[s][r] = IF s = side /\ r = p THEN LiveOrders(q) ELSE LiveOf(b)[s][r]
  BY <1>1, <1>3, WithQueueType
<1> HIDE DEF c, d
<1>5. /\ LiveOf(c) \in BookType
      /\ \A s \in Sides, r \in Prices : LiveOf(c)[s][r] = LiveOrders(c[s][r])
  BY <1>2, LiveOfType
<1>6. \A s \in Sides, r \in Prices : LiveOf(c)[s][r] = d[s][r]
  BY <1>2, <1>3, <1>4, <1>5
<1> DEFINE x == LiveOf(c)
<1>7. x \in BookType /\ \A s \in Sides, r \in Prices : x[s][r] = d[s][r]
  BY <1>5, <1>6
<1> HIDE DEF x
<1>8. \A s \in Sides : x[s] = d[s]
  BY <1>4, <1>7 DEF BookType
<1>9. x = d
  BY <1>4, <1>7, <1>8 DEF BookType
<1> QED
  BY <1>9 DEF x, c, d

\* Giving a level that is there another queue crosses nothing.
LEMMA ThinnedUncrossed ==
  ASSUME NEW b \in BookType, Uncrossed(b), NEW side \in Sides, NEW p \in Prices,
         NEW q \in Seq(RestingOrder), b[side][p] # <<>>
  PROVE  Uncrossed(WithQueue(b, side, p, q))
<1> DEFINE c == WithQueue(b, side, p, q)
<1>1. \A s \in Sides, r \in Prices :
             c[s][r] = IF s = side /\ r = p THEN q ELSE b[s][r]
  BY WithQueueType
<1> HIDE DEF c
<1>2. \A s \in Sides, r \in Prices : c[s][r] # <<>> => b[s][r] # <<>>
  BY <1>1
<1>3. "BUY" \in Sides /\ "SELL" \in Sides
  BY DEF Sides
<1>4. Uncrossed(c)
  BY <1>2, <1>3 DEF Uncrossed
<1> QED
  BY <1>4 DEF c

\* A record that gives the book of replay, at the place of an order that is
\* there, another queue.
LEMMA ThinnedFollows ==
  ASSUME NEW s \in ReplayState, NEW r \in Records, s.ok, Uncrossed(s.book),
         NEW side \in Sides, NEW p \in Prices, s.book[side][p] # <<>>,
         NEW q \in Seq(RestingOrder), NEW c,
         WithQueue(s.book, side, p, q) = LiveOf(c),
         NEW t, t = AfterRecord(s, r, WithQueue(s.book, side, p, q))
  PROVE  /\ t.ok /\ Uncrossed(t.book) /\ t.book = LiveOf(c)
         /\ r.seq + 1 = t.lastSequence + 1
<1>1. s.book \in BookType
  BY DEF ReplayState
<1>2. WithQueue(s.book, side, p, q) \in BookType
  BY <1>1, WithQueueType
<1>3. Uncrossed(WithQueue(s.book, side, p, q))
  BY <1>1, ThinnedUncrossed
<1> DEFINE d == WithQueue(s.book, side, p, q)
<1> HIDE DEF d
<1>4. /\ AfterRecord(s, r, d).book = d
      /\ AfterRecord(s, r, d).ok = s.ok
      /\ AfterRecord(s, r, d).lastSequence = r.seq
  BY <1>2, AfterRecordFields DEF d
<1> QED
  BY <1>3, <1>4 DEF d

\* What replay of f has come to, when f is clean.
LEMMA FollowedState ==
  ASSUME WholeTicks, NEW f \in Seq(Lines), NEW r \in Lines, NEW n, NEW b,
         Follows(f, n, b), Clean(Append(f, r)), r.seq = n
  PROVE  /\ f \in Seq(Records) /\ r \in Records
         /\ WellFormed(f, Apply(f)) /\ Apply(f) \in ReplayState
         /\ NoClashIn(Apply(f).book)
         /\ Apply(f).ok /\ Uncrossed(Apply(f).book) /\ Apply(f).book = LiveOf(b)
         /\ Takes(Apply(f), r)
         /\ Apply(Append(f, r)) = processRecord(Apply(f), r)
<1>1. Clean(f) /\ f \in Seq(Records) /\ r \in Records
  BY CleanAppend
<1>2. WellFormed(f, Apply(f))
  BY <1>1, ReplayWellFormed
<1>3. Apply(Append(f, r)) = processRecord(Apply(f), r)
  BY ApplyAppend
<1> QED
  BY <1>1, <1>2, <1>3 DEF Follows, WellFormed, Takes, validateSequence

\* cancelOrder and restoreCancel.
LEMMA CancelFollows ==
  ASSUME WholeTicks, NEW f \in Seq(Lines), NEW n \in Nat, NEW b \in BookType,
         Follows(f, n, b),
         NEW side \in Sides, NEW p \in Prices, NEW i \in DOMAIN b[side][p],
         NEW r \in CancelRecord, r.seq = n, r.id = b[side][p][i].id,
         r.rem = b[side][p][i].rem
  PROVE  Follows(Append(f, r), n + 1,
                 WithQueue(b, side, p, RemoveAt(b[side][p], i)))
<1> DEFINE q == b[side][p]
           c == WithQueue(b, side, p, RemoveAt(q, i))
           s == Apply(f)
           t == Apply(Append(f, r))
<1> SUFFICES ASSUME Clean(Append(f, r))
             PROVE  t.ok /\ Uncrossed(t.book) /\ t.book = LiveOf(c)
                    /\ n + 1 = t.lastSequence + 1
  BY DEF Follows
<1>r. r \in Lines
  BY DEF Lines, Records
<1>1. /\ r \in Records /\ s \in ReplayState /\ NoClashIn(s.book)
      /\ s.ok /\ Uncrossed(s.book) /\ s.book = LiveOf(b)
      /\ Takes(s, r) /\ t = processRecord(s, r)
  BY <1>r, FollowedState
<1>2. q[i].rem > 0
  BY <1>r, CleanAppend DEF CancelRecord
<1>3. q \in Seq(RestingOrder) /\ i \in DOMAIN q
  BY DEF BookType
<1>4. RemoveAt(q, i) \in Seq(RestingOrder)
  BY <1>3, RemoveAtProperties
<1> DEFINE l == LiveOrders(q)
<1>l. s.book[side][p] = l /\ l \in Seq(RestingOrder)
  BY <1>1, <1>3, LiveOfType, LiveType
<1> HIDE DEF q
<1>5. PICK j \in DOMAIN l : l[j] = q[i] /\ LiveOrders(RemoveAt(q, i)) = RemoveAt(l, j)
  BY <1>2, <1>3, LivePlace
<1> HIDE DEF l, s, t
<1>6. j \in DOMAIN s.book[side][p] /\ s.book[side][p][j].id = r.id
  BY <1>l, <1>5 DEF q
<1>7. EntriesOf(s.book, r.id) = {<<side, p, j>>}
  BY <1>1, <1>6, FoundAt
<1>8. t = AfterRecord(s, r, WithQueue(s.book, side, p, RemoveAt(s.book[side][p], j)))
  <2>1. PICK u \in Sides, v \in Prices : \E k \in DOMAIN s.book[u][v] :
            /\ s.book[u][v][k].id = r.id
            /\ t = AfterRecord(s, r, WithQueue(s.book, u, v, RemoveAt(s.book[u][v], k)))
    BY <1>1, <1>7, CancelOutcome
  <2>2. PICK k \in DOMAIN s.book[u][v] :
            /\ s.book[u][v][k].id = r.id
            /\ t = AfterRecord(s, r, WithQueue(s.book, u, v, RemoveAt(s.book[u][v], k)))
    BY <2>1
  <2>3. u = side /\ v = p /\ k = j
    BY <1>1, <1>6, <2>2 DEF NoClashIn, Clash
  <2> QED
    BY <2>2, <2>3
<1>9. LiveOf(c) = WithQueue(s.book, side, p, RemoveAt(l, j))
  BY <1>1, <1>4, <1>5, LiveOfWithQueue
<1>10. RemoveAt(l, j) \in Seq(RestingOrder) /\ s.book[side][p] # <<>>
  BY <1>l, <1>6, RemoveAtProperties
<1> DEFINE w == RemoveAt(l, j)
<1> HIDE DEF c
<1>w. /\ WithQueue(s.book, side, p, w) = LiveOf(c) /\ w \in Seq(RestingOrder)
      /\ t = AfterRecord(s, r, WithQueue(s.book, side, p, w))
  BY <1>l, <1>8, <1>9, <1>10
<1> HIDE DEF w
<1>11. t.ok /\ Uncrossed(t.book) /\ t.book = LiveOf(c) /\ r.seq + 1 = t.lastSequence + 1
  BY <1>1, <1>10, <1>w, ThinnedFollows
<1> QED
  BY <1>11

\* matchOrder and applyFill.
LEMMA FillFollows ==
  ASSUME WholeTicks, NEW f \in Seq(Lines), NEW n \in Nat, NEW b \in BookType,
         Follows(f, n, b),
         NEW side \in Sides, NEW p \in Prices, NEW i \in DOMAIN b[side][p],
         NEW r \in FillRecord, r.seq = n, r.id = b[side][p][i].id,
         r.qty <= b[side][p][i].rem
  PROVE  Follows(Append(f, r), n + 1,
                 WithQueue(b, side, p, FilledQueue(b[side][p], i, r.qty)))
<1> DEFINE q == b[side][p]
           m == r.qty
           c == WithQueue(b, side, p, FilledQueue(q, i, m))
           s == Apply(f)
           t == Apply(Append(f, r))
<1> SUFFICES ASSUME Clean(Append(f, r))
             PROVE  t.ok /\ Uncrossed(t.book) /\ t.book = LiveOf(c)
                    /\ n + 1 = t.lastSequence + 1
  BY DEF Follows
<1>r. r \in Lines
  BY DEF Lines, Records
<1>1. /\ r \in Records /\ s \in ReplayState /\ NoClashIn(s.book)
      /\ s.ok /\ Uncrossed(s.book) /\ s.book = LiveOf(b)
      /\ Takes(s, r) /\ t = processRecord(s, r)
  BY <1>r, FollowedState
<1>3. q \in Seq(RestingOrder) /\ i \in DOMAIN q /\ q[i] \in RestingOrder
  BY DEF BookType
<1>2. /\ m \in Quantities /\ q[i].rem > 0 /\ q[i].rem >= m
      /\ q[i].rem \in Nat
  <2>1. q[i].rem \in Nat /\ m \in 1 .. MaxQty /\ m \in Quantities
    BY <1>3, BookAssumption DEF RestingOrder, Order, FillRecord, Quantities
  <2> QED
    BY <2>1, BookAssumption
<1> DEFINE o == Filled(q[i], m)
           l == LiveOrders(q)
<1>o. /\ o \in RestingOrder /\ o.id = q[i].id /\ o.prio = q[i].prio
      /\ q[i].rem # m => o.rem > 0
  BY <1>2, <1>3, FilledType
<1>l. s.book[side][p] = l /\ l \in Seq(RestingOrder)
  BY <1>1, <1>3, LiveOfType, LiveType
<1> HIDE DEF q, o
<1>4. PICK j \in DOMAIN l :
        /\ l[j] = q[i]
        /\ LiveOrders(RemoveAt(q, i)) = RemoveAt(l, j)
        /\ \A x \in RestingOrder : x.rem > 0 =>
               LiveOrders([q EXCEPT ![i] = x]) = [l EXCEPT ![j] = x]
  BY <1>2, <1>3, LivePlace
<1> HIDE DEF l, s, t
<1>5. /\ l[j] = q[i]
      /\ LiveOrders(RemoveAt(q, i)) = RemoveAt(l, j)
      /\ o.rem > 0 => LiveOrders([q EXCEPT ![i] = o]) = [l EXCEPT ![j] = o]
  BY <1>4, <1>o
<1>a. FilledQueue(q, i, m) \in Seq(RestingOrder)
  <2>1. CASE q[i].rem = m
    BY <1>3, <2>1, RemoveAtProperties DEF FilledQueue
  <2>2. CASE q[i].rem # m
    BY <1>3, <1>o, <2>2, DrawnByChange DEF FilledQueue, o
  <2> QED
    BY <2>1, <2>2
<1>b. FilledQueue(l, j, m) \in Seq(RestingOrder)
  <2>1. CASE q[i].rem = m
    BY <1>l, <1>5, <2>1, RemoveAtProperties DEF FilledQueue
  <2>2. CASE q[i].rem # m
    <3>1. FilledQueue(l, j, m) = [l EXCEPT ![j] = o]
      BY <1>5, <2>2 DEF FilledQueue, o
    <3> QED
      BY <1>l, <1>5, <1>o, <3>1, DrawnByChange
  <2> QED
    BY <2>1, <2>2
<1>c. LiveOrders(FilledQueue(q, i, m)) = FilledQueue(l, j, m)
  <2>1. CASE q[i].rem = m
    BY <1>5, <2>1 DEF FilledQueue
  <2>2. CASE q[i].rem # m
    BY <1>5, <1>o, <2>2 DEF FilledQueue, o
  <2> QED
    BY <2>1, <2>2
<1>6. /\ j \in DOMAIN s.book[side][p] /\ s.book[side][p][j].id = r.id
      /\ s.book[side][p][j].rem >= m
  BY <1>l, <1>2, <1>5 DEF q
<1>7. EntriesOf(s.book, r.id) = {<<side, p, j>>}
  BY <1>1, <1>6, FoundAt
<1>8. t = AfterRecord(s, r, WithQueue(s.book, side, p, FilledQueue(s.book[side][p], j, m)))
  <2>0. \E e \in EntriesOf(s.book, r.id) : s.book[e[1]][e[2]][e[3]].rem >= r.qty
    <3> DEFINE e == <<side, p, j>>
    <3>1. e[1] = side /\ e[2] = p /\ e[3] = j
      OBVIOUS
    <3> HIDE DEF e
    <3>2. s.book[e[1]][e[2]][e[3]].rem >= r.qty
      BY <1>6, <3>1
    <3> QED
      BY <1>7, <3>2 DEF e
  <2>1. PICK u \in Sides, v \in Prices : \E k \in DOMAIN s.book[u][v] :
            /\ s.book[u][v][k].id = r.id
            /\ t = AfterRecord(s, r, WithQueue(s.book, u, v,
                                         FilledQueue(s.book[u][v], k, r.qty)))
    BY <1>1, <2>0, FillOutcome
  <2>2. PICK k \in DOMAIN s.book[u][v] :
            /\ s.book[u][v][k].id = r.id
            /\ t = AfterRecord(s, r, WithQueue(s.book, u, v,
                                         FilledQueue(s.book[u][v], k, r.qty)))
    BY <2>1
  <2>3. u = side /\ v = p /\ k = j
    BY <1>1, <1>6, <2>2 DEF NoClashIn, Clash
  <2> QED
    BY <2>2, <2>3
<1>9. LiveOf(c) = WithQueue(s.book, side, p, FilledQueue(l, j, m))
  BY <1>1, <1>a, <1>c, LiveOfWithQueue
<1>10. s.book[side][p] # <<>>
  BY <1>l, <1>6
<1> HIDE DEF c, m
<1>11. t.ok /\ Uncrossed(t.book) /\ t.book = LiveOf(c) /\ r.seq + 1 = t.lastSequence + 1
  BY <1>1, <1>l, <1>8, <1>9, <1>10, <1>b, ThinnedFollows
<1> QED
  BY <1>11

\* The front order of a level is the one at place 1.
LEMMA FrontIsFilled ==
  ASSUME NEW q \in Seq(RestingOrder), q # <<>>, NEW m
  PROVE  FrontFilled(q, m) = FilledQueue(q, 1, m)
<1>1. Head(q) = q[1] /\ Tail(q) = RemoveAt(q, 1)
  BY TailIsErase, HeadTailProperties
<1>2. [q EXCEPT ![1].rem = @ - m] = [q EXCEPT ![1] = Filled(q[1], m)]
  BY DEF Filled
<1> QED
  BY <1>1, <1>2 DEF FrontFilled, FilledQueue

\* Dropping an order with nothing left is not journalled, and need not be.
LEMMA PopFollows ==
  ASSUME NEW f, NEW n, NEW b \in BookType, Follows(f, n, b),
         NEW side \in Sides, NEW p \in Prices, NEW i \in DOMAIN b[side][p],
         ~(b[side][p][i].rem > 0)
  PROVE  Follows(f, n, WithQueue(b, side, p, RemoveAt(b[side][p], i)))
<1> DEFINE q == b[side][p]
           u == RemoveAt(q, i)
<1>1. q \in Seq(RestingOrder)
  BY DEF BookType
<1>2. u \in Seq(RestingOrder) /\ LiveOrders(u) = LiveOrders(q)
  BY <1>1, RemoveAtProperties, DeadPlace
<1>3. LiveOf(WithQueue(b, side, p, u)) = WithQueue(LiveOf(b), side, p, LiveOrders(q))
  BY <1>2, LiveOfWithQueue
<1>4. LiveOf(WithQueue(b, side, p, q)) = WithQueue(LiveOf(b), side, p, LiveOrders(q))
  BY <1>1, LiveOfWithQueue
<1>5. WithQueue(b, side, p, q) = b
  BY DEF WithQueue, BookType
<1>6. LiveOf(WithQueue(b, side, p, u)) = LiveOf(b)
  BY <1>3, <1>4, <1>5
<1> QED
  BY <1>6 DEF Follows

\* A book without the order of this id has not used up the pool.
LEMMA RoomFor ==
  ASSUME PoolHasRoom, NEW b \in BookType, NoClashIn(b), NEW id \in OrderIds,
         \A side \in Sides, p \in Prices : \A i \in DOMAIN b[side][p] :
             b[side][p][i].id # id
  PROVE  Cardinality(Entries(b)) < PoolCapacity
<1> DEFINE E == Entries(b)
           T == OrderIds \ {id}
           g == [e \in E |-> b[e[1]][e[2]][e[3]].id]
<1>1. \A e \in E : g[e] = b[e[1]][e[2]][e[3]].id
  OBVIOUS
<1>2. ASSUME NEW e \in E
      PROVE  g[e] \in T
  <2>1. e[1] \in Sides /\ e[2] \in Prices /\ e[3] \in DOMAIN b[e[1]][e[2]]
    BY PlaceFields
  <2>2. b[e[1]][e[2]][e[3]] \in RestingOrder
    BY <2>1 DEF BookType
  <2> QED
    BY <1>1, <2>1, <2>2 DEF RestingOrder, Order
<1>3. ASSUME NEW e \in E, NEW d \in E, g[e] = g[d]
      PROVE  e = d
  <2>1. e = <<e[1], e[2], e[3]>> /\ d = <<d[1], d[2], d[3]>>
    BY PlaceFields
  <2>2. /\ e[1] \in Sides /\ e[2] \in Prices /\ e[3] \in DOMAIN b[e[1]][e[2]]
        /\ d[1] \in Sides /\ d[2] \in Prices /\ d[3] \in DOMAIN b[d[1]][d[2]]
    BY PlaceFields
  <2>3. Clash(b[e[1]][e[2]][e[3]], b[d[1]][d[2]][d[3]])
    BY <1>1, <1>3 DEF Clash
  <2>4. e[1] = d[1] /\ e[2] = d[2] /\ e[3] = d[3]
    BY <2>2, <2>3 DEF NoClashIn
  <2> QED
    BY <2>1, <2>4
<1>f. g = [e \in E |-> g[e]]
  OBVIOUS
<1> HIDE DEF E, g
<1>4. g \in [E -> T]
  BY <1>2, <1>f
<1>5. IsFiniteSet(T) /\ Cardinality(T) = Cardinality(OrderIds) - 1
  BY FS_RemoveElement DEF PoolHasRoom
<1> HIDE DEF T
<1>6. g \in Injection(E, T)
  BY <1>3, <1>4, Fun_IsInj
<1>7. Cardinality(E) <= Cardinality(T) /\ IsFiniteSet(E)
  BY <1>5, <1>6, FS_Injection
<1>8. Cardinality(E) \in Nat /\ Cardinality(T) \in Nat /\ Cardinality(OrderIds) \in Nat
  BY <1>5, <1>7, FS_CardinalityType DEF PoolHasRoom
<1>9. Cardinality(OrderIds) <= PoolCapacity /\ PoolCapacity \in Nat
  BY BookAssumption DEF PoolHasRoom
<1> QED
  BY <1>5, <1>7, <1>8, <1>9 DEF E

\* An order of the live book is an order of the book.
LEMMA LiveEntries ==
  ASSUME NEW b \in BookType, NEW side \in Sides, NEW p \in Prices,
         NEW i \in DOMAIN LiveOf(b)[side][p]
  PROVE  \E j \in DOMAIN b[side][p] : LiveOf(b)[side][p][i] = b[side][p][j]
<1>1. b[side][p] \in Seq(RestingOrder) /\ LiveOf(b)[side][p] = LiveOrders(b[side][p])
  BY LiveOfType DEF BookType
<1> QED
  BY <1>1, LiveType

\* A level with a live order is a level of the book.
LEMMA EmptyIsLive ==
  ASSUME NEW b \in BookType, NEW side \in Sides, NEW p \in Prices,
         LiveOf(b)[side][p] # <<>>
  PROVE  b[side][p] # <<>>
  BY LiveOfType, LiveEmpty

\* The order a book is joined by.
IsApart(o, b) ==
    \A side \in Sides, p \in Prices : \A i \in DOMAIN b[side][p] :
        b[side][p][i].id # o.id

\* The order o could trade with nothing in b.
CrossesNothing(o, b) ==
    \A p \in Prices : b[Opposite(o.side)][p] # <<>> => ~Crosses(o, p)

\* An order that crosses nothing on the other side leaves the book uncrossed.
LEMMA JoinedUncrossed ==
  ASSUME NEW b \in BookType, Uncrossed(b), NEW o \in RestingOrder,
         CrossesNothing(o, b), NEW q \in Seq(RestingOrder)
  PROVE  Uncrossed(WithQueue(b, o.side, o.price, q))
<1> DEFINE c == WithQueue(b, o.side, o.price, q)
<1>0. /\ o.side \in Sides /\ o.price \in Prices /\ o.type = "LIMIT"
      /\ Prices \subseteq Nat
  BY BookAssumption DEF RestingOrder, Order
<1>1. \A s \in Sides, r \in Prices :
             c[s][r] = IF s = o.side /\ r = o.price THEN q ELSE b[s][r]
  BY <1>0, WithQueueType
<1> HIDE DEF c
<1>2. "BUY" \in Sides /\ "SELL" \in Sides
  BY DEF Sides
<1>3. ASSUME NEW u \in Prices, NEW v \in Prices, c["BUY"][u] # <<>>, c["SELL"][v] # <<>>
      PROVE  u < v
  <2>1. CASE o.side = "BUY"
    <3>1. c["SELL"][v] = b["SELL"][v] /\ Opposite(o.side) = "SELL"
      BY <1>1, <1>2, <2>1 DEF Opposite
    <3>2. CASE u = o.price
      <4>1. ~Crosses(o, v)
        BY <1>3, <3>1 DEF CrossesNothing
      <4> QED
        BY <1>0, <2>1, <3>2, <4>1 DEF Crosses
    <3>3. CASE u # o.price
      <4>1. c["BUY"][u] = b["BUY"][u]
        BY <1>1, <1>2, <3>3
      <4> QED
        BY <1>3, <3>1, <4>1 DEF Uncrossed
    <3> QED
      BY <3>2, <3>3
  <2>2. CASE o.side = "SELL"
    <3>1. c["BUY"][u] = b["BUY"][u] /\ Opposite(o.side) = "BUY"
      BY <1>1, <1>2, <2>2 DEF Opposite
    <3>2. CASE v = o.price
      <4>1. ~Crosses(o, u)
        BY <1>3, <3>1 DEF CrossesNothing
      <4> QED
        BY <1>0, <2>2, <3>2, <4>1 DEF Crosses
    <3>3. CASE v # o.price
      <4>1. c["SELL"][v] = b["SELL"][v]
        BY <1>1, <1>2, <3>3
      <4> QED
        BY <1>3, <3>1, <4>1 DEF Uncrossed
    <3> QED
      BY <3>2, <3>3
  <2> QED
    BY <1>0, <2>1, <2>2 DEF Sides
<1> QED
  BY <1>3 DEF Uncrossed, c

\* addOrder and restoreOrder.
LEMMA NewFollows ==
  ASSUME WholeTicks, PoolHasRoom, NEW f \in Seq(Lines), NEW n \in Nat,
         NEW b \in BookType, Follows(f, n, b),
         NEW r \in NewOrderRecord, r.seq = n, NEW o, o = OrderOf(r),
         IsApart(o, b), CrossesNothing(o, b)
  PROVE  Follows(Append(f, r), n + 1,
                 WithQueue(b, o.side, o.price, Append(b[o.side][o.price], o)))
<1> DEFINE side == o.side
           p == o.price
           q == b[side][p]
           c == WithQueue(b, side, p, Append(q, o))
           s == Apply(f)
           t == Apply(Append(f, r))
<1> SUFFICES ASSUME Clean(Append(f, r))
             PROVE  t.ok /\ Uncrossed(t.book) /\ t.book = LiveOf(c)
                    /\ n + 1 = t.lastSequence + 1
  BY DEF Follows
<1>r. r \in Lines /\ r.kind = "NEW_ORDER" /\ r.id \in OrderIds /\ r.prio \in Nat
  BY DEF Lines, Records, NewOrderRecord
<1>1. /\ r \in Records /\ s \in ReplayState /\ NoClashIn(s.book)
      /\ s.ok /\ Uncrossed(s.book) /\ s.book = LiveOf(b)
      /\ Takes(s, r) /\ t = processRecord(s, r) /\ WellFormed(f, s)
  BY <1>r, FollowedState
<1>o. /\ o \in RestingOrder /\ p \in Prices /\ side \in Sides /\ o.rem > 0
      /\ o.id = r.id /\ o.prio = r.prio
  BY OrderOfType
<1>b. s.book \in BookType /\ s.newOrders \in Nat /\ s.maxPriority \in Nat
  BY <1>1 DEF ReplayState
<1> HIDE DEF s, t
<1>2. validatePrioritySequence(s, r)
  <2>1. CASE s.newOrders = 0
    BY <2>1 DEF validatePrioritySequence
  <2>2. CASE s.newOrders > 0
    <3>1. PICK k \in DOMAIN f : f[k].kind = "NEW_ORDER" /\ f[k].prio = s.maxPriority
      BY <1>1, <2>2 DEF WellFormed, MaxRecorded
    <3>2. f[k].prio < r.prio
      BY <1>r, <3>1, CleanAppend
    <3> QED
      BY <1>b, <1>r, <3>1, <3>2 DEF validatePrioritySequence
  <2> QED
    BY <1>b, <2>1, <2>2
<1>3. \A u \in Sides, v \in Prices : \A i \in DOMAIN s.book[u][v] :
          s.book[u][v][i].id # r.id
  BY <1>1, <1>o, LiveEntries DEF IsApart
<1>4. EntriesOf(s.book, r.id) = {}
  BY <1>3, EntriesOfPlace
<1>5. Cardinality(Entries(s.book)) < PoolCapacity
  BY <1>b, <1>r, <1>1, <1>3, RoomFor
<1>6. t = Restored(s, r)
  BY <1>1, <1>2, <1>4, <1>5, NewOutcome
<1> DEFINE l == s.book[side][p]
           d == WithQueue(s.book, side, p, Append(l, o))
           a == AfterRecord(s, r, d)
<1>7. t = [a EXCEPT !.maxPriority = r.prio, !.newOrders = @ + 1]
  BY <1>6 DEF Restored
<1>8. q \in Seq(RestingOrder) /\ l \in Seq(RestingOrder) /\ l = LiveOrders(q)
  <2>1. q \in Seq(RestingOrder)
    BY <1>o DEF BookType
  <2>2. l \in Seq(RestingOrder)
    BY <1>o, <1>b DEF BookType
  <2>3. l = LiveOf(b)[side][p]
    BY <1>1
  <2>4. LiveOf(b)[side][p] = LiveOrders(b[side][p])
    BY <1>o, LiveOfType
  <2> QED
    BY <2>1, <2>2, <2>3, <2>4
<1>9. Append(l, o) \in Seq(RestingOrder) /\ Append(q, o) \in Seq(RestingOrder)
  BY <1>8, <1>o, AppendProperties
<1>10. LiveOrders(Append(q, o)) = Append(l, o)
  BY <1>8, <1>o, LiveAppend DEF WithLive
<1>11. LiveOf(c) = d
  <2>1. LiveOf(c) = WithQueue(LiveOf(b), side, p, LiveOrders(Append(q, o)))
    BY <1>9, <1>o, LiveOfWithQueue
  <2> QED
    BY <1>1, <1>10, <2>1
<1>12. d \in BookType
  BY <1>b, <1>o, <1>9, WithQueueType
<1>13. Uncrossed(d)
  <2>1. CrossesNothing(o, s.book)
    <3>1. Opposite(side) \in Sides
      BY OppositeType
    <3> QED
      BY <1>1, <3>1, EmptyIsLive DEF CrossesNothing
  <2> QED
    BY <1>b, <1>1, <1>o, <1>9, <2>1, JoinedUncrossed
<1> HIDE DEF c, d
<1>14. /\ a \in ReplayState /\ a.book = d /\ a.ok = s.ok /\ a.lastSequence = r.seq
  BY <1>1, <1>12, AfterRecordFields
<1> HIDE DEF a
<1>15. t.book = a.book /\ t.ok = a.ok /\ t.lastSequence = a.lastSequence
  BY <1>7, <1>14 DEF ReplayState
<1> QED
  BY <1>1, <1>11, <1>13, <1>14, <1>15

\* An in-place replace that leaves nothing is, for replay, a cancel.
LEMMA KilledFollows ==
  ASSUME NEW f, NEW n, NEW b \in BookType,
         NEW side \in Sides, NEW p \in Prices, NEW i \in DOMAIN b[side][p],
         NEW o \in RestingOrder, ~(o.rem > 0),
         Follows(f, n, WithQueue(b, side, p, RemoveAt(b[side][p], i)))
  PROVE  Follows(f, n, WithQueue(b, side, p, [b[side][p] EXCEPT ![i] = o]))
<1> DEFINE q == b[side][p]
           u == RemoveAt(q, i)
           v == [q EXCEPT ![i] = o]
<1>1. q \in Seq(RestingOrder)
  BY DEF BookType
<1>2. u \in Seq(RestingOrder) /\ v \in Seq(RestingOrder) /\ LiveOrders(u) = LiveOrders(v)
  <2> HIDE DEF q
  <2> QED
    BY <1>1, i \in DOMAIN q, RemoveAtProperties, DeadPlace, LenProperties, ExceptSeq DEF q
<1> HIDE DEF u, v
<1>3. LiveOf(WithQueue(b, side, p, u)) = LiveOf(WithQueue(b, side, p, v))
  BY <1>2, LiveOfWithQueue
<1>4. Follows(f, n, WithQueue(b, side, p, u))
  BY DEF u
<1>5. Follows(f, n, WithQueue(b, side, p, v))
  BY <1>3, <1>4 DEF Follows
<1> QED
  BY <1>5 DEF v

\* A replace that keeps its place announces its priority a second time.
LEMMA SamePriorityUnclean ==
  ASSUME WholeTicks, NEW f \in Seq(Lines), NEW n \in Nat, NEW b \in BookType,
         Follows(f, n, b),
         NEW side \in Sides, NEW p \in Prices, NEW i \in DOMAIN b[side][p],
         NEW r \in CancelRecord, r.seq = n, r.rem = b[side][p][i].rem,
         NEW x \in NewOrderRecord, x.prio = b[side][p][i].prio
  PROVE  ~Clean(Append(Append(f, r), x))
<1> SUFFICES ASSUME Clean(Append(Append(f, r), x)) PROVE FALSE
  OBVIOUS
<1> DEFINE F == Append(f, r)
           s == Apply(f)
           q == b[side][p]
<1>0. r \in Lines /\ x \in Lines /\ x.kind = "NEW_ORDER" /\ r.kind = "CANCEL_ORDER"
  BY DEF Lines, Records, NewOrderRecord, CancelRecord
<1>1. F \in Seq(Lines) /\ \A k \in DOMAIN f : k \in DOMAIN F /\ F[k] = f[k]
  BY <1>0, AppendProperties, LenProperties
<1> HIDE DEF F
<1>2. Clean(F) /\ \A k \in DOMAIN F : F[k].kind = "NEW_ORDER" => F[k].prio < x.prio
  BY <1>0, <1>1, CleanAppend DEF F
<1>3. q[i].rem > 0
  BY <1>0, <1>2, CleanAppend DEF F
<1>4. WellFormed(f, s) /\ s.book = LiveOf(b)
  BY <1>0, <1>2, FollowedState DEF F
<1>5. q \in Seq(RestingOrder) /\ q[i] \in RestingOrder
  BY DEF BookType
<1>i. i \in DOMAIN q
  OBVIOUS
<1> HIDE DEF q
<1>6. PICK j \in DOMAIN LiveOrders(q) :
            /\ LiveOrders(q)[j] = q[i]
            /\ LiveOrders(RemoveAt(q, i)) = RemoveAt(LiveOrders(q), j)
            /\ \A o \in RestingOrder : o.rem > 0 =>
                   LiveOrders([q EXCEPT ![i] = o]) = [LiveOrders(q) EXCEPT ![j] = o]
  BY <1>3, <1>i, <1>5, LivePlace
<1>7. s.book[side][p] = LiveOrders(q)
  BY <1>4, LiveOfType DEF q
<1> HIDE DEF s
<1>8. Backed(f, s, q[i])
  BY <1>4, <1>6, <1>7 DEF WellFormed, AllBacked
<1>9. PICK k \in DOMAIN f : f[k].kind = "NEW_ORDER" /\ f[k].prio = q[i].prio
  BY <1>8 DEF Backed
<1>x. x.prio = q[i].prio
  BY DEF q
<1>p. q[i].prio \in Nat
  BY <1>5 DEF RestingOrder, Order
<1>10. q[i].prio < q[i].prio /\ q[i].prio \in Nat
  <2>1. k \in DOMAIN F /\ F[k] = f[k]
    BY <1>1, <1>9
  <2>2. F[k].prio < x.prio
    BY <1>2, <1>9, <2>1
  <2> QED
    BY <1>9, <1>x, <1>p, <2>1, <2>2
<1> QED
  BY <1>10

-----------------------------------------------------------------------------
(* The events of an operation and their records                             *)

\* The orders that may be announced as accepted.
Announced == {o \in RestingOrder : o.rem > 0 /\ o.prio < PriorityMax}

\* The events an operation publishes.
TradeEvents ==
    [kind : {"trade"}, resting : OrderIds, aggressor : OrderIds,
     trader : Traders, qty : Quantities,
     price : {doubleToTicks(p) : p \in Prices}, aggressorIsBuy : BOOLEAN]

EngineEvents ==
    {OrderCancelledEvent(o) : o \in RestingOrder}
    \cup TradeEvents
    \cup {OrderAcceptedEvent(o) : o \in Announced}

\* The record of a cancel names the order.
LEMMA CancelledRecord ==
  ASSUME NEW n \in Nat, NEW o \in RestingOrder
  PROVE  /\ Record(n, OrderCancelledEvent(o)) \in CancelRecord
         /\ Record(n, OrderCancelledEvent(o)).seq = n
         /\ Record(n, OrderCancelledEvent(o)).id = o.id
         /\ Record(n, OrderCancelledEvent(o)).rem = o.rem
<1> DEFINE r == [kind |-> "CANCEL_ORDER", seq |-> n, id |-> o.id, rem |-> o.rem]
<1>1. Record(n, OrderCancelledEvent(o)) = r
  BY DEF Record, OrderCancelledEvent
<1>2. o.id \in OrderIds /\ o.rem \in Nat
  BY BookAssumption DEF RestingOrder, Order
<1>3. r \in CancelRecord
  BY <1>2 DEF CancelRecord
<1> QED
  BY <1>1, <1>3

\* The record of a trade names the resting order and the quantity.
LEMMA TradedRecord ==
  ASSUME NEW n \in Nat, NEW e \in TradeEvents
  PROVE  /\ Record(n, e) \in FillRecord
         /\ Record(n, e).seq = n
         /\ Record(n, e).id = e.resting
         /\ Record(n, e).qty = e.qty
<1> DEFINE r == [kind |-> "FILL", seq |-> n, id |-> e.resting, qty |-> e.qty]
<1>0. e.kind = "trade" /\ e.resting \in OrderIds /\ e.qty \in Quantities
  BY DEF TradeEvents
<1>1. Record(n, e) = r
  BY <1>0 DEF Record
<1>3. r \in FillRecord
  BY <1>0 DEF FillRecord
<1> QED
  BY <1>1, <1>3

\* The record of an accepted order is the order, its price in ticks.
LEMMA AcceptedRecord ==
  ASSUME WholeTicks, NEW n \in Nat, NEW o \in Announced
  PROVE  /\ Record(n, OrderAcceptedEvent(o)) \in NewOrderRecord
         /\ Record(n, OrderAcceptedEvent(o)).seq = n
         /\ Record(n, OrderAcceptedEvent(o)).id = o.id
         /\ Record(n, OrderAcceptedEvent(o)).prio = o.prio
         /\ OrderOf(Record(n, OrderAcceptedEvent(o))) = o
<1> DEFINE r == [kind |-> "NEW_ORDER", seq |-> n, id |-> o.id,
                 trader |-> o.trader, side |-> o.side,
                 price |-> doubleToTicks(o.price), qty |-> o.qty,
                 rem |-> o.rem, type |-> o.type, prio |-> o.prio]
<1>0. /\ o.id \in OrderIds /\ o.trader \in Traders /\ o.side \in Sides
      /\ o.type = "LIMIT" /\ o.price \in Prices /\ o.qty \in Quantities
      /\ o.rem \in Quantities /\ o.rem <= o.qty /\ o.prio \in Nat
      /\ o.prio < PriorityMax
  BY BookAssumption DEF Announced, RestingOrder, Order, Quantities
<1>1. Record(n, OrderAcceptedEvent(o)) = r
  BY <1>0 DEF Record, OrderAcceptedEvent, Sides
<1>2. doubleToTicks(o.price) \in {doubleToTicks(p) : p \in Prices}
  BY <1>0
<1>3. r \in NewOrderRecord
  BY <1>0, <1>2 DEF NewOrderRecord
<1>4. TicksToPrice(doubleToTicks(o.price)) = o.price
  BY <1>0 DEF WholeTicks
<1>5. o = [id |-> o.id, trader |-> o.trader, side |-> o.side, type |-> o.type,
           price |-> o.price, qty |-> o.qty, rem |-> o.rem, prio |-> o.prio]
  BY DEF Announced, RestingOrder, Order
<1>6. OrderOf(r) = o
  BY <1>4, <1>5 DEF OrderOf
<1> QED
  BY <1>1, <1>3, <1>6

\* The journal writes a record of one of the three kinds for every event.
LEMMA RecordType ==
  ASSUME WholeTicks, NEW n \in Nat, NEW e \in EngineEvents
  PROVE  Record(n, e) \in Lines
  BY CancelledRecord, TradedRecord, AcceptedRecord DEF EngineEvents, Lines, Records

-----------------------------------------------------------------------------
(* The records still to be published, one by one *)

\* The records of a journal and, behind them, those still to be published.
LEMMA ExtendedFields ==
  ASSUME WholeTicks, NEW f \in Seq(Lines), NEW n \in Nat,
         NEW ev \in Seq(EngineEvents), NEW k \in Nat, k <= Len(ev)
  PROVE  /\ Extended(f, n, ev, k) \in Seq(Lines)
         /\ Len(Extended(f, n, ev, k)) = Len(f) + (Len(ev) - k)
         /\ \A i \in 1 .. Len(f) : Extended(f, n, ev, k)[i] = f[i]
         /\ \A i \in 1 .. Len(ev) - k :
                Extended(f, n, ev, k)[Len(f) + i] = Record(n + (i - 1), ev[k + i])
<1> DEFINE m == Len(ev) - k
           g == [i \in 1 .. m |-> Record(n + (i - 1), ev[k + i])]
           a == Len(f)
<1>1. Len(ev) \in Nat /\ m \in Nat /\ a \in Nat
  BY LenProperties
<1>2. ASSUME NEW i \in 1 .. m
      PROVE  Record(n + (i - 1), ev[k + i]) \in Lines
  <2>1. k + i \in 1 .. Len(ev) /\ n + (i - 1) \in Nat
    BY <1>1
  <2>2. ev[k + i] \in EngineEvents
    BY <2>1, ElementOfSeq
  <2> QED
    BY <2>1, <2>2, RecordType
<1>3. g \in Seq(Lines) /\ Len(g) = m
  BY <1>1, <1>2
<1>4. \A i \in 1 .. m : g[i] = Record(n + (i - 1), ev[k + i])
  OBVIOUS
<1>e. Extended(f, n, ev, k) = f \o g
  BY DEF Extended
<1> HIDE DEF g, m
<1>5. /\ f \o g \in Seq(Lines) /\ Len(f \o g) = a + m
      /\ \A i \in 1 .. a + m :
             (f \o g)[i] = IF i <= a THEN f[i] ELSE g[i - a]
  BY <1>3, ConcatProperties
<1> DEFINE h == f \o g
<1> HIDE DEF h, a
<1>6. \A i \in 1 .. a : h[i] = f[i]
  BY <1>1, <1>5 DEF h
<1>7. ASSUME NEW i \in 1 .. m
      PROVE  h[a + i] = g[i]
  <2>1. a + i \in 1 .. a + m /\ ~(a + i <= a) /\ (a + i) - a = i
    BY <1>1
  <2> QED
    BY <1>5, <2>1 DEF h
<1>8. h \in Seq(Lines) /\ Len(h) = a + m
  BY <1>5 DEF h
<1> QED
  BY <1>4, <1>6, <1>7, <1>8, <1>e DEF h, a, m

\* h is the file f and, numbered from n, the records of the events behind k.
Extends(h, f, n, ev, k) ==
    /\ h \in Seq(Lines)
    /\ Len(h) = Len(f) + (Len(ev) - k)
    /\ \A i \in 1 .. Len(f) : h[i] = f[i]
    /\ \A i \in 1 .. Len(ev) - k :
           h[Len(f) + i] = Record(n + (i - 1), ev[k + i])

\* The same, under one name.
LEMMA ExtendedExtends ==
  ASSUME WholeTicks, NEW f \in Seq(Lines), NEW n \in Nat,
         NEW ev \in Seq(EngineEvents), NEW k \in Nat, k <= Len(ev)
  PROVE  Extends(Extended(f, n, ev, k), f, n, ev, k)
<1> DEFINE h == Extended(f, n, ev, k)
<1>1. /\ h \in Seq(Lines)
      /\ Len(h) = Len(f) + (Len(ev) - k)
      /\ \A i \in 1 .. Len(f) : h[i] = f[i]
      /\ \A i \in 1 .. Len(ev) - k :
             h[Len(f) + i] = Record(n + (i - 1), ev[k + i])
  BY ExtendedFields
<1> HIDE DEF h
<1>2. Extends(h, f, n, ev, k)
  BY <1>1 DEF Extends
<1> QED
  BY <1>2 DEF h

\* Sequences that agree.
LEMMA SameSequence ==
  ASSUME NEW S, NEW f \in Seq(S), NEW g \in Seq(S), Len(f) = Len(g),
         \A i \in 1 .. Len(f) : f[i] = g[i]
  PROVE  f = g
  BY SeqEqual

\* Another event happens.
LEMMA ExtendedByEvent ==
  ASSUME WholeTicks, NEW f \in Seq(Lines), NEW n \in Nat,
         NEW ev \in Seq(EngineEvents), NEW k \in Nat, k <= Len(ev),
         NEW x \in EngineEvents
  PROVE  Extended(f, n, Append(ev, x), k) =
             Append(Extended(f, n, ev, k), Record(n + (Len(ev) - k), x))
<1> DEFINE e == Append(ev, x)
           a == Len(f)
           m == Len(ev) - k
           r == Record(n + m, x)
           g == Extended(f, n, ev, k)
           h == Extended(f, n, e, k)
           u == Append(g, r)
<1>1. Len(ev) \in Nat /\ m \in Nat /\ a \in Nat
  BY LenProperties
<1>2. /\ e \in Seq(EngineEvents) /\ Len(e) = Len(ev) + 1 /\ e[Len(ev) + 1] = x
      /\ \A i \in 1 .. Len(ev) : e[i] = ev[i]
  BY AppendProperties
<1>3. /\ g \in Seq(Lines) /\ Len(g) = a + m
      /\ \A i \in 1 .. a : g[i] = f[i]
      /\ \A i \in 1 .. m : g[a + i] = Record(n + (i - 1), ev[k + i])
  BY ExtendedFields
<1>4. r \in Lines
  BY <1>1, RecordType
<1>5. Len(e) - k = m + 1 /\ k <= Len(e)
  BY <1>1, <1>2
<1> HIDE DEF e, g, r
<1>6. /\ h \in Seq(Lines) /\ Len(h) = a + (m + 1)
      /\ \A i \in 1 .. a : h[i] = f[i]
      /\ \A i \in 1 .. m + 1 : h[a + i] = Record(n + (i - 1), e[k + i])
  <2>1. /\ h \in Seq(Lines) /\ Len(h) = a + (Len(e) - k)
        /\ \A i \in 1 .. a : h[i] = f[i]
        /\ \A i \in 1 .. Len(e) - k : h[a + i] = Record(n + (i - 1), e[k + i])
    BY <1>2, <1>5, ExtendedFields
  <2> HIDE DEF h, a, m
  <2> QED
    BY <1>5, <2>1
<1>7. /\ u \in Seq(Lines) /\ Len(u) = (a + m) + 1 /\ u[(a + m) + 1] = r
      /\ \A i \in 1 .. a + m : u[i] = g[i]
  BY <1>3, <1>4, AppendProperties
<1>8. k + (m + 1) = Len(ev) + 1 /\ n + ((m + 1) - 1) = n + m
  BY <1>1
<1>9. \A i \in 1 .. m : k + i \in 1 .. Len(ev)
  BY <1>1
<1> HIDE DEF h, u, a, m
<1>10. ASSUME NEW i \in 1 .. a + (m + 1)
       PROVE  h[i] = u[i]
  <2>1. CASE i \in 1 .. a
    BY <1>1, <1>3, <1>6, <1>7, <2>1
  <2>2. CASE i \in a + 1 .. a + m
    <3>1. i - a \in 1 .. m /\ i - a \in 1 .. m + 1 /\ a + (i - a) = i /\ i \in 1 .. a + m
      BY <1>1, <2>2
    <3>2. h[i] = Record(n + ((i - a) - 1), e[k + (i - a)])
      BY <1>6, <3>1
    <3>3. g[i] = Record(n + ((i - a) - 1), ev[k + (i - a)])
      BY <1>3, <3>1
    <3>4. e[k + (i - a)] = ev[k + (i - a)]
      BY <1>2, <1>9, <3>1
    <3> QED
      BY <1>7, <3>1, <3>2, <3>3, <3>4
  <2>3. CASE i = a + (m + 1)
    <3>1. m + 1 \in 1 .. m + 1 /\ i = (a + m) + 1
      BY <1>1, <2>3
    <3>2. h[i] = Record(n + ((m + 1) - 1), e[k + (m + 1)])
      BY <1>6, <2>3, <3>1
    <3> QED
      BY <1>2, <1>7, <1>8, <3>1, <3>2 DEF r, m
  <2> QED
    BY <1>1, <2>1, <2>2, <2>3
<1>11. Len(h) = Len(u)
  BY <1>1, <1>6, <1>7
<1>12. h = u
  BY <1>6, <1>7, <1>10, <1>11, SameSequence
<1> QED
  BY <1>12 DEF h, u, e, g, r, m

\* An event that has happened reaches the journal.
LEMMA ExtendedByRecord ==
  ASSUME WholeTicks, NEW f \in Seq(Lines), NEW n \in Nat,
         NEW ev \in Seq(EngineEvents), NEW k \in Nat, k < Len(ev)
  PROVE  /\ Append(f, Record(n, ev[k + 1])) \in Seq(Lines)
         /\ Extended(Append(f, Record(n, ev[k + 1])), n + 1, ev, k + 1) =
                Extended(f, n, ev, k)
<1> DEFINE r == Record(n, ev[k + 1])
           a == Len(f)
           m == Len(ev) - (k + 1)
           F == Append(f, r)
           g == Extended(f, n, ev, k)
           h == Extended(F, n + 1, ev, k + 1)
<1>1. Len(ev) \in Nat /\ m \in Nat /\ a \in Nat /\ Len(ev) - k = m + 1
  BY LenProperties
<1>2. k + 1 \in 1 .. Len(ev) /\ k + 1 \in Nat /\ k + 1 <= Len(ev) /\ n + 1 \in Nat
      /\ k <= Len(ev)
  BY <1>1
<1>3. r \in Lines
  BY <1>2, ElementOfSeq, RecordType
<1> HIDE DEF r
<1>4. /\ F \in Seq(Lines) /\ Len(F) = a + 1 /\ F[a + 1] = r
      /\ \A i \in 1 .. a : F[i] = f[i]
  BY <1>3, AppendProperties
<1>5. /\ g \in Seq(Lines) /\ Len(g) = a + (m + 1)
      /\ \A i \in 1 .. a : g[i] = f[i]
      /\ \A i \in 1 .. m + 1 : g[a + i] = Record(n + (i - 1), ev[k + i])
  <2>1. /\ g \in Seq(Lines) /\ Len(g) = a + (Len(ev) - k)
        /\ \A i \in 1 .. a : g[i] = f[i]
        /\ \A i \in 1 .. Len(ev) - k : g[a + i] = Record(n + (i - 1), ev[k + i])
    BY <1>2, ExtendedFields
  <2> HIDE DEF g, a, m
  <2> QED
    BY <1>1, <2>1
<1> HIDE DEF F, g
<1>6. /\ h \in Seq(Lines) /\ Len(h) = (a + 1) + m
      /\ \A i \in 1 .. a + 1 : h[i] = F[i]
      /\ \A i \in 1 .. m :
             h[(a + 1) + i] = Record((n + 1) + (i - 1), ev[(k + 1) + i])
  <2>1. /\ h \in Seq(Lines) /\ Len(h) = Len(F) + m
        /\ \A i \in 1 .. Len(F) : h[i] = F[i]
        /\ \A i \in 1 .. m :
               h[Len(F) + i] = Record((n + 1) + (i - 1), ev[(k + 1) + i])
    <3> DEFINE N == n + 1
               K == k + 1
               H == Extended(F, N, ev, K)
    <3>1. N \in Nat /\ K \in Nat /\ K <= Len(ev) /\ F \in Seq(Lines)
      BY <1>2, <1>4
    <3> HIDE DEF N, K
    <3>2. Extends(H, F, N, ev, K)
      BY <3>1, ExtendedExtends
    <3> HIDE DEF h, H
    <3>3. h = H
      BY DEF h, H, N, K
    <3> QED
      BY <3>2, <3>3 DEF Extends, N, K
  <2> HIDE DEF h, a, m
  <2> QED
    BY <1>4, <2>1
<1> HIDE DEF h, a, m
<1>7. ASSUME NEW i \in 1 .. a + (m + 1)
      PROVE  h[i] = g[i]
  <2>1. CASE i \in 1 .. a
    BY <1>1, <1>4, <1>5, <1>6, <2>1
  <2>2. CASE i = a + 1
    <3>1. 1 \in 1 .. m + 1 /\ a + 1 \in 1 .. a + 1 /\ n + (1 - 1) = n
      BY <1>1
    <3>2. g[i] = Record(n + (1 - 1), ev[k + 1])
      BY <1>5, <2>2, <3>1
    <3> QED
      BY <1>4, <1>6, <2>2, <3>1, <3>2 DEF r
  <2>3. CASE i \in a + 2 .. a + (m + 1)
    <3> DEFINE j == i - (a + 1)
    <3>1. /\ j \in 1 .. m /\ (a + 1) + j = i /\ j + 1 \in 1 .. m + 1
          /\ a + (j + 1) = i /\ (n + 1) + (j - 1) = n + ((j + 1) - 1)
          /\ (k + 1) + j = k + (j + 1)
      BY <1>1, <2>3
    <3> HIDE DEF j
    <3>2. h[i] = Record((n + 1) + (j - 1), ev[(k + 1) + j])
      BY <1>6, <3>1
    <3>3. g[i] = Record(n + ((j + 1) - 1), ev[k + (j + 1)])
      BY <1>5, <3>1
    <3> QED
      BY <3>1, <3>2, <3>3
  <2> QED
    BY <1>1, <2>1, <2>2, <2>3
<1>8. Len(h) = Len(g) /\ Len(h) = a + (m + 1)
  BY <1>1, <1>5, <1>6
<1>9. h = g
  BY <1>5, <1>6, <1>7, <1>8, SameSequence
<1> QED
  BY <1>4, <1>9 DEF F, g, h, r

\* All that has happened is in the file.
LEMMA ExtendedByNothing ==
  ASSUME WholeTicks, NEW f \in Seq(Lines), NEW n \in Nat,
         NEW ev \in Seq(EngineEvents)
  PROVE  Extended(f, n, ev, Len(ev)) = f
<1> DEFINE h == Extended(f, n, ev, Len(ev))
<1>1. Len(ev) \in Nat /\ Len(f) \in Nat /\ Len(f) + (Len(ev) - Len(ev)) = Len(f)
      /\ Len(ev) <= Len(ev)
  BY LenProperties
<1>2. /\ h \in Seq(Lines) /\ Len(h) = Len(f) + (Len(ev) - Len(ev))
      /\ \A i \in 1 .. Len(f) : h[i] = f[i]
  BY <1>1, ExtendedFields
<1> HIDE DEF h
<1>3. h = f
  BY <1>1, <1>2, SameSequence
<1> QED
  BY <1>3 DEF h

\* The file is a beginning of it.
LEMMA ExtendedPrefix ==
  ASSUME WholeTicks, NEW f \in Seq(Lines), NEW n \in Nat,
         NEW ev \in Seq(EngineEvents), NEW k \in Nat, k <= Len(ev)
  PROVE  /\ Len(f) \in 0 .. Len(Extended(f, n, ev, k))
         /\ SubSeq(Extended(f, n, ev, k), 1, Len(f)) = f
<1> DEFINE h == Extended(f, n, ev, k)
           g == SubSeq(h, 1, Len(f))
<1>1. /\ h \in Seq(Lines) /\ Len(h) = Len(f) + (Len(ev) - k)
      /\ \A i \in 1 .. Len(f) : h[i] = f[i]
  BY ExtendedFields
<1>2. Len(ev) \in Nat /\ Len(f) \in Nat
  BY LenProperties
<1>3. Len(f) \in 0 .. Len(h)
  BY <1>1, <1>2
<1> HIDE DEF h
<1>4. g \in Seq(Lines) /\ Len(g) = Len(f) /\ \A i \in 1 .. Len(f) : g[i] = h[i]
  BY <1>1, <1>2, <1>3, SubSeqProperties
<1> HIDE DEF g
<1>5. g = f
  BY <1>1, <1>4, SameSequence
<1> QED
  BY <1>3, <1>5 DEF g, h

-----------------------------------------------------------------------------
(* What has happened in the operation in progress                           *)

\* The two parts of CallEvents.
TradesHappened == [k \in DOMAIN trades |-> TradeEvent(trades[k])]

CancelHappened == IF old = NoOrder THEN <<>> ELSE <<OrderCancelledEvent(old)>>

\* The copy a cancel or a replace keeps, and the trades, are events.
LEMMA TradeEventType ==
  ASSUME NEW t \in Trade
  PROVE  TradeEvent(t) \in EngineEvents /\ TradeEvent(t) \in TradeEvents
<1>1. /\ t.resting \in OrderIds /\ t.aggressor \in OrderIds
      /\ t.aggressorTrader \in Traders /\ t.qty \in Quantities /\ t.price \in Prices
  BY DEF Trade
<1>2. (incoming.side = "BUY") \in BOOLEAN
  OBVIOUS
<1>3. TradeEvent(t) \in TradeEvents
  BY <1>1, <1>2 DEF TradeEvent, TradeEvents
<1> QED
  BY <1>3 DEF EngineEvents

\* The events of an operation so far: the cancel, then the trades.
LEMMA PartsHappened ==
  ASSUME old \in RestingOrder \cup {NoOrder}, trades \in Seq(Trade)
  PROVE  /\ CancelHappened \in Seq(EngineEvents)
         /\ TradesHappened \in Seq(EngineEvents)
         /\ Len(TradesHappened) = Len(trades)
         /\ CallEvents = CancelHappened \o TradesHappened
         /\ CallEvents \in Seq(EngineEvents)
<1>1. CancelHappened \in Seq(EngineEvents)
  <2>1. CASE old = NoOrder
    BY <2>1 DEF CancelHappened
  <2>2. CASE old # NoOrder
    <3> DEFINE x == OrderCancelledEvent(old)
    <3>1. x \in EngineEvents
      BY <2>2 DEF EngineEvents
    <3> HIDE DEF x
    <3>2. CancelHappened = <<x>>
      BY <2>2 DEF CancelHappened, x
    <3> QED
      BY <3>1, <3>2
  <2> QED
    BY <2>1, <2>2
<1>2. TradesHappened \in Seq(EngineEvents) /\ Len(TradesHappened) = Len(trades)
  <2>1. DOMAIN trades = 1 .. Len(trades) /\ Len(trades) \in Nat
    BY LenProperties
  <2>2. \A k \in 1 .. Len(trades) : TradeEvent(trades[k]) \in EngineEvents
    BY <2>1, ElementOfSeq, TradeEventType
  <2> DEFINE n == Len(trades)
             g(k) == TradeEvent(trades[k])
  <2>3. TradesHappened = [k \in 1 .. n |-> g(k)]
    BY <2>1 DEF TradesHappened
  <2>4. n \in Nat /\ \A k \in 1 .. n : g(k) \in EngineEvents
    BY <2>1, <2>2
  <2> HIDE DEF n, g
  <2>5. [k \in 1 .. n |-> g(k)] \in Seq(EngineEvents)
        /\ Len([k \in 1 .. n |-> g(k)]) = n
    BY <2>4
  <2> QED
    BY <2>3, <2>5 DEF n
<1>3. CallEvents = CancelHappened \o TradesHappened
  BY DEF CallEvents, CancelHappened, TradesHappened
<1>4. CallEvents \in Seq(EngineEvents)
  BY <1>1, <1>2, <1>3, ConcatProperties
<1> QED
  BY <1>1, <1>2, <1>3, <1>4

\* Nothing has happened between two operations.
LEMMA NothingHappened ==
  ASSUME old = NoOrder, trades = <<>>
  PROVE  CallEvents = <<>>
<1>1. trades \in Seq(Trade) /\ Len(trades) = 0
  OBVIOUS
<1>2. /\ TradesHappened \in Seq(EngineEvents) /\ Len(TradesHappened) = 0
      /\ CallEvents = CancelHappened \o TradesHappened
  BY <1>1, PartsHappened
<1>3. TradesHappened = <<>> /\ CancelHappened = <<>>
  BY <1>2, EmptySeq DEF CancelHappened
<1> QED
  BY <1>2, <1>3

\* A cancel, or a replace that has not traded yet.
LEMMA CancelHasHappened ==
  ASSUME old \in RestingOrder, trades = <<>>
  PROVE  CallEvents = Append(<<>>, OrderCancelledEvent(old))
<1>1. trades \in Seq(Trade) /\ Len(trades) = 0
  OBVIOUS
<1>2. /\ TradesHappened \in Seq(EngineEvents) /\ Len(TradesHappened) = 0
      /\ CallEvents = CancelHappened \o TradesHappened
      /\ CancelHappened \in Seq(EngineEvents)
  BY <1>1, PartsHappened
<1>3. TradesHappened = <<>>
  BY <1>2, EmptySeq
<1>4. old # NoOrder
  BY DEF RestingOrder, Order, NoOrder
<1>5. CancelHappened = <<OrderCancelledEvent(old)>>
  BY <1>4 DEF CancelHappened
<1>6. CallEvents = CancelHappened
  BY <1>2, <1>3, ConcatEmptySeq
<1> DEFINE x == OrderCancelledEvent(old)
<1> HIDE DEF x
<1>7. <<x>> = Append(<<>>, x)
  OBVIOUS
<1> QED
  BY <1>5, <1>6, <1>7 DEF x

\* A trade is one more event.
LEMMA TradeHasHappened ==
  ASSUME TypeOK, TypeOK', old' = old, incoming'.side = incoming.side,
         NEW t \in Trade, trades' = Append(trades, t)
  PROVE  CallEvents' = Append(CallEvents, TradeEvent(t))
<1>0. trades \in Seq(Trade) /\ trades' \in Seq(Trade)
      /\ old \in RestingOrder \cup {NoOrder}
  BY DEF TypeOK
<1> DEFINE c == CancelHappened
           g == TradesHappened
           h == TradesHappened'
           x == TradeEvent(t)
           n == Len(trades)
<1>1. /\ c \in Seq(EngineEvents) /\ g \in Seq(EngineEvents) /\ Len(g) = n
      /\ CallEvents = c \o g
  BY <1>0, PartsHappened
<1>2. /\ h \in Seq(EngineEvents) /\ Len(h) = Len(trades')
      /\ CallEvents' = CancelHappened' \o h
  <2>1. (old \in RestingOrder \cup {NoOrder})' /\ (trades \in Seq(Trade))'
    BY <1>0
  <2>2. (old \in RestingOrder \cup {NoOrder} /\ trades \in Seq(Trade) =>
           /\ TradesHappened \in Seq(EngineEvents) /\ Len(TradesHappened) = Len(trades)
           /\ CallEvents = CancelHappened \o TradesHappened)'
    <3>1. old \in RestingOrder \cup {NoOrder} /\ trades \in Seq(Trade) =>
           /\ TradesHappened \in Seq(EngineEvents) /\ Len(TradesHappened) = Len(trades)
           /\ CallEvents = CancelHappened \o TradesHappened
      BY PartsHappened
    <3> QED
      BY PartsHappened, PTL
  <2> QED
    BY <2>1, <2>2
<1>3. CancelHappened' = c
  BY DEF CancelHappened
<1>4. x \in EngineEvents
  BY TradeEventType
<1>5. n \in Nat /\ Len(trades') = n + 1 /\ trades'[n + 1] = t
      /\ \A k \in 1 .. n : trades'[k] = trades[k]
  BY <1>0, AppendProperties, LenProperties
<1>7. \A k \in 1 .. n : g[k] = TradeEvent(trades[k])
  BY <1>0, LenProperties DEF TradesHappened
<1>8. h = [k \in DOMAIN trades' |-> TradeEvent(trades'[k])]
  BY DEF TradesHappened, TradeEvent
<1>d. DOMAIN trades' = 1 .. n + 1
  BY <1>0, <1>5, LenProperties
<1>9. \A k \in 1 .. n + 1 : h[k] = TradeEvent(trades'[k])
  BY <1>8, <1>d
<1> DEFINE u == Append(g, x)
<1>10. /\ u \in Seq(EngineEvents) /\ Len(u) = n + 1 /\ u[n + 1] = x
       /\ \A k \in 1 .. n : u[k] = g[k]
  BY <1>1, <1>4, AppendProperties
<1>11. Len(h) = n + 1
  BY <1>2, <1>5
<1> HIDE DEF g, h, n, u
<1>12. \A k \in 1 .. n + 1 : h[k] = u[k]
  <2>1. \A k \in 1 .. n + 1 : k \in 1 .. n \/ k = n + 1
    BY <1>5 DEF n
  <2>2. ASSUME NEW k \in 1 .. n PROVE h[k] = u[k]
    <3>1. k \in 1 .. n + 1 /\ trades'[k] = trades[k]
      BY <1>5 DEF n
    <3> QED
      BY <1>7, <1>9, <1>10, <2>2, <3>1
  <2>3. h[n + 1] = u[n + 1]
    <3>1. n + 1 \in 1 .. n + 1 /\ trades'[n + 1] = t
      BY <1>5 DEF n
    <3> QED
      BY <1>9, <1>10, <3>1
  <2> QED
    BY <2>1, <2>2, <2>3
<1>13. h = u
  BY <1>2, <1>10, <1>11, <1>12, SameSequence
<1>14. c \o Append(g, x) = Append(c \o g, x)
  <2> HIDE DEF c, x
  <2> QED
    BY <1>1, <1>4
<1> QED
  BY <1>1, <1>2, <1>3, <1>13, <1>14 DEF u

\* What an operation publishes.
LEMMA EventsAre ==
  ASSUME old \in RestingOrder \cup {NoOrder}, trades \in Seq(Trade)
  PROVE  Events = IF AnnouncesAccepted
                  THEN Append(CallEvents, OrderAcceptedEvent(incoming))
                  ELSE CallEvents
<1> DEFINE g == CallEvents
           x == OrderAcceptedEvent(incoming)
<1>1. g \in Seq(EngineEvents)
  BY PartsHappened
<1>2. Events = g \o (IF AnnouncesAccepted THEN <<x>> ELSE <<>>)
  BY DEF Events, CallEvents
<1> DEFINE T == EngineEvents \cup {x}
<1>3. g \in Seq(T) /\ x \in T
  BY <1>1
<1> HIDE DEF g, x, T
<1>4. g \o <<x>> = Append(g, x) /\ g \o <<>> = g
  BY <1>3
<1>5. CASE AnnouncesAccepted
  BY <1>2, <1>4, <1>5 DEF g, x
<1>6. CASE ~AnnouncesAccepted
  BY <1>2, <1>4, <1>6 DEF g, x
<1> QED
  BY <1>5, <1>6

\* Only an accepted order makes a NEW_ORDER record.
LEMMA RecordNames ==
  ASSUME WholeTicks, NEW n \in Nat, NEW x \in EngineEvents,
         IsNewOrder(Record(n, x))
  PROVE  \E o \in Announced : x = OrderAcceptedEvent(o) /\ Record(n, x).id = o.id
<1>1. CASE x \in {OrderCancelledEvent(o) : o \in RestingOrder}
  <2>1. Record(n, x) \in CancelRecord
    BY <1>1, CancelledRecord
  <2> QED
    BY <2>1 DEF CancelRecord, IsNewOrder
<1>2. CASE x \in TradeEvents
  <2>1. Record(n, x) \in FillRecord
    BY <1>2, TradedRecord
  <2> QED
    BY <2>1 DEF FillRecord, IsNewOrder
<1>3. CASE x \in {OrderAcceptedEvent(o) : o \in Announced}
  BY <1>3, AcceptedRecord
<1> QED
  BY <1>1, <1>2, <1>3 DEF EngineEvents

\* The ids of a file with a record more.
LEMMA NamesAppend ==
  ASSUME NEW f \in Seq(Lines), NEW r \in Lines, NEW U, NEW V, U \subseteq V,
         NamesIn(f, U), IsNewOrder(r) => r.id \in V
  PROVE  NamesIn(Append(f, r), V)
<1> DEFINE F == Append(f, r)
           n == Len(f)
<1>1. /\ n \in Nat /\ DOMAIN f = 1 .. n /\ DOMAIN F = 1 .. n + 1 /\ F[n + 1] = r
      /\ \A k \in 1 .. n : F[k] = f[k]
  BY AppendProperties, LenProperties
<1> HIDE DEF F, n
<1>2. \A k \in DOMAIN F : k \in DOMAIN f \/ k = n + 1
  BY <1>1
<1>3. NamesIn(F, V)
  BY <1>1, <1>2 DEF NamesIn
<1> QED
  BY <1>3 DEF F

\* The ids of a beginning of a file.
LEMMA NamesPrefix ==
  ASSUME NEW f \in Seq(Lines), NEW m \in 0 .. Len(f), NEW U, NamesIn(f, U)
  PROVE  NamesIn(SubSeq(f, 1, m), U)
<1> DEFINE g == SubSeq(f, 1, m)
<1>1. g \in Seq(Lines) /\ Len(g) = m /\ \A k \in 1 .. m : g[k] = f[k]
  BY SubSeqProperties
<1>2. DOMAIN g = 1 .. m /\ DOMAIN f = 1 .. Len(f) /\ Len(f) \in Nat
  BY <1>1, LenProperties
<1> HIDE DEF g
<1>3. \A k \in DOMAIN g : k \in DOMAIN f /\ g[k] = f[k]
  BY <1>1, <1>2
<1>4. NamesIn(g, U)
  BY <1>3 DEF NamesIn
<1> QED
  BY <1>4 DEF g

-----------------------------------------------------------------------------
(* The journal's part of the invariant                                      *)

\* Every beginning of the journal as it will be is accepted, and the ids it
\* names have been used.
Tracked ==
    /\ file \in Seq(Lines)
    /\ sequence \in Nat
    /\ Happened \in Seq(EngineEvents)
    /\ sent \in Nat /\ sent <= Len(Happened)
    /\ AllAccepted(Whole)
    /\ NamesUsed(Whole)

\* Replay of the journal as it will be gives the book as it is.
Followed == Follows(Whole, NextNumber, book)

\* A step with no event, and one with the event x.
Quiet == Happened' = Happened /\ UNCHANGED <<file, sequence, sent>>

Adds(x) == Happened' = Append(Happened, x) /\ UNCHANGED <<file, sequence, sent>>

\* The journal as it will be is a file, and its next number is a number.
LEMMA WholeType ==
  ASSUME WholeTicks, Tracked
  PROVE  Whole \in Seq(Lines) /\ NextNumber \in Nat
<1>1. Whole \in Seq(Lines)
  BY ExtendedFields DEF Tracked, Whole
<1>2. Len(Happened) \in Nat
  BY LenProperties DEF Tracked
<1>3. NextNumber \in Nat
  BY <1>2 DEF Tracked, NextNumber
<1> QED
  BY <1>1, <1>3

\* A step with no event keeps what the journal knows, if the book it leaves is
\* still the one the records tell of.
LEMMA QuietKeeps ==
  ASSUME Tracked, Quiet, used \subseteq used', Follows(Whole, NextNumber, book')
  PROVE  Tracked' /\ Followed'
<1>1. /\ Happened' = Happened /\ file' = file /\ sequence' = sequence /\ sent' = sent
      /\ Whole' = Whole /\ NextNumber' = NextNumber
  BY DEF Quiet, Whole, NextNumber
<1>2. NamesIn(Whole, used')
  BY DEF Tracked, NamesUsed, NamesIn
<1>3. Tracked'
  BY <1>1, <1>2 DEF Tracked, NamesUsed
<1>4. Followed'
  BY <1>1 DEF Followed
<1> QED
  BY <1>3, <1>4

\* Records that follow the book are accepted.
LEMMA FollowsAccepts ==
  ASSUME NEW f, NEW n, NEW b, Follows(f, n, b)
  PROVE  Accepts(f)
  BY DEF Follows, Accepts

\* One more event, as the file will show it.
LEMMA AddsKeeps ==
  ASSUME WholeTicks, Tracked, NEW x \in EngineEvents, Adds(x), used \subseteq used',
         \A o \in Announced : x = OrderAcceptedEvent(o) => o.id \in used',
         Follows(Append(Whole, Record(NextNumber, x)), NextNumber + 1, book')
  PROVE  Tracked' /\ Followed'
<1> DEFINE r == Record(NextNumber, x)
<1>1. Whole \in Seq(Lines) /\ NextNumber \in Nat
  BY WholeType
<1>2. r \in Lines
  BY <1>1, RecordType
<1>3. /\ file \in Seq(Lines) /\ sequence \in Nat /\ sent \in Nat
      /\ Happened \in Seq(EngineEvents) /\ sent <= Len(Happened)
      /\ Len(Happened) \in Nat
  BY LenProperties DEF Tracked
<1>4. /\ Append(Happened, x) \in Seq(EngineEvents)
      /\ Len(Append(Happened, x)) = Len(Happened) + 1
  BY <1>3, AppendProperties
<1>5. Extended(file, sequence, Append(Happened, x), sent) = Append(Whole, r)
  BY <1>3, ExtendedByEvent DEF Whole, NextNumber
<1>6. /\ Happened' = Append(Happened, x) /\ file' = file /\ sequence' = sequence
      /\ sent' = sent
  BY DEF Adds
<1>7. Whole' = Append(Whole, r)
  BY <1>5, <1>6 DEF Whole
<1>8. NextNumber' = NextNumber + 1
  BY <1>3, <1>4, <1>6 DEF NextNumber
<1>9. Followed'
  BY <1>7, <1>8 DEF Followed
<1>10. AllAccepted(Append(Whole, r))
  BY <1>1, <1>2, AcceptedAppend, FollowsAccepts DEF Tracked
<1>11. NamesIn(Append(Whole, r), used')
  <2>1. IsNewOrder(r) => r.id \in used'
    BY <1>1, RecordNames
  <2> HIDE DEF r
  <2> QED
    BY <1>1, <1>2, <2>1, NamesAppend DEF Tracked, NamesUsed
<1> HIDE DEF r
<1>12. Tracked'
  BY <1>3, <1>4, <1>6, <1>7, <1>10, <1>11 DEF Tracked, NamesUsed
<1> QED
  BY <1>9, <1>12

\* Two more events.
LEMMA AddsTwoKeeps ==
  ASSUME WholeTicks, Tracked, NEW x \in EngineEvents, NEW y \in EngineEvents,
         Happened' = Append(Append(Happened, x), y),
         UNCHANGED <<file, sequence, sent>>, used \subseteq used',
         \A o \in Announced : x = OrderAcceptedEvent(o) => o.id \in used',
         \A o \in Announced : y = OrderAcceptedEvent(o) => o.id \in used',
         NEW b, Follows(Append(Whole, Record(NextNumber, x)), NextNumber + 1, b),
         Follows(Append(Append(Whole, Record(NextNumber, x)),
                        Record(NextNumber + 1, y)),
                 (NextNumber + 1) + 1, book')
  PROVE  Tracked' /\ Followed'
<1> DEFINE r == Record(NextNumber, x)
           n == NextNumber + 1
           s == Record(n, y)
           f == Append(Whole, r)
           ev == Append(Happened, x)
<1>1. Whole \in Seq(Lines) /\ NextNumber \in Nat /\ n \in Nat
  BY WholeType
<1>2. r \in Lines /\ s \in Lines
  BY <1>1, RecordType
<1>3. /\ file \in Seq(Lines) /\ sequence \in Nat /\ sent \in Nat
      /\ Happened \in Seq(EngineEvents) /\ sent <= Len(Happened)
      /\ Len(Happened) \in Nat
  BY LenProperties DEF Tracked
<1>4. /\ ev \in Seq(EngineEvents)
      /\ Len(ev) = Len(Happened) + 1
  BY <1>3, AppendProperties
<1>5. Extended(file, sequence, ev, sent) = f
  BY <1>3, ExtendedByEvent DEF Whole, NextNumber
<1>l. sent <= Len(ev) /\ Len(ev) \in Nat /\ n = sequence + (Len(ev) - sent)
  BY <1>3, <1>4 DEF NextNumber
<1>a. f \in Seq(Lines)
  BY <1>1, <1>2, AppendProperties
<1>h. Happened' = Append(ev, y)
  OBVIOUS
<1>b. Follows(Append(f, s), n + 1, book') /\ Follows(f, n, b)
  OBVIOUS
<1>n. NamesIn(f, used')
  <2>1. IsNewOrder(r) => r.id \in used'
    BY <1>1, RecordNames
  <2> HIDE DEF r
  <2> QED
    BY <1>1, <1>2, <2>1, NamesAppend DEF Tracked, NamesUsed
<1>m. IsNewOrder(s) => s.id \in used'
  BY <1>1, RecordNames
<1>c. AllAccepted(f)
  BY <1>1, <1>2, <1>b, AcceptedAppend, FollowsAccepts DEF Tracked
<1> HIDE DEF ev, f, r
<1>6. Append(ev, y) \in Seq(EngineEvents) /\ Len(Append(ev, y)) = Len(ev) + 1
  BY <1>4, AppendProperties
<1>7. Extended(file, sequence, Append(ev, y), sent) = Append(f, s)
  <2>1. Extended(file, sequence, Append(ev, y), sent) =
          Append(Extended(file, sequence, ev, sent),
                 Record(sequence + (Len(ev) - sent), y))
    BY <1>3, <1>4, <1>l, ExtendedByEvent
  <2> QED
    BY <1>5, <1>l, <2>1
<1>8. Whole' = Append(f, s)
  BY <1>7, <1>h DEF Whole
<1>9. NextNumber' = n + 1
  BY <1>3, <1>l, <1>6, <1>h DEF NextNumber
<1> HIDE DEF s, n
<1>10. AllAccepted(Append(f, s))
  BY <1>a, <1>b, <1>c, <1>2, AcceptedAppend, FollowsAccepts
<1>11. NamesIn(Append(f, s), used')
  BY <1>a, <1>2, <1>n, <1>m, NamesAppend
<1>12. Tracked'
  BY <1>3, <1>l, <1>6, <1>h, <1>8, <1>10, <1>11 DEF Tracked, NamesUsed
<1>13. Followed'
  BY <1>8, <1>9, <1>b DEF Followed
<1> QED
  BY <1>12, <1>13

\* The journal takes an event, or all of them are in the file.
LEMMA JournalledKeeps ==
  ASSUME WholeTicks, Tracked, Followed, sent < Len(Happened),
         Happened' = Happened, book' = book, used' = used,
         file' = Append(file, Record(sequence, Happened[sent + 1])),
         sequence' = sequence + 1, sent' = sent + 1
  PROVE  Tracked' /\ Followed'
<1>1. /\ file \in Seq(Lines) /\ sequence \in Nat /\ sent \in Nat
      /\ Happened \in Seq(EngineEvents) /\ sent <= Len(Happened)
      /\ Len(Happened) \in Nat
  BY LenProperties DEF Tracked
<1>2. file' \in Seq(Lines) /\ Whole' = Whole
  BY <1>1, ExtendedByRecord DEF Whole
<1>3. NextNumber' = NextNumber
  BY <1>1 DEF NextNumber
<1>4. Tracked'
  BY <1>1, <1>2 DEF Tracked, NamesUsed
<1>5. Followed'
  BY <1>2, <1>3 DEF Followed
<1> QED
  BY <1>4, <1>5

\* An operation returns once all of its events are in the file.
LEMMA ReturnKeeps ==
  ASSUME WholeTicks, Tracked, Followed, sent = Len(Happened),
         Happened' = <<>>, sent' = 0, book' = book, used' = used,
         file' = file, sequence' = sequence
  PROVE  Tracked' /\ Followed'
<1>1. /\ file \in Seq(Lines) /\ sequence \in Nat /\ Happened \in Seq(EngineEvents)
      /\ Len(Happened) \in Nat
  BY LenProperties DEF Tracked
<1>2. <<>> \in Seq(EngineEvents) /\ Len(<<>>) = 0
  OBVIOUS
<1>3. Whole = file
  BY <1>1, ExtendedByNothing DEF Whole
<1>4. Extended(file, sequence, <<>>, 0) = file
  BY <1>1, <1>2, ExtendedByNothing
<1>5. Whole' = Whole
  BY <1>3, <1>4 DEF Whole
<1>6. NextNumber' = NextNumber
  BY <1>1, <1>2 DEF NextNumber
<1>7. Tracked'
  BY <1>1, <1>2, <1>5 DEF Tracked, NamesUsed
<1>8. Followed'
  BY <1>5, <1>6 DEF Followed
<1> QED
  BY <1>7, <1>8

-----------------------------------------------------------------------------
(* The steps of the engine                                                  *)

\* What has happened, by where the operation is.
HappenedIs ==
    /\ pc # "done" => Happened = CallEvents
    /\ pc = "done" /\ ~AnnouncesAccepted => Happened = CallEvents
    /\ pc = "done" /\ AnnouncesAccepted =>
           Happened = Append(CallEvents, OrderAcceptedEvent(incoming))
    /\ old = NoOrder /\ trades = <<>> => CallEvents = <<>>
    /\ old \in RestingOrder /\ trades = <<>> =>
           CallEvents = Append(<<>>, OrderCancelledEvent(old))

\* What has happened is the cancel and the trades, and at the end the order
\* accepted.
LEMMA HappenedCases == TypeOK => HappenedIs
<1> SUFFICES ASSUME TypeOK PROVE HappenedIs
  OBVIOUS
<1>1. old \in RestingOrder \cup {NoOrder} /\ trades \in Seq(Trade)
  BY DEF TypeOK
<1>2. Events = IF AnnouncesAccepted
               THEN Append(CallEvents, OrderAcceptedEvent(incoming))
               ELSE CallEvents
  BY <1>1, EventsAre
<1>3. old = NoOrder /\ trades = <<>> => CallEvents = <<>>
  BY NothingHappened
<1>4. old \in RestingOrder /\ trades = <<>> =>
          CallEvents = Append(<<>>, OrderCancelledEvent(old))
  BY CancelHasHappened
<1>5. pc # "done" => Happened = CallEvents
  BY DEF Happened
<1>6. pc = "done" => Happened = Events
  BY DEF Happened
<1> QED
  BY <1>2, <1>3, <1>4, <1>5, <1>6 DEF HappenedIs

\* The same of the next state.
LEMMA NextHappened == TypeOK' => HappenedIs'
  BY HappenedCases, PTL

\* When an operation starts nothing has happened.
LEMMA IdleHappened ==
  ASSUME BetweenCalls, pc = "idle"
  PROVE  Happened = <<>> /\ old = NoOrder /\ trades = <<>> /\ incoming = NoOrder
  BY NothingHappened DEF BetweenCalls, Happened

\* processOrder: nothing has happened yet.
LEMMA ProcessKeeps ==
  ASSUME BetweenCalls, TypeOK', Tracked, Followed, ProcessOrder,
         UNCHANGED recoveryVars
  PROVE  Tracked' /\ Followed'
<1>1. /\ pc = "idle" /\ pc' = "begin" /\ old' = old /\ trades' = trades
      /\ book' = book /\ sent' = sent /\ used \subseteq used'
  BY DEF ProcessOrder, StartMatch, Ready
<1>2. Happened = <<>> /\ old = NoOrder /\ trades = <<>>
  BY <1>1, IdleHappened
<1>3. Happened' = <<>>
  BY <1>1, <1>2, NextHappened DEF HappenedIs
<1>4. Quiet
  BY <1>1, <1>2, <1>3 DEF Quiet, recoveryVars
<1> QED
  BY <1>1, <1>4, QuietKeeps DEF Followed

\* A call that is refused changes neither the book nor the journal.
LEMMA StillKeeps ==
  ASSUME Tracked, Followed, UNCHANGED bookVars, sent' = sent, used' = used,
         UNCHANGED recoveryVars
  PROVE  Tracked' /\ Followed'
<1>1. Quiet
  BY DEF Quiet, recoveryVars, bookVars, Happened, Events, CallEvents,
         AnnouncesAccepted, TradeEvent, OrderAcceptedEvent, OrderCancelledEvent
<1>2. book' = book
  BY DEF bookVars
<1> QED
  BY <1>1, <1>2, QuietKeeps DEF Followed

\* An order leaves the book and its cancel is announced.
LEMMA CancelKeeps ==
  ASSUME WholeTicks, BetweenCalls, TypeOK, TypeOK', Tracked, Followed, pc = "idle",
         NEW side \in Sides, NEW p \in Prices, NEW i \in DOMAIN book[side][p],
         old' = book[side][p][i], book' = Erased(side, p, i), trades' = trades,
         pc' # "done" \/ ~AnnouncesAccepted', sent' = sent, used' = used,
         UNCHANGED recoveryVars
  PROVE  Tracked' /\ Followed'
<1> DEFINE o == book[side][p][i]
           x == OrderCancelledEvent(o)
           r == Record(NextNumber, x)
<1>1. book \in BookType
  BY DEF TypeOK, BookType
<1>2. o \in RestingOrder
  BY <1>1, EntryType
<1>3. Happened = <<>> /\ trades = <<>>
  BY IdleHappened
<1>4. HappenedIs'
  BY NextHappened
<1>5. Happened' = CallEvents'
  BY <1>4 DEF HappenedIs
<1>6. CallEvents' = Append(<<>>, OrderCancelledEvent(old'))
  BY <1>2, <1>3, <1>4 DEF HappenedIs, OrderCancelledEvent
<1>7. Happened' = Append(Happened, x)
  BY <1>3, <1>5, <1>6
<1>8. Adds(x)
  BY <1>7 DEF Adds, recoveryVars
<1>9. x \in EngineEvents
  BY <1>2 DEF EngineEvents
<1>10. Whole \in Seq(Lines) /\ NextNumber \in Nat
  BY WholeType
<1>11. r \in CancelRecord /\ r.seq = NextNumber /\ r.id = o.id /\ r.rem = o.rem
  BY <1>2, <1>10, CancelledRecord
<1>12. book' = WithQueue(book, side, p, RemoveAt(book[side][p], i))
  BY DEF Erased, WithQueue
<1> HIDE DEF r
<1>13. Follows(Append(Whole, r), NextNumber + 1,
               WithQueue(book, side, p, RemoveAt(book[side][p], i)))
  BY <1>1, <1>10, <1>11, CancelFollows DEF Followed
<1>14. \A a \in Announced : x # OrderAcceptedEvent(a)
  BY DEF OrderCancelledEvent, OrderAcceptedEvent
<1> QED
  BY <1>8, <1>9, <1>12, <1>13, <1>14, AddsKeeps DEF r

\* cancelOrder.
LEMMA CancelOrderKeeps ==
  ASSUME WholeTicks, BetweenCalls, TypeOK, TypeOK', Tracked, Followed,
         CancelOrder, UNCHANGED recoveryVars
  PROVE  Tracked' /\ Followed'
<1>1. /\ pc = "idle" /\ sent' = sent /\ used' = used
      /\ incoming' = incoming /\ trades' = trades
  BY DEF CancelOrder, cancelOrder, Ready, engineVars
<1>2. PICK side \in Sides, p \in Prices : \E i \in DOMAIN book[side][p] :
          old' = book[side][p][i] /\ book' = Erased(side, p, i)
  BY DEF CancelOrder, cancelOrder
<1>3. PICK i \in DOMAIN book[side][p] :
          old' = book[side][p][i] /\ book' = Erased(side, p, i)
  BY <1>2
<1>4. incoming' = NoOrder
  BY <1>1, IdleHappened
<1>5. ~AnnouncesAccepted'
  BY <1>4 DEF AnnouncesAccepted, NoOrder
<1> QED
  BY <1>1, <1>3, <1>5, CancelKeeps

\* A replace that keeps its place is announced as a cancel and, if something is
\* left, as a new order with the old priority.
LEMMA InPlaceKeeps ==
  ASSUME WholeTicks, BetweenCalls, TypeOK, TypeOK', AllAccounted, Tracked, Followed,
         pc = "idle",
         NEW side \in Sides, NEW p \in Prices, NEW i \in DOMAIN book[side][p],
         NEW new \in RestingOrder, new.id = book[side][p][i].id,
         new.prio = book[side][p][i].prio,
         old' = book[side][p][i], incoming' = new, pc' = "done",
         book' = WithQueue(book, side, p, [book[side][p] EXCEPT ![i] = new]),
         trades' = trades, sent' = sent, used' = used, UNCHANGED recoveryVars
  PROVE  Tracked' /\ Followed'
<1> DEFINE o == book[side][p][i]
           x == OrderCancelledEvent(o)
           r == Record(NextNumber, x)
           b == WithQueue(book, side, p, RemoveAt(book[side][p], i))
<1>1. book \in BookType
  BY DEF TypeOK, BookType
<1>2. o \in RestingOrder
  BY <1>1, EntryType
<1>3. Happened = <<>> /\ trades = <<>>
  BY IdleHappened
<1>4. HappenedIs'
  BY NextHappened
<1>6. CallEvents' = Append(Happened, x)
  BY <1>2, <1>3, <1>4 DEF HappenedIs, OrderCancelledEvent
<1>9. x \in EngineEvents
  BY <1>2 DEF EngineEvents
<1>10. Whole \in Seq(Lines) /\ NextNumber \in Nat
  BY WholeType
<1>11. r \in CancelRecord /\ r.seq = NextNumber /\ r.id = o.id /\ r.rem = o.rem
  BY <1>2, <1>10, CancelledRecord
<1> HIDE DEF r
<1>13. Follows(Append(Whole, r), NextNumber + 1, b)
  BY <1>1, <1>10, <1>11, CancelFollows DEF Followed
<1>14. \A a \in Announced : x # OrderAcceptedEvent(a)
  BY DEF OrderCancelledEvent, OrderAcceptedEvent
<1>15. CASE ~(new.rem > 0)
  <2>1. Happened' = CallEvents'
    BY <1>4, <1>15 DEF HappenedIs, AnnouncesAccepted
  <2>2. Adds(x)
    BY <1>6, <2>1 DEF Adds, recoveryVars
  <2>3. Follows(Append(Whole, r), NextNumber + 1, book')
    BY <1>1, <1>13, <1>15, KilledFollows
  <2> QED
    BY <1>9, <1>14, <2>2, <2>3, AddsKeeps DEF r
<1>16. CASE new.rem > 0
  <2> DEFINE y == OrderAcceptedEvent(new)
             n == NextNumber + 1
             z == Record(n, y)
  <2>1. new.type = "LIMIT"
    BY DEF RestingOrder
  <2>2. AnnouncesAccepted'
    BY <1>16, <2>1 DEF AnnouncesAccepted
  <2>3. Happened' = Append(Append(Happened, x), y)
    BY <1>4, <1>6, <2>2 DEF HappenedIs, OrderAcceptedEvent
  <2>4. Accounted(o)
    BY DEF AllAccounted
  <2>5. new \in Announced
    <3>1. new.prio \in Nat /\ priority \in Nat /\ PriorityMax \in Nat /\ priority <= PriorityMax
      BY EngineAssumption DEF TypeOK, RestingOrder, Order
    <3>2. new.prio < priority
      BY <2>4 DEF Accounted
    <3>3. new.prio < PriorityMax
      BY <3>1, <3>2
    <3> QED
      BY <1>16, <3>3 DEF Announced
  <2>6. y \in EngineEvents
    BY <2>5 DEF EngineEvents
  <2>7. n \in Nat
    BY <1>10
  <2> HIDE DEF n
  <2>8. z \in NewOrderRecord /\ z.prio = o.prio
    BY <2>5, <2>7, AcceptedRecord
  <2> HIDE DEF z
  <2>9. ~Clean(Append(Append(Whole, r), z))
    BY <1>1, <1>10, <1>11, <2>8, SamePriorityUnclean DEF Followed
  <2>10. Follows(Append(Append(Whole, r), z), n + 1, book')
    BY <2>9 DEF Follows
  <2>11. \A a \in Announced : y = OrderAcceptedEvent(a) => a.id \in used'
    <3>1. new.id \in used'
      BY <2>4 DEF Accounted
    <3> QED
      BY <3>1 DEF OrderAcceptedEvent
  <2>12. UNCHANGED <<file, sequence, sent>>
    BY DEF recoveryVars
  <2> HIDE DEF x, y, b
  <2>13. Follows(Append(Append(Whole, Record(NextNumber, x)), Record(NextNumber + 1, y)),
                 (NextNumber + 1) + 1, book')
    BY <2>10 DEF r, z, n
  <2>14. Follows(Append(Whole, Record(NextNumber, x)), NextNumber + 1, b)
    BY <1>13 DEF r
  <2> QED
    BY <1>9, <1>14, <2>3, <2>6, <2>11, <2>12, <2>13, <2>14, AddsTwoKeeps
<1> QED
  BY <1>15, <1>16

\* replaceOrder: refused, in place, or a cancel followed by a new order.
LEMMA ReplaceKeeps ==
  ASSUME WholeTicks, BetweenCalls, TypeOK, TypeOK', AllAccounted, Tracked, Followed,
         ReplaceOrder, UNCHANGED recoveryVars
  PROVE  Tracked' /\ Followed'
<1>1. PICK id \in OrderIds, side \in Sides, p \in Prices, price \in Prices,
           qty \in 0 .. MaxQty :
        \E i \in DOMAIN book[side][p] :
            /\ ReplaceCall(id, side, p, i, price, qty)
            /\ replaceOrder(side, p, i, price, qty,
                            ReplacePriority(book[side][p][i], price, qty))
  BY DEF ReplaceOrder
<1>2. PICK i \in DOMAIN book[side][p] :
          /\ ReplaceCall(id, side, p, i, price, qty)
          /\ replaceOrder(side, p, i, price, qty,
                          ReplacePriority(book[side][p][i], price, qty))
  BY <1>1
<1> DEFINE o == book[side][p][i]
           prio == ReplacePriority(o, price, qty)
<1>3. /\ pc = "idle" /\ sent' = sent /\ used' = used
  BY <1>2 DEF ReplaceCall, Ready
<1>4. old' = o /\ trades' = trades
  BY <1>2 DEF replaceOrder
<1>b. book \in BookType
  BY DEF TypeOK, BookType
<1>o. o \in RestingOrder
  BY <1>b, EntryType
<1>5. CASE ReplaceByCancel(side, p, i)
  <2>1. book' = Erased(side, p, i) /\ incoming' = NoOrder
    BY <1>5 DEF ReplaceByCancel
  <2>2. ~AnnouncesAccepted'
    BY <2>1 DEF AnnouncesAccepted, NoOrder
  <2> QED
    BY <1>3, <1>4, <2>1, <2>2, CancelKeeps
<1>6. CASE ReplaceInPlace(side, p, i, qty)
  <2> DEFINE new == [o EXCEPT !.qty = qty, !.rem = qty - AlreadyFilled(o)]
  <2>1. /\ book' = [book EXCEPT ![side][p][i] = new]
        /\ pc' = "done" /\ incoming' = new
    BY <1>6 DEF ReplaceInPlace
  <2>2. /\ new.id = o.id /\ new.prio = o.prio /\ new.type = "LIMIT"
    BY <1>o DEF RestingOrder, Order
  <2>3. new \in RestingOrder
    BY <2>1, <2>2 DEF TypeOK, RestingOrder, NoOrder
  <2> HIDE DEF new
  <2>4. book' = WithQueue(book, side, p, [book[side][p] EXCEPT ![i] = new])
    BY <1>b, <2>1 DEF WithQueue, BookType
  <2> QED
    BY <1>3, <1>4, <2>1, <2>2, <2>3, <2>4, InPlaceKeeps
<1>7. CASE ReplaceByRematch(side, p, i, price, qty, prio)
  <2> DEFINE new == [o EXCEPT !.price = price, !.qty = qty,
                              !.rem = qty - AlreadyFilled(o), !.prio = prio]
  <2>1. /\ book' = Erased(side, p, i)
        /\ incoming' = new
        /\ pc' = IF new.rem = 0 THEN "done" ELSE "begin"
    BY <1>7 DEF ReplaceByRematch
  <2> HIDE DEF new
  <2>2. pc' # "done" \/ ~AnnouncesAccepted'
    BY <2>1 DEF AnnouncesAccepted
  <2> QED
    BY <1>3, <1>4, <2>1, <2>2, CancelKeeps
<1> QED
  BY <1>2, <1>5, <1>6, <1>7 DEF replaceOrder

\* A step that trades nothing and accepts nothing has no event.
LEMMA SameHappened ==
  ASSUME TypeOK, TypeOK', old' = old, trades' = trades, incoming' = incoming,
         pc # "done", pc' # "done" \/ ~AnnouncesAccepted, sent' = sent,
         UNCHANGED recoveryVars
  PROVE  Quiet
<1>1. CallEvents' = CallEvents
  BY DEF CallEvents, TradeEvent, OrderCancelledEvent
<1>2. AnnouncesAccepted' <=> AnnouncesAccepted
  BY DEF AnnouncesAccepted
<1>3. Happened' = CallEvents'
  BY <1>2, NextHappened DEF HappenedIs
<1>4. Happened = CallEvents
  BY DEF Happened
<1> QED
  BY <1>1, <1>3, <1>4 DEF Quiet, recoveryVars

\* Popping a filled order off its level.
LEMMA PopKeeps ==
  ASSUME TypeOK, TypeOK', Tracked, Followed, PopFilled, UNCHANGED engineVars,
         UNCHANGED recoveryVars
  PROVE  Tracked' /\ Followed'
<1> DEFINE side == Opposite(incoming.side)
<1>1. PICK p \in Prices :
        /\ AtLevel(p)
        /\ Head(book[side][p]).rem = 0
        /\ book' = [book EXCEPT ![side][p] = Tail(book[side][p])]
  BY DEF PopFilled
<1>2. UNCHANGED <<pc, incoming, old, trades, sent, used>>
  BY DEF PopFilled, engineVars
<1>3. side \in Sides /\ book \in BookType
  BY OppositeType DEF TypeOK, BookType
<1>4. book[side][p] # <<>> /\ pc = "match"
  BY <1>1 DEF AtLevel, IsFront
<1>5. /\ Head(book[side][p]) = book[side][p][1] /\ 1 \in DOMAIN book[side][p]
      /\ book[side][p] \in Seq(RestingOrder)
  BY <1>3, <1>4, FrontType DEF BookType
<1> HIDE DEF side
<1>6. book' = WithQueue(book, side, p, RemoveAt(book[side][p], 1))
  BY <1>1, <1>4, <1>5, TailIsErase DEF WithQueue
<1>7. ~(book[side][p][1].rem > 0)
  BY <1>1, <1>5
<1>8. Follows(Whole, NextNumber, WithQueue(book, side, p, RemoveAt(book[side][p], 1)))
  BY <1>3, <1>5, <1>7, PopFollows DEF Followed
<1>9. Quiet
  BY <1>2, <1>4, SameHappened
<1> QED
  BY <1>2, <1>6, <1>8, <1>9, QuietKeeps

\* executeTrade: the trade is an event, and applyFill does in replay what the
\* trade did to the resting order.
LEMMA TradeKeeps ==
  ASSUME WholeTicks, TypeOK, TypeOK', Tracked, Followed, ExecuteTrade,
         UNCHANGED engineVars, UNCHANGED recoveryVars
  PROVE  Tracked' /\ Followed'
<1> DEFINE side == Opposite(incoming.side)
<1>1. PICK p \in Prices :
        LET r == Head(book[side][p])
            n == TradeQty(r)
        IN  /\ AtLevel(p)
            /\ r.rem > 0
            /\ incoming' = [incoming EXCEPT !.rem = @ - n]
            /\ book' = [book EXCEPT ![side][p] = FrontFilled(@, n)]
            /\ trades' = Append(trades,
                  [id |-> nextTradeId,
                   resting |-> r.id, aggressor |-> incoming.id,
                   restingTrader |-> r.trader,
                   aggressorTrader |-> incoming.trader,
                   price |-> p, qty |-> n])
            /\ UNCHANGED <<stp, pc, old>>
  BY DEF ExecuteTrade
<1> DEFINE q == book[side][p]
           o == Head(q)
           n == TradeQty(o)
           t == [id |-> nextTradeId, resting |-> o.id, aggressor |-> incoming.id,
                 restingTrader |-> o.trader, aggressorTrader |-> incoming.trader,
                 price |-> p, qty |-> n]
<1>2. side \in Sides /\ book \in BookType
  BY OppositeType DEF TypeOK, BookType
<1>3. q # <<>> /\ pc = "match" /\ incoming.rem > 0
  BY <1>1 DEF AtLevel, IsFront
<1>4. /\ o = q[1] /\ o \in RestingOrder /\ 1 \in DOMAIN q /\ q \in Seq(RestingOrder)
  BY <1>2, <1>3, FrontType DEF BookType
<1>5. incoming \in Order
  BY <1>3 DEF TypeOK, NoOrder
<1>6. o.rem > 0 /\ o.rem \in 0 .. MaxQty /\ incoming.rem \in 0 .. MaxQty
  BY <1>1, <1>4, <1>5 DEF RestingOrder, Order
<1> HIDE DEF o
<1>7. n \in Quantities /\ n <= o.rem
  BY <1>3, <1>6, BookAssumption DEF TradeQty, Quantities
<1> HIDE DEF n
<1>8. t \in Trade
  BY <1>4, <1>5, <1>7 DEF Trade, TypeOK, RestingOrder, Order
<1>9. trades' = Append(trades, t) /\ pc' = pc /\ old' = old
  BY <1>1 DEF o, n
<1>10. book' = [book EXCEPT ![side][p] = FrontFilled(q, n)]
  BY <1>1 DEF o, n
<1>11. incoming' = [incoming EXCEPT !.rem = @ - n]
  BY <1>1 DEF o, n
<1>12. incoming'.side = incoming.side
  BY <1>5, <1>11 DEF Order
<1>13. TradeEvent(t) \in TradeEvents /\ TradeEvent(t) \in EngineEvents
       /\ TradeEvent(t).resting = o.id /\ TradeEvent(t).qty = n
       /\ TradeEvent(t).kind = "trade"
  BY <1>8, TradeEventType DEF TradeEvent
<1> HIDE DEF t
<1> DEFINE x == TradeEvent(t)
           r == Record(NextNumber, x)
<1>14. CallEvents' = Append(CallEvents, x)
  BY <1>8, <1>9, <1>12, TradeHasHappened
<1>15. Happened = CallEvents /\ Happened' = CallEvents'
  BY <1>3, <1>9 DEF Happened
<1>16. Adds(x) /\ used' = used
  BY <1>14, <1>15 DEF Adds, recoveryVars, engineVars
<1> HIDE DEF x
<1>17. Whole \in Seq(Lines) /\ NextNumber \in Nat
  BY WholeType
<1>18. r \in FillRecord /\ r.seq = NextNumber /\ r.id = o.id /\ r.qty = n
  BY <1>13, <1>17, TradedRecord DEF x
<1> HIDE DEF r, q
<1>19. FrontFilled(q, n) = FilledQueue(q, 1, n)
  BY <1>3, <1>4, FrontIsFilled
<1>20. book' = WithQueue(book, side, p, FilledQueue(book[side][p], 1, r.qty))
  BY <1>10, <1>18, <1>19 DEF WithQueue, q
<1> HIDE DEF side
<1>21. Follows(Append(Whole, r), NextNumber + 1,
               WithQueue(book, side, p, FilledQueue(book[side][p], 1, r.qty)))
  <2>1. 1 \in DOMAIN book[side][p] /\ r.id = book[side][p][1].id
        /\ r.qty <= book[side][p][1].rem
    BY <1>4, <1>7, <1>18 DEF q
  <2> QED
    BY <1>2, <1>17, <1>18, <2>1, FillFollows DEF Followed
<1>22. \A a \in Announced : x # OrderAcceptedEvent(a)
  BY <1>13 DEF x, OrderAcceptedEvent
<1> QED
  BY <1>13, <1>16, <1>20, <1>21, <1>22, AddsKeeps DEF r, x

\* What is left of a LIMIT order rests, and is announced.
LEMMA RestKeeps ==
  ASSUME WholeTicks, PoolHasRoom, TypeOK, TypeOK', Identities, Tracked, Followed,
         EndMatch, incoming.rem > 0, incoming.type = "LIMIT",
         UNCHANGED engineVars, UNCHANGED recoveryVars
  PROVE  Tracked' /\ Followed'
<1> DEFINE o == incoming
           x == OrderAcceptedEvent(o)
           r == Record(NextNumber, x)
<1>1. /\ pc = "match" /\ pc' = "done" /\ addOrder(o)
      /\ UNCHANGED <<incoming, old, trades, sent, used>>
      /\ CrossesNothing(o, book)
  BY DEF EndMatch, CrossesNothing, engineVars
<1>2. book \in BookType /\ o \in RestingOrder
  BY DEF TypeOK, BookType, RestingOrder, NoOrder
<1>3. o.side \in Sides /\ o.price \in Prices /\ o.id \in OrderIds /\ o.prio \in Nat
  BY <1>2 DEF RestingOrder, Order
<1>4. Accounted(o) /\ IsApart(o, book)
  <2>1. InFlightApart
    BY DEF Identities
  <2> QED
    BY <1>1, <2>1 DEF InFlightApart, IsApart, Clash
<1>5. NoClashIn(book)
  BY DEF Identities, NoClash, NoClashIn
<1>6. getOrderCount < PoolCapacity
  BY <1>2, <1>3, <1>4, <1>5, RoomFor DEF IsApart, getOrderCount
<1>7. book' = WithQueue(book, o.side, o.price, Append(book[o.side][o.price], o))
  BY <1>1, <1>6 DEF addOrder, Joined, WithQueue
<1>8. o \in Announced
  <2>1. priority \in Nat /\ PriorityMax \in Nat /\ priority <= PriorityMax
    BY EngineAssumption DEF TypeOK
  <2>2. o.prio < priority
    BY <1>4 DEF Accounted
  <2>3. o.prio < PriorityMax
    BY <1>3, <2>1, <2>2
  <2> QED
    BY <1>2, <2>3 DEF Announced
<1>9. CallEvents' = CallEvents
  BY <1>1 DEF CallEvents, TradeEvent, OrderCancelledEvent
<1>10. Happened = CallEvents
  BY <1>1 DEF Happened
<1>11. Happened' = Append(CallEvents', x)
  <2>1. AnnouncesAccepted'
    BY <1>1 DEF AnnouncesAccepted
  <2> QED
    BY <1>1, <2>1, NextHappened DEF HappenedIs, OrderAcceptedEvent
<1>12. Adds(x)
  BY <1>1, <1>9, <1>10, <1>11 DEF Adds, recoveryVars
<1>13. x \in EngineEvents
  BY <1>8 DEF EngineEvents
<1>14. Whole \in Seq(Lines) /\ NextNumber \in Nat
  BY WholeType
<1>15. r \in NewOrderRecord /\ r.seq = NextNumber /\ o = OrderOf(r)
  BY <1>8, <1>14, AcceptedRecord
<1>16. \A a \in Announced : x = OrderAcceptedEvent(a) => a.id \in used'
  <2>1. o.id \in used'
    BY <1>1, <1>4 DEF Accounted
  <2> QED
    BY <2>1 DEF OrderAcceptedEvent
<1> HIDE DEF r, x
<1>17. Follows(Append(Whole, r), NextNumber + 1,
               WithQueue(book, o.side, o.price, Append(book[o.side][o.price], o)))
  BY <1>1, <1>2, <1>4, <1>14, <1>15, NewFollows DEF Followed
<1> QED
  BY <1>1, <1>7, <1>12, <1>13, <1>16, <1>17, AddsKeeps DEF r

\* No step of the STP gates is possible, and no trade has one order twice.
LEMMA NoGates ==
  ASSUME TypeOK, CallInv, BetweenCalls, Identities, MatchOrder
  PROVE  RejectFOK \/ EnterLoop \/ PopFilled \/ ExecuteTrade \/ EndMatch
<1>1. stp = "NONE"
  BY DEF BetweenCalls
<1>2. ~SelfTradeStopped /\ pc # "purge"
  BY <1>1 DEF SelfTradeStopped, CallInv
<1>3. ~StpCancelNewest /\ ~StpCancelOldest /\ ~StpCancelBoth /\ ~PurgeOwn /\ ~PurgeEnd
  BY <1>2 DEF StpCancelNewest, StpCancelOldest, StpCancelBoth, PurgeOwn, PurgeEnd
<1>4. ASSUME TradeThrows PROVE FALSE
  <2> DEFINE side == Opposite(incoming.side)
  <2>1. PICK p \in Prices :
          AtLevel(p) /\ Head(book[side][p]).id = incoming.id
    BY <1>4 DEF TradeThrows
  <2>2. side \in Sides /\ book \in BookType
    BY OppositeType DEF TypeOK, BookType
  <2>3. book[side][p] # <<>> /\ pc = "match"
    BY <2>1 DEF AtLevel, IsFront
  <2>4. Head(book[side][p]) = book[side][p][1] /\ 1 \in DOMAIN book[side][p]
    BY <2>2, <2>3, FrontType
  <2>5. InFlightApart
    BY DEF Identities
  <2>6. ~Clash(incoming, book[side][p][1])
    BY <2>2, <2>3, <2>4, <2>5 DEF InFlightApart
  <2> QED
    BY <2>1, <2>4, <2>6 DEF Clash
<1> QED
  BY <1>3, <1>4 DEF MatchOrder

\* Every step of matching.
LEMMA MatchKeeps ==
  ASSUME WholeTicks, PoolHasRoom, TypeOK, TypeOK', CallInv, BetweenCalls,
         Identities, Tracked, Followed, Match, UNCHANGED recoveryVars
  PROVE  Tracked' /\ Followed'
<1>1. MatchOrder /\ UNCHANGED engineVars
  BY DEF Match
<1>2. RejectFOK \/ EnterLoop \/ PopFilled \/ ExecuteTrade \/ EndMatch
  BY <1>1, NoGates
<1>3. used' = used /\ sent' = sent
  BY <1>1 DEF engineVars
<1>4. ASSUME book' = book, UNCHANGED <<old, trades, incoming>>, pc # "done",
             pc' # "done" \/ ~AnnouncesAccepted
      PROVE  Tracked' /\ Followed'
  <2>1. Quiet
    BY <1>3, <1>4, SameHappened
  <2> QED
    BY <1>3, <1>4, <2>1, QuietKeeps DEF Followed
<1>5. CASE RejectFOK
  <2>1. incoming.type = "FOK"
    BY <1>5 DEF RejectFOK, PassesFOK
  <2>2. ~AnnouncesAccepted
    BY <2>1 DEF AnnouncesAccepted
  <2> QED
    BY <1>4, <1>5, <2>2 DEF RejectFOK
<1>6. CASE EnterLoop
  BY <1>4, <1>6 DEF EnterLoop
<1>7. CASE PopFilled
  BY <1>1, <1>7, PopKeeps
<1>8. CASE ExecuteTrade
  BY <1>1, <1>8, TradeKeeps
<1>9. CASE EndMatch
  <2>1. CASE incoming.rem > 0 /\ incoming.type = "LIMIT"
    BY <1>1, <1>9, <2>1, RestKeeps
  <2>2. CASE ~(incoming.rem > 0 /\ incoming.type = "LIMIT")
    BY <1>4, <1>9, <2>2 DEF EndMatch, AnnouncesAccepted
  <2> QED
    BY <2>1, <2>2
<1> QED
  BY <1>2, <1>5, <1>6, <1>7, <1>8, <1>9

-----------------------------------------------------------------------------
(* The inductive invariant                                                  *)

\* The journal is tracked at every moment.  While the engine runs, the book is
\* well formed and is what replay of the journal, with the records still to be
\* published, would build; the engine halts only when replay has refused the file.
RecoveryInv ==
    /\ Tracked
    /\ BetweenCalls
    /\ IF pc = "recover"
       THEN Fresh
       ELSE /\ TypeOK /\ CallInv /\ NoClash
            /\ state = "READY" => Identities
            /\ Followed

\* What the engine does while it runs.
EngineStep == Operation \/ Proceed \/ Journalled

\* The engine takes no step before recovery or after it has halted.
LEMMA EngineRuns ==
  ASSUME RecoveryInv, EngineStep
  PROVE  /\ Next /\ pc # "recover" /\ state = "READY"
         /\ TypeOK /\ CallInv /\ Identities /\ Tracked /\ Followed /\ BetweenCalls
<1>1. Next
  BY DEF EngineStep, Operation, Proceed, Journalled, Next
<1>2. \/ pc = "idle" /\ state # "HALTED"
      \/ pc \in {"begin", "purge", "match", "done"}
  <2>1. Operation => Ready
    BY DEF Operation, ProcessOrder, CancelOrder, ReplaceOrder, ReplaceFails,
           ReplaceCall, PriorityExhausted
  <2>2. MatchOrder => pc \in {"begin", "purge", "match"}
    BY DEF MatchOrder, RejectFOK, EnterLoop, StpCancelNewest, StpCancelOldest,
           StpCancelBoth, PurgeOwn, PurgeEnd, PopFilled, ExecuteTrade,
           TradeThrows, EndMatch, AtLevel
  <2>3. Proceed \/ Journalled => MatchOrder \/ pc = "done"
    BY DEF Proceed, Match, Return, Journalled, PublishEvent
  <2> QED
    BY <2>1, <2>2, <2>3 DEF EngineStep, Ready, isHealthy
<1>3. pc # "recover"
  BY <1>2
<1>4. TypeOK /\ CallInv /\ Followed /\ Tracked /\ BetweenCalls
  BY <1>3 DEF RecoveryInv
<1>5. state # "HALTED"
  BY <1>2, <1>4 DEF BetweenCalls
<1>6. state = "READY"
  BY <1>4, <1>5 DEF TypeOK
<1>7. Identities
  BY <1>3, <1>6 DEF RecoveryInv
<1> QED
  BY <1>1, <1>3, <1>4, <1>6, <1>7

\* The calls begin and end as they should.
LEMMA CallsKept ==
  ASSUME TypeOK, TypeOK', CallInv, Identities, BetweenCalls, state = "READY",
         EngineStep
  PROVE  BetweenCalls'
<1>1. CASE ProcessOrder \/ CancelOrder
  BY <1>1 DEF ProcessOrder, StartMatch, CancelOrder, cancelOrder, Ready, engineVars,
              BetweenCalls
<1>2. CASE ReplaceOrder
  <2>1. pc = "idle" /\ pc' \in {"begin", "done"} /\ stp' = stp
    BY <1>2, ReplaceMakesLimit
  <2>2. sent' = sent /\ state' = state
    BY <1>2 DEF ReplaceOrder, ReplaceCall
  <2> QED
    BY <2>1, <2>2 DEF BetweenCalls
<1>3. CASE ReplaceFails \/ PriorityExhausted
  BY <1>3 DEF ReplaceFails, ReplaceCall, Ready, PriorityExhausted, Halt, bookVars,
              BetweenCalls
<1>4. CASE Match
  <2>1. MatchOrder /\ UNCHANGED engineVars
    BY <1>4 DEF Match
  <2>2. RejectFOK \/ EnterLoop \/ PopFilled \/ ExecuteTrade \/ EndMatch
    BY <2>1, NoGates
  <2>3. pc \in {"begin", "match"} /\ pc' \in {"match", "done"} /\ stp' = stp
    BY <2>2 DEF RejectFOK, EnterLoop, PopFilled, ExecuteTrade, EndMatch, AtLevel
  <2>4. sent' = sent /\ state' = state
    BY <2>1 DEF engineVars
  <2> QED
    BY <2>3, <2>4 DEF BetweenCalls
<1>5. CASE Return
  BY <1>5 DEF Return, BetweenCalls
<1>6. CASE PublishEvent
  BY <1>6 DEF PublishEvent, bookVars, BetweenCalls
<1> QED
  BY <1>1, <1>2, <1>3, <1>4, <1>5, <1>6 DEF EngineStep, Operation, Proceed, Journalled

\* Every step of the engine keeps what the journal knows of the book.
LEMMA JournalKept ==
  ASSUME WholeTicks, PoolHasRoom, TypeOK, TypeOK', CallInv, Identities,
         BetweenCalls, Tracked, Followed, EngineStep
  PROVE  Tracked' /\ Followed'
<1>1. CASE ProcessOrder /\ UNCHANGED recoveryVars
  BY <1>1, ProcessKeeps
<1>2. CASE CancelOrder /\ UNCHANGED recoveryVars
  BY <1>2, CancelOrderKeeps
<1>3. CASE ReplaceOrder /\ UNCHANGED recoveryVars
  BY <1>3, ReplaceKeeps DEF Identities
<1>4. CASE (ReplaceFails \/ PriorityExhausted) /\ UNCHANGED recoveryVars
  <2>1. UNCHANGED bookVars /\ sent' = sent /\ used' = used
    BY <1>4 DEF ReplaceFails, ReplaceCall, PriorityExhausted, Halt
  <2> QED
    BY <1>4, <2>1, StillKeeps
<1>5. CASE Match /\ UNCHANGED recoveryVars
  BY <1>5, MatchKeeps
<1>6. CASE Return /\ UNCHANGED recoveryVars
  <2>1. Happened = Events
    BY <1>6 DEF Return, Happened
  <2>2. pc' = "idle" /\ old' = NoOrder /\ trades' = <<>>
    BY <1>6 DEF Return
  <2>3. Happened' = <<>>
    BY <2>2, NextHappened DEF HappenedIs
  <2> QED
    BY <1>6, <2>1, <2>3, ReturnKeeps DEF Return, recoveryVars
<1>7. CASE Journalled
  <2>1. /\ pc = "done" /\ sent < Len(Events) /\ sent' = sent + 1
        /\ UNCHANGED bookVars /\ used' = used
        /\ file' = Append(file, Record(sequence, Events[sent + 1]))
        /\ sequence' = sequence + 1
    BY <1>7 DEF Journalled, PublishEvent
  <2>2. Happened = Events
    BY <2>1 DEF Happened
  <2>3. Happened' = Happened /\ book' = book
    BY <2>1 DEF bookVars, Happened, Events, CallEvents,
         AnnouncesAccepted, TradeEvent, OrderAcceptedEvent, OrderCancelledEvent
  <2> QED
    BY <2>1, <2>2, <2>3, JournalledKeeps
<1> QED
  BY <1>1, <1>2, <1>3, <1>4, <1>5, <1>6, <1>7 DEF EngineStep, Operation, Proceed

\* Every step of the engine keeps the invariant.
LEMMA EngineKeeps ==
  ASSUME FreshIds, WholeTicks, PoolHasRoom, RecoveryInv, EngineStep
  PROVE  RecoveryInv'
<1>1. /\ Next /\ state = "READY" /\ TypeOK /\ CallInv /\ Identities
      /\ Tracked /\ Followed /\ BetweenCalls
  BY EngineRuns
<1>2. TypeOK'
  BY <1>1, TypeStep
<1>3. CallInv' /\ Identities'
  BY <1>1, <1>2, CallStep, IdentitiesStep
<1>4. BetweenCalls'
  BY <1>1, <1>2, CallsKept
<1>5. Tracked' /\ Followed'
  BY <1>1, <1>2, JournalKept
<1>6. NoClash'
  BY <1>3 DEF Identities
<1>7. pc' # "recover"
  BY <1>2 DEF TypeOK
<1> QED
  BY <1>2, <1>3, <1>4, <1>5, <1>6, <1>7 DEF RecoveryInv

-----------------------------------------------------------------------------
(* Crash and recovery                                                       *)

\* Where the first torn record of a file is.
LEMMA FirstTorn ==
  ASSUME NEW f \in Seq(Lines), NEW k, k = SelectInSeq(f, LAMBDA r : r = Torn)
  PROVE  \/ k = 0 /\ \A i \in 1 .. Len(f) : f[i] # Torn
         \/ k \in 1 .. Len(f) /\ f[k] = Torn /\ \A i \in 1 .. k - 1 : f[i] # Torn
<1> DEFINE I == {i \in 1 .. Len(f) : f[i] = Torn}
<1>0. Len(f) \in Nat
  BY LenProperties
<1>1. k = IF I # {} THEN Min(I) ELSE 0
  BY DEF SelectInSeq
<1>2. CASE I = {}
  BY <1>1, <1>2
<1>3. CASE I # {}
  <2>1. k = CHOOSE x \in I : \A y \in I : x <= y
    BY <1>1, <1>3 DEF Min
  <2>2. I \in SUBSET Nat
    BY <1>0
  <2>3. \E x \in I : \A y \in I : x <= y
    <3> HIDE DEF I
    <3> QED
      BY <1>3, <2>2, LeastElement
  <2>4. k \in I /\ \A y \in I : k <= y
    <3> HIDE DEF I
    <3> QED
      BY <2>1, <2>3
  <2>5. ASSUME NEW i \in 1 .. k - 1 PROVE f[i] # Torn
    <3>1. k \in 1 .. Len(f)
      BY <2>4
    <3>2. i \in 1 .. Len(f) /\ ~(k <= i)
      BY <1>0, <3>1
    <3> QED
      BY <2>4, <3>2
  <2> QED
    BY <2>4, <2>5
<1> QED
  BY <1>2, <1>3

\* The beginning of f that holds only whole records.
LEMMA WholeRecords ==
  ASSUME NEW f \in Seq(Lines), NEW m \in 0 .. Len(f),
         \A i \in 1 .. m : f[i] # Torn
  PROVE  SubSeq(f, 1, m) \in Seq(Records)
<1> DEFINE g == SubSeq(f, 1, m)
<1>0. Len(f) \in Nat /\ DOMAIN f = 1 .. Len(f)
  BY LenProperties
<1>1. g \in Seq(Lines) /\ Len(g) = m /\ \A k \in 1 .. m : g[k] = f[k]
  BY SubSeqProperties
<1> HIDE DEF g
<1>2. \A k \in 1 .. Len(g) : g[k] \in Records
  BY <1>0, <1>1, ElementOfSeq DEF Lines
<1>3. g \in Seq(Records)
  BY <1>1, <1>2
<1> QED
  BY <1>3 DEF g

\* replay ends with what the whole records in front of a torn one amount to.
IsReplayOf(f, s, m) ==
    /\ m \in 0 .. Len(f)
    /\ \A i \in 1 .. m : f[i] # Torn
    /\ SubSeq(f, 1, m) \in Seq(Records)
    /\ s.book = Apply(SubSeq(f, 1, m)).book
    /\ s.ok => s = Apply(SubSeq(f, 1, m))
    /\ Clean(f) => s = Apply(f)

\* replay ends with what some beginning of the file, without a torn record,
\* amounts to; of a clean file that is all of it.
LEMMA ReplaysPrefix ==
  ASSUME WholeTicks, NEW f \in Seq(Lines), NEW s \in Replays(f)
  PROVE  \E m : IsReplayOf(f, s, m)
<1> DEFINE k == SelectInSeq(f, LAMBDA r : r = Torn)
           m == IF k = 0 THEN Len(f) ELSE k - 1
           t == Apply(SubSeq(f, 1, m))
           halted == [t EXCEPT !.ok = FALSE]
           whole == {j \in k + 1 .. Len(f) : f[j] # Torn}
<1>0. Len(f) \in Nat /\ DOMAIN f = 1 .. Len(f)
  BY LenProperties
<1>1. \/ k = 0 /\ \A i \in 1 .. Len(f) : f[i] # Torn
      \/ k \in 1 .. Len(f) /\ f[k] = Torn /\ \A i \in 1 .. k - 1 : f[i] # Torn
  BY FirstTorn
<1>2. s \in CASE k \in {0, Len(f)} -> {t}
              [] k \in 1 .. Len(f) - 1 /\ Cardinality(whole) < 2 -> {t, halted}
              [] k \in 1 .. Len(f) - 1 /\ Cardinality(whole) >= 2 -> {halted}
  BY DEF Replays
<1> HIDE DEF k
<1>3. m \in 0 .. Len(f) /\ \A i \in 1 .. m : f[i] # Torn
  BY <1>0, <1>1
<1>e. k = 0 \/ k = Len(f) \/ k \in 1 .. Len(f) - 1
  BY <1>0, <1>1
<1>n. k = 0 => m = Len(f)
  OBVIOUS
<1> HIDE DEF m
<1>4. SubSeq(f, 1, m) \in Seq(Records)
  BY <1>3, WholeRecords
<1>5. t \in ReplayState
  BY <1>4, ReplayWellFormed DEF WellFormed
<1> HIDE DEF t, whole
<1>6. halted.book = t.book /\ halted.ok = FALSE
  BY <1>5 DEF ReplayState
<1> HIDE DEF halted
<1>7. k \in {0, Len(f)} => s = t
  BY <1>2
<1>8. s = t \/ s = halted
  <2>1. CASE k \in {0, Len(f)}
    BY <1>7, <2>1
  <2>2. CASE k \notin {0, Len(f)}
    <3>1. k \in 1 .. Len(f) - 1
      BY <1>e, <2>2
    <3>2. CASE Cardinality(whole) < 2
      BY <1>2, <2>2, <3>1, <3>2
    <3>3. CASE ~(Cardinality(whole) < 2)
      <4>1. Cardinality(whole) >= 2
        <5>1. whole \subseteq 1 .. Len(f)
          BY <1>0, <3>1 DEF whole
        <5>2. IsFiniteSet(1 .. Len(f))
          BY <1>0, FS_Interval
        <5>3. Cardinality(whole) \in Nat
          BY <5>1, <5>2, FS_Subset, FS_CardinalityType
        <5> QED
          BY <3>3, <5>3
      <4> QED
        BY <1>2, <2>2, <3>1, <3>3, <4>1
    <3> QED
      BY <3>2, <3>3
  <2> QED
    BY <2>1, <2>2
<1>9. Clean(f) => s = Apply(f)
  <2> SUFFICES ASSUME Clean(f) PROVE s = Apply(f)
    OBVIOUS
  <2>1. k = 0
    BY <1>0, <1>1 DEF Clean
  <2>2. SubSeq(f, 1, m) = f
    BY <1>n, <2>1, WholePrefix
  <2> QED
    BY <1>7, <2>1, <2>2 DEF t
<1>10. IsReplayOf(f, s, m)
  BY <1>3, <1>4, <1>6, <1>8, <1>9 DEF IsReplayOf, t
<1> QED
  BY <1>10

\* A beginning of the file survives, perhaps with a piece of the next record.
LEMMA CrashKeeps ==
  ASSUME WholeTicks, RecoveryInv, Crash
  PROVE  RecoveryInv'
<1>1. Tracked
  BY DEF RecoveryInv
<1>2. /\ file \in Seq(Lines) /\ sequence \in Nat /\ Happened \in Seq(EngineEvents)
      /\ sent \in Nat /\ sent <= Len(Happened)
  BY <1>1 DEF Tracked
<1>3. Len(file) \in 0 .. Len(Whole) /\ SubSeq(Whole, 1, Len(file)) = file
  BY <1>2, ExtendedPrefix DEF Whole
<1>4. Whole \in Seq(Lines)
  BY <1>1, WholeType
<1>5. AllAccepted(file)
  BY <1>1, <1>3, <1>4, AcceptedPrefix DEF Tracked
<1>6. NamesIn(file, used)
  BY <1>1, <1>3, <1>4, NamesPrefix DEF Tracked, NamesUsed
<1>7. PICK k \in 0 .. Len(file) :
          \/ file' = SubSeq(file, 1, k)
          \/ file' = Append(SubSeq(file, 1, k), Torn)
  BY DEF Crash
<1> DEFINE g == SubSeq(file, 1, k)
<1>8. g \in Seq(Lines) /\ AllAccepted(g) /\ NamesIn(g, used)
  BY <1>2, <1>5, <1>6, SubSeqProperties, AcceptedPrefix, NamesPrefix
<1> HIDE DEF g
<1>9. file' \in Seq(Lines) /\ AllAccepted(file') /\ NamesIn(file', used)
  <2>1. CASE file' = g
    BY <1>8, <2>1
  <2>2. CASE file' = Append(g, Torn)
    <3>1. Torn \in Lines
      BY DEF Lines
    <3> DEFINE F == Append(g, Torn)
    <3>2. F \in Seq(Lines) /\ Len(g) + 1 \in DOMAIN F /\ F[Len(g) + 1] = Torn
      BY <1>8, <3>1, AppendProperties, LenProperties
    <3> HIDE DEF F
    <3>3. ~Clean(F)
      BY <3>2 DEF Clean
    <3>4. Accepts(F)
      BY <3>3 DEF Accepts
    <3>5. AllAccepted(F)
      BY <1>8, <3>1, <3>4, AcceptedAppend DEF F
    <3>6. NamesIn(F, used)
      <4>1. ~IsNewOrder(Torn)
        BY DEF IsNewOrder
      <4> QED
        BY <1>8, <3>1, <4>1, NamesAppend DEF F
    <3> QED
      BY <2>2, <3>2, <3>5, <3>6 DEF F
  <2> QED
    BY <1>7, <2>1, <2>2 DEF g
<1>10. /\ pc' = "recover" /\ old' = NoOrder /\ trades' = <<>> /\ incoming' = NoOrder
       /\ sent' = 0 /\ stp' = "NONE" /\ state' = "READY" /\ sequence' = 0
       /\ used' = used
  BY DEF Crash
<1>11. BetweenCalls'
  BY <1>10 DEF BetweenCalls
<1>12. Happened' = <<>>
  <2>1. (old = NoOrder /\ trades = <<>> => CallEvents = <<>>)'
    BY NothingHappened, PTL
  <2> QED
    BY <1>10, <2>1 DEF Happened
<1>13. <<>> \in Seq(EngineEvents) /\ Len(<<>>) = 0
  OBVIOUS
<1>14. Extended(file', 0, <<>>, 0) = file'
  BY <1>9, <1>13, ExtendedByNothing
<1>15. Whole' = file'
  BY <1>10, <1>12, <1>14 DEF Whole
<1>16. Tracked'
  BY <1>9, <1>10, <1>12, <1>13, <1>15 DEF Tracked, NamesUsed
<1>17. Fresh'
  <2>1. used \subseteq OrderIds
    BY DEF RecoveryInv, Fresh, TypeOK
  <2>2. filled' = [id \in OrderIds |-> 0]
    BY DEF Crash
  <2>3. filled' \in [OrderIds -> Nat]
    BY <2>2
  <2> QED
    BY <1>10, <2>1, <2>3 DEF Crash, Fresh
<1> QED
  BY <1>10, <1>11, <1>16, <1>17 DEF RecoveryInv

\* What the orders of a recovered book have traded, by id.
LEMMA FilledInType ==
  ASSUME NEW b \in BookType, NoClashIn(b)
  PROVE  /\ FilledIn(b) \in [OrderIds -> Nat]
         /\ \A id \in OrderIds : EntriesOf(b, id) = {} => FilledIn(b)[id] = 0
         /\ \A side \in Sides, p \in Prices : \A i \in DOMAIN b[side][p] :
                FilledIn(b)[b[side][p][i].id] = AlreadyFilled(b[side][p][i])
<1> DEFINE F(id) == IF EntriesOf(b, id) = {} THEN 0
                    ELSE AlreadyFilled(At(b, CHOOSE e \in EntriesOf(b, id) : TRUE))
<1>1. FilledIn(b) = [id \in OrderIds |-> F(id)]
  BY DEF FilledIn
<1>2. ASSUME NEW id \in OrderIds PROVE F(id) \in Nat
  <2>1. CASE EntriesOf(b, id) = {}
    BY <2>1
  <2>2. CASE EntriesOf(b, id) # {}
    <3> DEFINE e == CHOOSE e \in EntriesOf(b, id) : TRUE
    <3>1. e \in EntriesOf(b, id)
      BY <2>2
    <3> HIDE DEF e
    <3>2. e \in Entries(b)
      BY <3>1 DEF EntriesOf
    <3>3. At(b, e) \in RestingOrder
      BY <3>2, AtType
    <3>4. AlreadyFilled(At(b, e)) \in Nat
      BY <3>3, BookAssumption DEF AlreadyFilled, RestingOrder, Order, Quantities
    <3>5. F(id) = AlreadyFilled(At(b, e))
      BY <2>2 DEF e
    <3> QED
      BY <3>4, <3>5
  <2> QED
    BY <2>1, <2>2
<1>3. \A id \in OrderIds : EntriesOf(b, id) = {} => F(id) = 0
  OBVIOUS
<1>4. ASSUME NEW side \in Sides, NEW p \in Prices, NEW i \in DOMAIN b[side][p]
      PROVE  /\ b[side][p][i].id \in OrderIds
             /\ F(b[side][p][i].id) = AlreadyFilled(b[side][p][i])
  <2> DEFINE id == b[side][p][i].id
             e == <<side, p, i>>
  <2>1. EntriesOf(b, id) = {e}
    BY FoundAt
  <2>2. b[side][p][i] \in RestingOrder
    BY DEF BookType
  <2>3. (CHOOSE d \in {e} : TRUE) = e
    OBVIOUS
  <2>4. At(b, e) = b[side][p][i]
    BY DEF At
  <2>5. id \in OrderIds
    BY <2>2 DEF RestingOrder, Order
  <2> HIDE DEF id, e
  <2>6. F(id) = AlreadyFilled(At(b, e))
    BY <2>1, <2>3
  <2> QED
    BY <2>4, <2>5, <2>6 DEF id
<1> HIDE DEF F
<1>5. FilledIn(b) \in [OrderIds -> Nat]
  BY <1>1, <1>2
<1>6. \A id \in OrderIds : FilledIn(b)[id] = F(id)
  BY <1>1
<1> QED
  BY <1>3, <1>4, <1>5, <1>6

\* In a book that replay has built every order has something left.
LEMMA ReplayedIsLive ==
  ASSUME NEW b \in BookType,
         \A side \in Sides, p \in Prices : \A i \in DOMAIN b[side][p] :
             b[side][p][i].rem > 0
  PROVE  LiveOf(b) = b
<1>1. ASSUME NEW side \in Sides, NEW p \in Prices
      PROVE  LiveOf(b)[side][p] = b[side][p]
  <2>1. b[side][p] \in Seq(RestingOrder)
    BY DEF BookType
  <2>2. LiveOrders(b[side][p]) = b[side][p]
    BY <2>1, LiveAll
  <2> QED
    BY <2>2, LiveOfType
<1>2. LiveOf(b) \in BookType
  BY LiveOfType
<1> DEFINE l == LiveOf(b)
<1> HIDE DEF l
<1>3. l \in BookType /\ \A side \in Sides, p \in Prices : l[side][p] = b[side][p]
  BY <1>1, <1>2 DEF l
<1>4. \A side \in Sides : l[side] = b[side]
  BY <1>3 DEF BookType
<1>5. l = b
  BY <1>3, <1>4 DEF BookType
<1> QED
  BY <1>5 DEF l

\* Before replay the file is all there is.
LEMMA AloneWithFile ==
  ASSUME WholeTicks, RecoveryInv, pc = "recover"
  PROVE  /\ file \in Seq(Lines) /\ AllAccepted(file) /\ NamesIn(file, used)
         /\ Happened = <<>> /\ Whole = file /\ sent = 0
         /\ old = NoOrder /\ trades = <<>> /\ incoming = NoOrder /\ stp = "NONE"
         /\ Fresh /\ Tracked
<1>1. Tracked /\ BetweenCalls /\ Fresh
  BY DEF RecoveryInv
<1>2. /\ old = NoOrder /\ trades = <<>> /\ incoming = NoOrder /\ stp = "NONE"
      /\ sent = 0
  BY <1>1 DEF BetweenCalls
<1>3. Happened = <<>>
  BY <1>2, NothingHappened DEF Happened
<1>4. file \in Seq(Lines) /\ sequence \in Nat
  BY <1>1 DEF Tracked
<1>5. <<>> \in Seq(EngineEvents) /\ Len(<<>>) = 0
  OBVIOUS
<1>6. Extended(file, sequence, <<>>, 0) = file
  BY <1>4, <1>5, ExtendedByNothing
<1>7. Whole = file
  BY <1>2, <1>3, <1>6 DEF Whole
<1> QED
  BY <1>1, <1>2, <1>3, <1>4, <1>7 DEF Tracked, NamesUsed

\* The book that replay leaves, whether it accepts the file or not.
LEMMA ReplayedBook ==
  ASSUME WholeTicks, NEW f \in Seq(Lines), NEW s \in Replays(f), NEW U,
         NamesIn(f, U)
  PROVE  /\ s.book \in BookType /\ NoClashIn(s.book)
         /\ \A side \in Sides, p \in Prices : \A i \in DOMAIN s.book[side][p] :
                s.book[side][p][i].rem > 0 /\ s.book[side][p][i].id \in U
         /\ s.ok =>
              /\ s.lastSequence \in Nat
              /\ getNextPrioritySequence(s) \in 0 .. PriorityMax
              /\ \A side \in Sides, p \in Prices : \A i \in DOMAIN s.book[side][p] :
                     s.book[side][p][i].prio < getNextPrioritySequence(s)
         /\ Clean(f) => s = Apply(f)
<1>1. PICK m : IsReplayOf(f, s, m)
  BY ReplaysPrefix
<1> DEFINE g == SubSeq(f, 1, m)
           t == Apply(g)
<1>2. /\ m \in 0 .. Len(f) /\ g \in Seq(Records) /\ s.book = t.book
      /\ s.ok => s = t
      /\ Clean(f) => s = Apply(f)
  BY <1>1 DEF IsReplayOf
<1>3. WellFormed(g, t)
  BY <1>2, ReplayWellFormed
<1>4. NamesIn(g, U)
  BY <1>2, NamesPrefix
<1>t. \A k \in DOMAIN g : g[k] # Torn
  <2>1. \A i \in 1 .. m : f[i] # Torn
    BY <1>1 DEF IsReplayOf
  <2>2. Len(g) = m /\ \A k \in 1 .. m : g[k] = f[k]
    BY <1>2, SubSeqProperties
  <2>3. DOMAIN g = 1 .. m
    BY <1>2, <2>2, LenProperties
  <2> HIDE DEF g
  <2> QED
    BY <2>1, <2>2, <2>3
<1> HIDE DEF g, t
<1>5. t \in ReplayState /\ NoClashIn(t.book) /\ AllBacked(g, t, t.book)
      /\ MaxRecorded(g, t)
  BY <1>3 DEF WellFormed
<1>6. /\ t.book \in BookType /\ t.lastSequence \in Nat /\ t.maxPriority \in Nat
      /\ t.newOrders \in Nat
  BY <1>5 DEF ReplayState
<1>7. \A k \in DOMAIN g : g[k] \in Records
  BY <1>2
<1>8. ASSUME NEW k \in DOMAIN g, g[k].kind = "NEW_ORDER"
      PROVE  g[k] \in NewOrderRecord
  BY <1>7, <1>8 DEF Records, CancelRecord, FillRecord
<1>9. ASSUME NEW side \in Sides, NEW p \in Prices, NEW i \in DOMAIN t.book[side][p]
      PROVE  /\ t.book[side][p][i].rem > 0
             /\ t.book[side][p][i].prio <= t.maxPriority
             /\ t.newOrders > 0
             /\ t.book[side][p][i].prio \in Nat
             /\ \E k \in DOMAIN g :
                   g[k].kind = "NEW_ORDER" /\ g[k].id = t.book[side][p][i].id
  <2>1. Backed(g, t, t.book[side][p][i])
    BY <1>5 DEF AllBacked
  <2>2. t.book[side][p][i] \in RestingOrder
    BY <1>6 DEF BookType
  <2> QED
    BY <2>1, <2>2 DEF Backed, RestingOrder, Order
<1>10. ASSUME NEW k \in DOMAIN g, g[k].kind = "NEW_ORDER"
       PROVE  g[k].id \in U
  <2>1. g[k] # Torn
    BY <1>t
  <2> QED
    BY <1>4, <1>10, <2>1 DEF NamesIn, IsNewOrder
<1>11. ASSUME t.newOrders > 0
       PROVE  t.maxPriority < PriorityMax
  <2>1. PICK k \in DOMAIN g : g[k].kind = "NEW_ORDER" /\ g[k].prio = t.maxPriority
    BY <1>5, <1>11 DEF MaxRecorded
  <2>2. g[k] \in NewOrderRecord
    BY <1>8, <2>1
  <2> QED
    BY <2>1, <2>2 DEF NewOrderRecord
<1>12. getNextPrioritySequence(t) \in 0 .. PriorityMax
  <2>1. PriorityMax \in Nat
    BY EngineAssumption
  <2> QED
    BY <1>6, <1>11, <2>1 DEF getNextPrioritySequence
<1>13. ASSUME NEW side \in Sides, NEW p \in Prices, NEW i \in DOMAIN t.book[side][p]
       PROVE  t.book[side][p][i].prio < getNextPrioritySequence(t)
  BY <1>6, <1>9 DEF getNextPrioritySequence
<1>14. \A side \in Sides, p \in Prices : \A i \in DOMAIN t.book[side][p] :
          t.book[side][p][i].rem > 0 /\ t.book[side][p][i].id \in U
  <2> SUFFICES ASSUME NEW side \in Sides, NEW p \in Prices,
                      NEW i \in DOMAIN t.book[side][p]
               PROVE  t.book[side][p][i].rem > 0 /\ t.book[side][p][i].id \in U
    OBVIOUS
  <2>1. PICK k \in DOMAIN g :
            g[k].kind = "NEW_ORDER" /\ g[k].id = t.book[side][p][i].id
    BY <1>9
  <2> QED
    BY <1>9, <1>10, <2>1
<1>15. s.ok =>
         /\ s.lastSequence \in Nat
         /\ getNextPrioritySequence(s) \in 0 .. PriorityMax
         /\ \A side \in Sides, p \in Prices : \A i \in DOMAIN s.book[side][p] :
                s.book[side][p][i].prio < getNextPrioritySequence(s)
  <2> SUFFICES ASSUME s = t
               PROVE  /\ t.lastSequence \in Nat
                      /\ getNextPrioritySequence(t) \in 0 .. PriorityMax
                      /\ \A side \in Sides, p \in Prices :
                           \A i \in DOMAIN t.book[side][p] :
                             t.book[side][p][i].prio < getNextPrioritySequence(t)
    BY <1>2
  <2> QED
    BY <1>6, <1>12, <1>13
<1> QED
  BY <1>2, <1>5, <1>6, <1>14, <1>15

\* replay has stopped at a record: the engine is halted with what it has built.
LEMMA RecoverFailsKeeps ==
  ASSUME WholeTicks, RecoveryInv, RecoverFails
  PROVE  RecoveryInv'
<1>1. PICK s \in Replays(file) : ~s.ok /\ book' = s.book
  BY DEF RecoverFails
<1>2. /\ pc = "recover" /\ pc' = "idle" /\ state' = "HALTED"
      /\ UNCHANGED <<stp, nextTradeId, incoming, old, trades, filled, priority,
                     sent, used, recoveryVars>>
  BY DEF RecoverFails
<1>3. /\ file \in Seq(Lines) /\ AllAccepted(file) /\ NamesIn(file, used)
      /\ Happened = <<>> /\ Whole = file /\ sent = 0
      /\ old = NoOrder /\ trades = <<>> /\ incoming = NoOrder /\ stp = "NONE"
      /\ Fresh /\ Tracked
  BY <1>2, AloneWithFile
<1>4. s.book \in BookType /\ NoClashIn(s.book) /\ (Clean(file) => s = Apply(file))
  BY <1>3, ReplayedBook
<1>5. ~Clean(file)
  <2>1. Accepts(file)
    BY <1>3, AcceptedWhole
  <2> QED
    BY <1>1, <1>4, <2>1 DEF Accepts
<1>6. Follows(Whole, NextNumber, book')
  BY <1>3, <1>5 DEF Follows
<1>7. Quiet
  <2>1. (old = NoOrder /\ trades = <<>> => CallEvents = <<>>)'
    BY NothingHappened, PTL
  <2>2. Happened' = <<>>
    BY <1>2, <1>3, <2>1 DEF Happened
  <2> QED
    BY <1>2, <1>3, <2>2 DEF Quiet, recoveryVars
<1>8. Tracked' /\ Followed'
  BY <1>2, <1>3, <1>6, <1>7, QuietKeeps
<1>9. BetweenCalls'
  BY <1>2, <1>3 DEF BetweenCalls
<1>10. TypeOK'
  <2>1. book' \in [Sides -> [Prices -> Seq(RestingOrder)]]
    BY <1>1, <1>4 DEF BookType
  <2>2. priority' \in 0 .. PriorityMax /\ nextTradeId' \in Nat \ {0}
    BY <1>2, <1>3, EngineAssumption DEF Fresh
  <2>3. filled' \in [OrderIds -> Nat] /\ used' \subseteq OrderIds
    BY <1>2, <1>3 DEF Fresh
  <2>4. trades' \in Seq(Trade) /\ sent' \in Nat /\ stp' \in STPPolicies
    BY <1>2, <1>3 DEF STPPolicies
  <2> QED
    BY <1>2, <1>3, <2>1, <2>2, <2>3, <2>4 DEF TypeOK
<1>11. CallInv'
  BY <1>2, <1>3 DEF CallInv
<1>12. NoClash'
  BY <1>1, <1>4 DEF NoClash, NoClashIn
<1> QED
  BY <1>2, <1>8, <1>9, <1>10, <1>11, <1>12 DEF RecoveryInv

\* replay has accepted the file: the engine goes on where the journal ends.
LEMMA RecoverKeeps ==
  ASSUME WholeTicks, RecoveryInv, Recover
  PROVE  RecoveryInv'
<1>1. PICK s \in Replays(file) :
          /\ s.ok
          /\ book' = s.book
          /\ filled' = FilledIn(s.book)
          /\ priority' = getNextPrioritySequence(s)
          /\ sequence' = s.lastSequence + 1
  BY DEF Recover
<1>2. /\ pc = "recover" /\ pc' = "idle"
      /\ UNCHANGED <<stp, nextTradeId, incoming, old, trades, state, sent, used,
                     file, crashes>>
  BY DEF Recover
<1>3. /\ file \in Seq(Lines) /\ AllAccepted(file) /\ NamesIn(file, used)
      /\ Happened = <<>> /\ Whole = file /\ sent = 0
      /\ old = NoOrder /\ trades = <<>> /\ incoming = NoOrder /\ stp = "NONE"
      /\ Fresh /\ Tracked
  BY <1>2, AloneWithFile
<1>4. /\ s.book \in BookType /\ NoClashIn(s.book)
      /\ \A side \in Sides, p \in Prices : \A i \in DOMAIN s.book[side][p] :
             s.book[side][p][i].rem > 0 /\ s.book[side][p][i].id \in used
      /\ s.ok =>
           /\ s.lastSequence \in Nat
           /\ getNextPrioritySequence(s) \in 0 .. PriorityMax
           /\ \A side \in Sides, p \in Prices : \A i \in DOMAIN s.book[side][p] :
                  s.book[side][p][i].prio < getNextPrioritySequence(s)
      /\ Clean(file) => s = Apply(file)
  BY <1>3, ReplayedBook
<1>5. Follows(file, s.lastSequence + 1, s.book)
  <2> SUFFICES ASSUME Clean(file)
               PROVE  Follows(file, s.lastSequence + 1, s.book)
    BY DEF Follows
  <2>1. Accepts(file)
    BY <1>3, AcceptedWhole
  <2>2. LiveOf(s.book) = s.book
    BY <1>4, ReplayedIsLive
  <2> QED
    BY <1>4, <2>1, <2>2 DEF Accepts, Follows
<1>6. Happened' = <<>>
  <2>1. (old = NoOrder /\ trades = <<>> => CallEvents = <<>>)'
    BY NothingHappened, PTL
  <2> QED
    BY <1>2, <1>3, <2>1 DEF Happened
<1>7. sequence' \in Nat
  BY <1>1, <1>4
<1>8. <<>> \in Seq(EngineEvents) /\ Len(<<>>) = 0
  OBVIOUS
<1>9. Whole' = file
  <2>1. Extended(file, sequence', <<>>, 0) = file
    BY <1>3, <1>7, <1>8, ExtendedByNothing
  <2> QED
    BY <1>2, <1>3, <1>6, <2>1 DEF Whole
<1>10. NextNumber' = s.lastSequence + 1
  <2> DEFINE n == Len(Happened')
             k == sent'
             m == sequence'
  <2>a. n = 0 /\ k = 0 /\ m \in Nat
    BY <1>2, <1>3, <1>6, <1>7, <1>8
  <2>b. NextNumber' = m + (n - k)
    BY DEF NextNumber
  <2> HIDE DEF n, k, m
  <2>c. m + (n - k) = m
    BY <2>a
  <2>1. NextNumber' = sequence'
    BY <2>b, <2>c DEF m
  <2> QED
    BY <1>1, <2>1
<1>11. Tracked'
  BY <1>2, <1>3, <1>6, <1>7, <1>8, <1>9 DEF Tracked, NamesUsed
<1>12. Followed'
  BY <1>1, <1>5, <1>9, <1>10 DEF Followed
<1>13. BetweenCalls'
  BY <1>2, <1>3 DEF BetweenCalls, Fresh
<1>14. /\ FilledIn(s.book) \in [OrderIds -> Nat]
       /\ \A id \in OrderIds : EntriesOf(s.book, id) = {} => FilledIn(s.book)[id] = 0
       /\ \A side \in Sides, p \in Prices : \A i \in DOMAIN s.book[side][p] :
              FilledIn(s.book)[s.book[side][p][i].id] =
                  AlreadyFilled(s.book[side][p][i])
  BY <1>4, FilledInType
<1>15. TypeOK'
  <2>1. book' \in [Sides -> [Prices -> Seq(RestingOrder)]]
    BY <1>1, <1>4 DEF BookType
  <2>2. priority' \in 0 .. PriorityMax /\ nextTradeId' \in Nat \ {0}
    BY <1>1, <1>2, <1>3, <1>4 DEF Fresh
  <2>3. filled' \in [OrderIds -> Nat] /\ used' \subseteq OrderIds
    BY <1>1, <1>2, <1>3, <1>14 DEF Fresh
  <2>4. /\ trades' \in Seq(Trade) /\ sent' \in Nat /\ stp' \in STPPolicies
        /\ state' = "READY"
    BY <1>2, <1>3 DEF STPPolicies, Fresh
  <2> QED
    BY <1>2, <1>3, <2>1, <2>2, <2>3, <2>4 DEF TypeOK
<1>16. CallInv'
  BY <1>2, <1>3 DEF CallInv
<1>17. NoClash'
  BY <1>1, <1>4 DEF NoClash, NoClashIn
<1>18. AllAccounted'
  <2> SUFFICES ASSUME NEW side \in Sides, NEW p \in Prices,
                      NEW i \in DOMAIN s.book[side][p]
               PROVE  /\ s.book[side][p][i].id \in used'
                      /\ s.book[side][p][i].prio < priority'
                      /\ AlreadyFilled(s.book[side][p][i]) =
                             filled'[s.book[side][p][i].id]
    BY <1>1 DEF AllAccounted, Accounted, AlreadyFilled
  <2> QED
    BY <1>1, <1>2, <1>4, <1>14
<1>19. UnusedUnfilled'
  <2> SUFFICES ASSUME NEW id \in OrderIds \ used
               PROVE  FilledIn(s.book)[id] = 0
    BY <1>1, <1>2 DEF UnusedUnfilled
  <2>1. \A e : e \notin EntriesOf(s.book, id)
    BY <1>4, EntriesOfPlace
  <2>2. EntriesOf(s.book, id) = {}
    BY <2>1
  <2> QED
    BY <1>14, <2>2
<1>20. InFlightApart' /\ IncomingFilled'
  BY <1>2, <1>3 DEF InFlightApart, IncomingFilled
<1>21. Identities'
  BY <1>17, <1>18, <1>19, <1>20 DEF Identities
<1> QED
  BY <1>2, <1>11, <1>12, <1>13, <1>15, <1>16, <1>17, <1>21 DEF RecoveryInv

\* The engine starts with an empty file and an empty book.
LEMMA RecoveryInitial ==
  ASSUME WholeTicks
  PROVE  RecoveryInit => RecoveryInv
<1> SUFFICES ASSUME RecoveryInit PROVE RecoveryInv
  OBVIOUS
<1>1. /\ file = <<>> /\ sequence = 0 /\ Init
  BY DEF RecoveryInit
<1>2. /\ book = EmptyBook /\ stp = "NONE" /\ nextTradeId = 1 /\ pc = "idle"
      /\ incoming = NoOrder /\ old = NoOrder /\ trades = <<>>
      /\ filled = [id \in OrderIds |-> 0]
      /\ state = "READY" /\ priority = 0 /\ sent = 0 /\ used = {}
  BY <1>1 DEF Init, BookInit, EmptyBook
<1>e. \A side \in Sides, p \in Prices : book[side][p] = <<>>
  BY <1>2 DEF EmptyBook
<1>b. book \in BookType
  BY <1>2, EmptySeq DEF BookType, EmptyBook
<1>3. TypeOK
  BY <1>2, <1>b, EngineAssumption DEF TypeOK, BookType, STPPolicies
<1>4. CallInv /\ BetweenCalls
  BY <1>2 DEF CallInv, BetweenCalls
<1>5. AllAccounted /\ NoClash
  BY <1>e DEF AllAccounted, NoClash
<1>6. InFlightApart /\ IncomingFilled /\ UnusedUnfilled
  BY <1>2 DEF InFlightApart, IncomingFilled, UnusedUnfilled
<1>7. Happened = <<>>
  BY <1>2, <1>4, IdleHappened
<1>8. <<>> \in Seq(EngineEvents) /\ Len(<<>>) = 0 /\ <<>> \in Seq(Lines)
      /\ <<>> \in Seq(Records)
  OBVIOUS
<1>9. Whole = <<>>
  <2>1. Extended(<<>>, 0, <<>>, 0) = <<>>
    BY <1>8, ExtendedByNothing
  <2> QED
    BY <1>1, <1>2, <1>7, <2>1 DEF Whole
<1>10. /\ Apply(<<>>).ok /\ Apply(<<>>).book = EmptyBook /\ Apply(<<>>).first
  BY ApplyEmpty DEF ReplayInit
<1>11. Uncrossed(EmptyBook)
  BY DEF Uncrossed, EmptyBook, Sides
<1>12. LiveOf(book) = book
  BY <1>b, <1>e, ReplayedIsLive
<1>13. Followed
  BY <1>2, <1>9, <1>10, <1>11, <1>12 DEF Followed, Follows
<1>14. AllAccepted(<<>>)
  <2>1. Accepts(<<>>)
    BY <1>10, <1>11 DEF Accepts
  <2>2. SubSeq(<<>>, 1, 0) = <<>>
    BY <1>8, WholePrefix
  <2>3. \A n \in 0 .. 0 : n = 0
    OBVIOUS
  <2>4. \A n \in 0 .. 0 : Accepts(SubSeq(<<>>, 1, n))
    BY <2>1, <2>2, <2>3
  <2> QED
    BY <1>8, <2>4 DEF AllAccepted
<1>15. NamesUsed(<<>>)
  BY DEF NamesUsed, NamesIn
<1>16. Tracked
  BY <1>1, <1>2, <1>7, <1>8, <1>9, <1>14, <1>15 DEF Tracked
<1> QED
  BY <1>2, <1>3, <1>4, <1>5, <1>6, <1>13, <1>16 DEF RecoveryInv, Identities

\* Nothing happens.
LEMMA StutterKeeps ==
  ASSUME RecoveryInv, UNCHANGED allVars
  PROVE  RecoveryInv'
<1>1. UNCHANGED <<book, stp, nextTradeId, pc, incoming, old, trades, filled>>
  BY DEF allVars, vars, bookVars
<1>2. UNCHANGED <<state, priority, sent, used, file, sequence, crashes>>
  BY DEF allVars, vars, engineVars, recoveryVars
<1>3. Happened' = Happened
  BY <1>1, <1>2 DEF Happened, Events, CallEvents, AnnouncesAccepted, TradeEvent,
                    OrderAcceptedEvent, OrderCancelledEvent
<1>4. Whole' = Whole /\ NextNumber' = NextNumber
  BY <1>2, <1>3 DEF Whole, NextNumber
<1>5. Tracked' <=> Tracked
  BY <1>2, <1>3, <1>4 DEF Tracked, NamesUsed
<1>6. BetweenCalls' <=> BetweenCalls
  BY <1>1, <1>2 DEF BetweenCalls
<1>7. Fresh' <=> Fresh
  BY <1>1, <1>2 DEF Fresh
<1>8. (TypeOK' <=> TypeOK) /\ (CallInv' <=> CallInv)
  BY <1>1, <1>2 DEF TypeOK, CallInv
<1>9. NoClash' <=> NoClash
  BY <1>1 DEF NoClash
<1>10. AllAccounted' <=> AllAccounted
  BY <1>1, <1>2 DEF AllAccounted, Accounted
<1>11. InFlightApart' <=> InFlightApart
  BY <1>1, <1>2 DEF InFlightApart, Accounted
<1>12. (IncomingFilled' <=> IncomingFilled) /\ (UnusedUnfilled' <=> UnusedUnfilled)
  BY <1>1, <1>2 DEF IncomingFilled, UnusedUnfilled
<1>13. Followed' <=> Followed
  BY <1>1, <1>4 DEF Followed
<1> QED
  BY <1>1, <1>2, <1>5, <1>6, <1>7, <1>8, <1>9, <1>10, <1>11, <1>12, <1>13
  DEF RecoveryInv, Identities

\* Every step keeps the invariant.
LEMMA RecoveryStep ==
  ASSUME FreshIds, WholeTicks, PoolHasRoom
  PROVE  RecoveryInv /\ [RecoveryNext]_allVars => RecoveryInv'
<1> SUFFICES ASSUME RecoveryInv, [RecoveryNext]_allVars PROVE RecoveryInv'
  OBVIOUS
<1>1. CASE EngineStep
  BY <1>1, EngineKeeps
<1>2. CASE Crash
  BY <1>2, CrashKeeps
<1>3. CASE Recover
  BY <1>3, RecoverKeeps
<1>4. CASE RecoverFails
  BY <1>4, RecoverFailsKeeps
<1>5. CASE UNCHANGED allVars
  BY <1>5, StutterKeeps
<1> QED
  BY <1>1, <1>2, <1>3, <1>4, <1>5 DEF RecoveryNext, EngineStep

\* The invariant holds in every state the engine can reach.
LEMMA RecoveryInvariant ==
  ASSUME FreshIds, WholeTicks, PoolHasRoom
  PROVE  RecoverySpec => []RecoveryInv
<1>1. RecoveryInit => RecoveryInv
  BY RecoveryInitial
<1>2. RecoveryInv /\ [RecoveryNext]_allVars => RecoveryInv'
  BY RecoveryStep
<1> QED
  BY <1>1, <1>2, PTL DEF RecoverySpec

\* The file is a beginning of the journal.
LEMMA FileAccepted ==
  ASSUME WholeTicks, RecoveryInv
  PROVE  file \in Seq(Lines) /\ AllAccepted(file)
<1>1. Tracked
  BY DEF RecoveryInv
<1>2. /\ file \in Seq(Lines) /\ sequence \in Nat /\ Happened \in Seq(EngineEvents)
      /\ sent \in Nat /\ sent <= Len(Happened)
  BY <1>1 DEF Tracked
<1>3. Len(file) \in 0 .. Len(Whole) /\ SubSeq(Whole, 1, Len(file)) = file
  BY <1>2, ExtendedPrefix DEF Whole
<1>4. Whole \in Seq(Lines)
  BY <1>1, WholeType
<1> QED
  BY <1>1, <1>2, <1>3, <1>4, AcceptedPrefix DEF Tracked

\* Wherever crashes cut the journal, however often and in however long a
\* history, replay accepts it and builds a book that is not crossed.
THEOREM JournalReplays ==
  ASSUME FreshIds, WholeTicks, PoolHasRoom
  PROVE  RecoverySpec => []ReplayAccepts
<1>1. RecoveryInv => ReplayAccepts
  <2> SUFFICES ASSUME RecoveryInv, Clean(file)
               PROVE  Apply(file).ok /\ Uncrossed(Apply(file).book)
    BY DEF ReplayAccepts, Uncrossed
  <2>1. Accepts(file)
    BY FileAccepted, AcceptedWhole
  <2> QED
    BY <2>1 DEF Accepts
<1>2. RecoverySpec => []RecoveryInv
  BY RecoveryInvariant
<1> QED
  BY <1>1, <1>2, PTL

\* Between two operations replay of the journal rebuilds the book.
THEOREM BookIsRecovered ==
  ASSUME FreshIds, WholeTicks, PoolHasRoom
  PROVE  RecoverySpec => []RecoveredBook
<1>1. RecoveryInv => RecoveredBook
  <2> SUFFICES ASSUME RecoveryInv, Clean(file), pc = "idle", state = "READY"
               PROVE  Apply(file).book = LiveBook
    BY DEF RecoveredBook
  <2>1. Tracked /\ BetweenCalls /\ Followed
    BY DEF RecoveryInv
  <2>2. Happened = <<>> /\ sent = 0
    BY <2>1, IdleHappened DEF BetweenCalls
  <2>3. file \in Seq(Lines) /\ sequence \in Nat
        /\ <<>> \in Seq(EngineEvents) /\ Len(<<>>) = 0
    BY <2>1 DEF Tracked
  <2>4. Extended(file, sequence, <<>>, 0) = file
    BY <2>3, ExtendedByNothing
  <2>5. Whole = file
    BY <2>2, <2>4 DEF Whole
  <2>6. Apply(file).book = LiveOf(book)
    BY <2>1, <2>5 DEF Followed, Follows
  <2> QED
    BY <2>6 DEF LiveOf, LiveBook
<1>2. RecoverySpec => []RecoveryInv
  BY RecoveryInvariant
<1> QED
  BY <1>1, <1>2, PTL

\* Ids and priorities stay distinct through crashes and recoveries.
THEOREM RecoveredOrdersUnique ==
  ASSUME FreshIds, WholeTicks, PoolHasRoom
  PROVE  RecoverySpec => []RestingUnique
<1>1. RecoveryInv => RestingUnique
  <2> SUFFICES ASSUME RecoveryInv PROVE RestingUnique
    OBVIOUS
  <2>1. CASE pc = "recover"
    <3>1. book = EmptyBook
      BY <2>1 DEF RecoveryInv, Fresh
    <3>2. \A side \in Sides, p \in Prices : book[side][p] = <<>>
      BY <3>1 DEF EmptyBook
    <3> QED
      BY <3>2 DEF RestingUnique
  <2>2. CASE pc # "recover"
    BY <2>2 DEF RecoveryInv, NoClash, Clash, RestingUnique
  <2> QED
    BY <2>1, <2>2
<1>2. RecoverySpec => []RecoveryInv
  BY RecoveryInvariant
<1> QED
  BY <1>1, <1>2, PTL
=============================================================================
