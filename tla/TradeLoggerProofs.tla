-------------------------- MODULE TradeLoggerProofs --------------------------
(***************************************************************************)
(* Proofs about the trade logger for every number of threads, every set of *)
(* trades and every size of the queue.                                     *)
(***************************************************************************)
EXTENDS TradeLogger, SequenceTheorems, TLAPS

-----------------------------------------------------------------------------
(* Sequences *)

\* Moving the head of the last part into an empty middle part.
LEMMA HeadToMiddle ==
  ASSUME NEW S, NEW a \in Seq(S), NEW c \in Seq(S), c # <<>>
  PROVE  a \o <<>> \o c = a \o <<Head(c)>> \o Tail(c)
  OBVIOUS

\* Moving the middle part behind the first.
LEMMA MiddleToFirst ==
  ASSUME NEW S, NEW a \in Seq(S), NEW b \in Seq(S), NEW e \in S
  PROVE  a \o b \o <<e>> = a \o Append(b, e) \o <<>>
<1>1. a \o b \o <<e>> = a \o (b \o <<e>>)
  BY ConcatAssociative
<1>2. b \o <<e>> = Append(b, e)
  OBVIOUS
<1>3. Append(b, e) \in Seq(S)
  OBVIOUS
<1>4. a \o Append(b, e) \in Seq(S)
  BY <1>3
<1>5. a \o Append(b, e) \o <<>> = a \o Append(b, e)
  BY <1>4
<1> QED
  BY <1>1, <1>2, <1>5

\* Spilling a part of the buffer loses and reorders nothing.
LEMMA SpillKeeps ==
  ASSUME NEW S, NEW a \in Seq(S), NEW b \in Seq(S), NEW k \in 0 .. Len(b)
  PROVE  /\ a \o SubSeq(b, 1, k) \in Seq(S)
         /\ SubSeq(b, k + 1, Len(b)) \in Seq(S)
         /\ a \o SubSeq(b, 1, k) \o SubSeq(b, k + 1, Len(b)) = a \o b
<1> DEFINE x == SubSeq(b, 1, k)
           y == SubSeq(b, k + 1, Len(b))
<1>1. x \in Seq(S) /\ y \in Seq(S) /\ Len(x) = k /\ Len(y) = Len(b) - k
  OBVIOUS
<1>2. \A i \in 1 .. k : x[i] = b[i]
  OBVIOUS
<1>3. \A i \in 1 .. (Len(b) - k) : y[i] = b[k + i]
  OBVIOUS
<1> HIDE DEF x, y
<1>4. x \o y = b
  <2>1. x \o y \in Seq(S) /\ Len(x \o y) = Len(b)
    <3>1. x \o y \in Seq(S) /\ Len(x \o y) = Len(x) + Len(y)
      BY <1>1, ConcatProperties
    <3>2. Len(b) \in Nat /\ k + (Len(b) - k) = Len(b)
      OBVIOUS
    <3> QED
      BY <1>1, <3>1, <3>2
  <2>2. ASSUME NEW i \in 1 .. Len(x \o y)
        PROVE  (x \o y)[i] = b[i]
    <3>1. CASE i <= k
      BY <1>1, <1>2, <2>1, <3>1
    <3>2. CASE i > k
      <4>1. (x \o y)[i] = y[i - k]
        BY <1>1, <2>1, <3>2
      <4>2. i - k \in 1 .. (Len(b) - k) /\ k + (i - k) = i
        BY <2>1, <3>2
      <4> QED
        BY <1>3, <4>1, <4>2
    <3> QED
      BY <3>1, <3>2, <2>1
  <2> QED
    BY <2>1, <2>2, SeqEqual
<1>5. a \o x \o y = a \o (x \o y)
  BY <1>1
<1>6. a \o x \in Seq(S)
  BY <1>1
<1>7. a \o x \o y = a \o b
  BY <1>4, <1>5
<1> QED
  BY <1>1, <1>6, <1>7 DEF x, y

-----------------------------------------------------------------------------
(* The inductive invariant *)

LoggerTypes ==
    /\ queue \in Seq(Trades)
    /\ buffered \in Seq(Trades)
    /\ file \in Seq(Trades)
    /\ logged \in Seq(Trades)
    /\ hand \in Trades \cup {NoTrade}
    /\ logging \in [Loggers -> Trades \cup {NoTrade}]
    /\ worker \in {"test", "asleep", "loop", "write", "exited"}
    /\ stopper \in {"idle", "mark", "notify", "join", "rejoin"}
    /\ stop_ \in BOOLEAN
    /\ stopped \in BOOLEAN
    /\ error \in BOOLEAN
    /\ bad \in BOOLEAN

\* The worker holds a trade exactly while it writes it, but for the trade a
\* failed write leaves in its hand; it takes no other after that.
HandHeld ==
    /\ worker = "write" => hand # NoTrade /\ ~error
    /\ hand # NoTrade => worker = "write" \/ error

\* A worker that left without an error left an empty queue behind, and log
\* refuses since.
ExitedDrained == worker = "exited" => error \/ (stop_ /\ queue = <<>>)

\* error_ is set for a stream that is no longer good only.
ErrorIsBad == error => bad

\* A stop that has returned has seen the worker leave and, with a good stream,
\* left its buffer empty; no worker starts again.
StopJoined ==
    stopped /\ stopper \in {"idle", "rejoin"} =>
        worker = "exited" /\ (bad \/ buffered = <<>>)

LoggerInv ==
    /\ LoggerTypes
    /\ HandHeld
    /\ ExitedDrained
    /\ ErrorIsBad
    /\ StopJoined
    /\ LoggedInOrder

\* The logger starts with nothing logged and its worker about to wait.
LEMMA LoggerInvInit == Init => LoggerInv
<1> SUFFICES ASSUME Init PROVE LoggerInv
  OBVIOUS
<1>1. LoggedInOrder
  BY DEF Init, LoggedInOrder
<1>2. LoggerTypes
  <2>1. /\ queue \in Seq(Trades) /\ file \in Seq(Trades) /\ logged \in Seq(Trades)
        /\ buffered \in Seq(Trades)
        /\ logging \in [Loggers -> Trades \cup {NoTrade}]
    BY DEF Init
  <2>2. /\ stop_ \in BOOLEAN /\ stopped \in BOOLEAN /\ error \in BOOLEAN
        /\ bad \in BOOLEAN
    BY DEF Init
  <2> QED
    BY <2>1, <2>2 DEF Init, LoggerTypes
<1>3. HandHeld /\ ExitedDrained /\ ErrorIsBad /\ StopJoined
  BY DEF Init, HandHeld, ExitedDrained, ErrorIsBad, StopJoined
<1> QED
  BY <1>1, <1>2, <1>3 DEF LoggerInv

\* The trade in hand as a sequence.
InHand == IF hand = NoTrade THEN <<>> ELSE <<hand>>

\* It is a sequence of trades, and LoggedInOrder speaks of it.
LEMMA InHandType ==
  ASSUME LoggerTypes
  PROVE  /\ InHand \in Seq(Trades)
         /\ LoggedInOrder <=> logged = file \o buffered \o InHand \o queue
  BY DEF LoggerTypes, InHand, LoggedInOrder

\* A spill keeps what the file and the buffer hold together.
LEMMA SpillStep ==
  ASSUME LoggerTypes, NEW s \in Seq(Trades), NEW k \in 0 .. Len(s), Spill(s, k)
  PROVE  /\ file' \in Seq(Trades)
         /\ buffered' \in Seq(Trades)
         /\ file' \o buffered' = file \o s
<1>1. file \in Seq(Trades)
  BY DEF LoggerTypes
<1>2. file' = file \o SubSeq(s, 1, k) /\ buffered' = SubSeq(s, k + 1, Len(s))
  BY DEF Spill
<1>3. /\ file \o SubSeq(s, 1, k) \in Seq(Trades)
      /\ SubSeq(s, k + 1, Len(s)) \in Seq(Trades)
      /\ file \o SubSeq(s, 1, k) \o SubSeq(s, k + 1, Len(s)) = file \o s
  BY <1>1, SpillKeeps
<1> QED
  BY <1>2, <1>3

\* Every step of log, stop and the worker keeps the invariant.
LEMMA LoggerInvStep == LoggerInv /\ [Next]_vars => LoggerInv'
<1> SUFFICES ASSUME LoggerInv, [Next]_vars
             PROVE  LoggerInv'
  OBVIOUS
<1>t. /\ LoggerTypes /\ HandHeld /\ ExitedDrained /\ ErrorIsBad /\ StopJoined
      /\ LoggedInOrder
  BY DEF LoggerInv
<1>u. ASSUME UNCHANGED <<queue, file, buffered, logged, hand>>
      PROVE  LoggedInOrder'
  BY <1>t, <1>u DEF LoggedInOrder
<1>1. CASE UNCHANGED vars
  BY <1>1, <1>t DEF vars, disk, LoggerInv, LoggerTypes, HandHeld,
     ExitedDrained, ErrorIsBad, StopJoined, LoggedInOrder
<1>2. ASSUME NEW l \in Loggers, NEW t \in Trades, LogBegin(l, t)
      PROVE  LoggerInv'
  BY <1>2, <1>t, <1>u DEF LogBegin, disk, LoggerInv, LoggerTypes, HandHeld,
     ExitedDrained, ErrorIsBad, StopJoined
<1>3. ASSUME NEW l \in Loggers, LogRefused(l) \/ LogPushThrows(l)
      PROVE  LoggerInv'
  BY <1>3, <1>t, <1>u DEF LogRefused, LogPushThrows, disk, LoggerInv,
     LoggerTypes, HandHeld, ExitedDrained, ErrorIsBad, StopJoined
<1>4. ASSUME NEW l \in Loggers, LogAccepted(l)
      PROVE  LoggerInv'
  <2>1. logging[l] \in Trades
    BY <1>4, <1>t DEF LogAccepted, LoggerTypes
  <2>2. /\ queue' = Append(queue, logging[l])
        /\ logged' = Append(logged, logging[l])
        /\ UNCHANGED <<file, buffered, hand>>
    BY <1>4 DEF LogAccepted, disk
  <2>3. LoggedInOrder'
    <3> DEFINE written == file \o buffered \o InHand
    <3>1. logged = written \o queue
      BY <1>t, InHandType
    <3>2. written \in Seq(Trades) /\ queue \in Seq(Trades)
      BY <1>t, InHandType DEF LoggerTypes
    <3> HIDE DEF written
    <3>3. \A t \in Trades :
              Append(written \o queue, t) = written \o Append(queue, t)
      BY <3>2
    <3>4. logged' = written \o queue'
      BY <2>1, <2>2, <3>1, <3>3
    <3> QED
      BY <2>2, <3>4 DEF LoggedInOrder, InHand, written
  <2>4. LoggerTypes'
    BY <1>4, <1>t, <2>1 DEF LogAccepted, disk, LoggerTypes, Woken
  <2>5. HandHeld' /\ ExitedDrained' /\ ErrorIsBad' /\ StopJoined'
    BY <1>4, <1>t DEF LogAccepted, disk, LoggerTypes, HandHeld, ExitedDrained,
       ErrorIsBad, StopJoined, Woken
  <2> QED
    BY <2>3, <2>4, <2>5 DEF LoggerInv
<1>5. CASE StopBegin
  BY <1>5, <1>t, <1>u DEF StopBegin, disk, LoggerInv, LoggerTypes, HandHeld,
     ExitedDrained, ErrorIsBad, StopJoined
<1>6. CASE StopMark
  BY <1>6, <1>t, <1>u DEF StopMark, disk, LoggerInv, LoggerTypes, HandHeld,
     ExitedDrained, ErrorIsBad, StopJoined
<1>11. CASE StopNotify
  BY <1>11, <1>t, <1>u DEF StopNotify, disk, Woken, LoggerInv, LoggerTypes,
     HandHeld, ExitedDrained, ErrorIsBad, StopJoined
<1>12. CASE StopAgain
  BY <1>12, <1>t, <1>u DEF StopAgain, disk, LoggerInv, LoggerTypes, HandHeld,
     ExitedDrained, ErrorIsBad, StopJoined
<1>s. ASSUME NEW k \in 0 .. Len(buffered), Spill(buffered, k),
             UNCHANGED <<queue, logged, hand>>
      PROVE  /\ file' \in Seq(Trades) /\ buffered' \in Seq(Trades)
             /\ LoggedInOrder'
  <2>1. /\ file' \in Seq(Trades) /\ buffered' \in Seq(Trades)
        /\ file' \o buffered' = file \o buffered
    BY <1>s, <1>t, SpillStep DEF LoggerTypes
  <2> QED
    BY <1>s, <1>t, <2>1 DEF LoggedInOrder
<1>13. CASE StopJoin
  <2>1. /\ file' \in Seq(Trades) /\ buffered' \in Seq(Trades)
        /\ LoggedInOrder' /\ (bad \/ buffered' = <<>>)
    <3>1. CASE bad
      BY <1>13, <3>1, <1>t, <1>u DEF StopJoin, LoggerTypes
    <3>2. CASE ~bad
      <4>1. Len(buffered) \in 0 .. Len(buffered)
        BY <1>t DEF LoggerTypes
      <4>2. Spill(buffered, Len(buffered)) /\ UNCHANGED <<queue, logged, hand>>
        BY <1>13, <3>2 DEF StopJoin
      <4>3. buffered' = <<>>
        BY <4>2, <1>t DEF Spill, LoggerTypes
      <4> QED
        BY <4>1, <4>2, <4>3, <1>s
    <3> QED
      BY <3>1, <3>2
  <2>2. LoggerTypes'
    BY <1>13, <1>t, <2>1 DEF StopJoin, LoggerTypes
  <2>3. HandHeld' /\ ExitedDrained' /\ ErrorIsBad' /\ StopJoined'
    BY <1>13, <1>t, <2>1 DEF StopJoin, HandHeld, ExitedDrained, ErrorIsBad,
       StopJoined
  <2> QED
    BY <2>1, <2>2, <2>3 DEF LoggerInv
<1>14. CASE StopFlushFails
  <2>1. /\ file' \in Seq(Trades) /\ buffered' \in Seq(Trades)
        /\ LoggedInOrder'
    BY <1>14, <1>s DEF StopFlushFails
  <2>2. LoggerTypes'
    BY <1>14, <1>t, <2>1 DEF StopFlushFails, LoggerTypes
  <2>3. HandHeld' /\ ExitedDrained' /\ ErrorIsBad' /\ StopJoined'
    BY <1>14, <1>t DEF StopFlushFails, HandHeld, ExitedDrained, ErrorIsBad,
       StopJoined
  <2> QED
    BY <2>1, <2>2, <2>3 DEF LoggerInv
<1>7. CASE WaitTest \/ EndRound
  BY <1>7, <1>t, <1>u DEF WaitTest, EndRound, others, disk, LoggerInv,
     LoggerTypes, HandHeld, ExitedDrained, ErrorIsBad, StopJoined
<1>8. CASE TakeTrade
  <2>1. /\ queue # <<>> /\ hand' = Head(queue) /\ queue' = Tail(queue)
        /\ UNCHANGED <<file, buffered, logged>>
    BY <1>8 DEF TakeTrade, others, disk
  <2>2. hand = NoTrade /\ InHand = <<>>
    BY <1>8, <1>t DEF TakeTrade, HandHeld, InHand
  <2>3. Head(queue) \in Trades /\ Tail(queue) \in Seq(Trades)
    BY <2>1, <1>t DEF LoggerTypes
  <2>4. LoggedInOrder'
    <3> DEFINE written == file \o buffered
    <3>1. logged = written \o <<>> \o queue
      BY <1>t, <2>2, InHandType
    <3>2. written \in Seq(Trades)
      BY <1>t DEF LoggerTypes
    <3>3. written' = written
      BY <2>1
    <3> HIDE DEF written
    <3>4. logged = written \o <<Head(queue)>> \o Tail(queue)
      BY <3>1, <3>2, <2>1, <1>t, HeadToMiddle DEF LoggerTypes
    <3>5. Head(queue) # NoTrade
      BY <2>3, LoggerAssumption
    <3> QED
      BY <2>1, <3>3, <3>4, <3>5 DEF LoggedInOrder, written
  <2>5. LoggerTypes'
    BY <1>8, <1>t, <2>1, <2>3 DEF TakeTrade, others, disk, LoggerTypes
  <2>6. HandHeld' /\ ExitedDrained' /\ ErrorIsBad' /\ StopJoined'
    BY <1>8, <1>t, <2>1, <2>3, LoggerAssumption DEF TakeTrade, others, disk,
       HandHeld, ExitedDrained, ErrorIsBad, StopJoined
  <2> QED
    BY <2>4, <2>5, <2>6 DEF LoggerInv
<1>9. CASE WriteSucceeds
  <2>1. hand' = NoTrade /\ UNCHANGED <<queue, logged>>
    BY <1>9 DEF WriteSucceeds, others
  <2>2. hand \in Trades /\ InHand = <<hand>>
    BY <1>9, <1>t DEF WriteSucceeds, HandHeld, LoggerTypes, InHand
  <2>3. PICK k \in 0 .. Len(Append(buffered, hand)) :
            Spill(Append(buffered, hand), k)
    BY <1>9 DEF WriteSucceeds
  <2>4. Append(buffered, hand) \in Seq(Trades)
    BY <2>2, <1>t DEF LoggerTypes
  <2>5. /\ file' \in Seq(Trades) /\ buffered' \in Seq(Trades)
        /\ file' \o buffered' = file \o Append(buffered, hand)
    BY <2>3, <2>4, <1>t, SpillStep
  <2>6. LoggedInOrder'
    <3>1. logged = file \o buffered \o <<hand>> \o queue
      BY <1>t, <2>2, InHandType
    <3>t. file \in Seq(Trades) /\ buffered \in Seq(Trades) /\ queue \in Seq(Trades)
      BY <1>t DEF LoggerTypes
    <3>2. file \o buffered \o <<hand>> = file \o Append(buffered, hand) \o <<>>
      BY <3>t, <2>2, MiddleToFirst
    <3> QED
      BY <2>1, <2>5, <3>1, <3>2 DEF LoggedInOrder
  <2>7. LoggerTypes'
    BY <1>9, <1>t, <2>5 DEF WriteSucceeds, others, LoggerTypes
  <2>8. HandHeld' /\ ExitedDrained' /\ ErrorIsBad' /\ StopJoined'
    BY <1>9, <1>t DEF WriteSucceeds, others, HandHeld, ExitedDrained,
       ErrorIsBad, StopJoined
  <2> QED
    BY <2>6, <2>7, <2>8 DEF LoggerInv
<1>10. CASE WriteFails
  <2>1. /\ file' \in Seq(Trades) /\ buffered' \in Seq(Trades)
        /\ LoggedInOrder'
    BY <1>10, <1>s DEF WriteFails, others
  <2>2. LoggerTypes'
    BY <1>10, <1>t, <2>1 DEF WriteFails, others, LoggerTypes
  <2>3. HandHeld' /\ ExitedDrained' /\ ErrorIsBad' /\ StopJoined'
    BY <1>10, <1>t DEF WriteFails, others, HandHeld, ExitedDrained,
       ErrorIsBad, StopJoined
  <2> QED
    BY <2>1, <2>2, <2>3 DEF LoggerInv
<1> QED
  BY <1>1, <1>2, <1>3, <1>4, <1>5, <1>6, <1>7, <1>8, <1>9, <1>10,
     <1>11, <1>12, <1>13, <1>14 DEF Next, Stop, Worker

\* The invariant holds throughout.
LEMMA LoggerInvariant == Spec => []LoggerInv
  BY LoggerInvInit, LoggerInvStep, PTL DEF Spec

-----------------------------------------------------------------------------

\* What log accepted is, in that order and once each, what is in the file, in
\* the stream's buffer, in the worker's hand and in the queue, whatever the
\* writes and the flush do (log, workerLoop, stop).
THEOREM LoggerKeepsOrder == Spec => []LoggedInOrder
<1>1. LoggerInv => LoggedInOrder
  BY DEF LoggerInv
<1> QED
  BY <1>1, LoggerInvariant, PTL

\* A stop that returns with its stream good has left every accepted trade in
\* the file, whatever log accepted while it was under way (stop, workerLoop).
THEOREM LoggerStopDrains == Spec => []StopDrains
<1>1. ASSUME LoggerInv, stopped, stopper = "idle", ~bad
      PROVE  file = logged
  <2>1. /\ worker = "exited" /\ queue = <<>> /\ hand = NoTrade
        /\ buffered = <<>>
    BY <1>1 DEF LoggerInv, LoggerTypes, HandHeld, ExitedDrained, ErrorIsBad,
       StopJoined
  <2>2. file \in Seq(Trades) /\ logged = file \o <<>> \o <<>> \o <<>>
    BY <1>1, <2>1 DEF LoggerInv, LoggerTypes, LoggedInOrder
  <2> QED
    BY <2>2
<1>2. LoggerInv => StopDrains
  BY <1>1 DEF StopDrains
<1> QED
  BY <1>2, LoggerInvariant, PTL
=============================================================================
