----------------------------- MODULE TradeLogger -----------------------------
(***************************************************************************)
(* src/TradeLogger.cpp: threads hand trades to a bounded queue, a worker   *)
(* writes them to a file, and the owner stops it.  What a thread does      *)
(* while it holds mtx_ is one step.  file_ is a buffered ofstream: a       *)
(* written trade reaches the file with any later write or with the flush   *)
(* of stop, and writing or flushing may fail at any time.                  *)
(*                                                                         *)
(* stop has one caller at a time: an explicit stop followed by the one in  *)
(* the destructor.                                                         *)
(***************************************************************************)
EXTENDS Naturals, Sequences

CONSTANTS Loggers,     \* threads that call log
          Trades,      \* contents of trades
          NoTrade,
          MaxQueue,    \* max_queue_size_
          MaxLogged    \* bound: trades accepted in a behaviour

ASSUME LoggerAssumption ==
    /\ MaxQueue \in Nat \ {0}      \* the constructor throws for 0
    /\ MaxLogged \in Nat
    /\ NoTrade \notin Trades

VARIABLES queue,    \* queue_
          stop_,    \* stop_
          stopped,  \* stopped_
          error,    \* error_
          logging,  \* logging[l]: the argument of a log past its first test
          worker,   \* where workerLoop is
          hand,     \* the trade the worker took from the queue
          stopper,  \* where stop is
          buffered, \* the trades file_ has taken that are not in the file
          file,     \* the trades in the file
          bad,      \* ~file_.good()
          logged    \* ghost: the trades log accepted, in order

disk == <<buffered, file, bad>>

vars == <<queue, stop_, stopped, error, logging, worker, hand, stopper, disk,
          logged>>

-----------------------------------------------------------------------------
(* log *)

\* log returns false at once after an error.
LogBegin(l, t) ==
    /\ logging[l] = NoTrade
    /\ ~error
    /\ Len(logged) < MaxLogged
    /\ logging' = [logging EXCEPT ![l] = t]
    /\ UNCHANGED <<queue, stop_, stopped, error, worker, hand, stopper, disk,
                   logged>>

\* notify_one: a worker that waits on cv_ runs again.
Woken == IF worker = "asleep" THEN "test" ELSE worker

LogRefused(l) ==
    /\ logging[l] # NoTrade
    /\ stop_ \/ Len(queue) >= MaxQueue
    /\ logging' = [logging EXCEPT ![l] = NoTrade]
    /\ UNCHANGED <<queue, stop_, stopped, error, worker, hand, stopper, disk,
                   logged>>

\* queue_.push could not allocate.
LogPushThrows(l) ==
    /\ logging[l] # NoTrade
    /\ ~stop_
    /\ Len(queue) < MaxQueue
    /\ logging' = [logging EXCEPT ![l] = NoTrade]
    /\ UNCHANGED <<queue, stop_, stopped, error, worker, hand, stopper, disk,
                   logged>>

\* Mutant of LogAccepted: the worker is notified for all trades but the first.
MutNotifyLate(l) ==
    /\ logging[l] # NoTrade
    /\ ~stop_
    /\ Len(queue) < MaxQueue
    /\ queue' = Append(queue, logging[l])
    /\ logged' = Append(logged, logging[l])
    /\ worker' = IF queue # <<>> THEN Woken ELSE worker
    /\ logging' = [logging EXCEPT ![l] = NoTrade]
    /\ UNCHANGED <<stop_, stopped, error, hand, stopper, disk>>

\* Only the push that makes the queue non-empty notifies.
LogAccepted(l) ==
    /\ logging[l] # NoTrade
    /\ ~stop_
    /\ Len(queue) < MaxQueue
    /\ queue' = Append(queue, logging[l])
    /\ logged' = Append(logged, logging[l])
    /\ worker' = IF queue = <<>> THEN Woken ELSE worker
    /\ logging' = [logging EXCEPT ![l] = NoTrade]
    /\ UNCHANGED <<stop_, stopped, error, hand, stopper, disk>>

-----------------------------------------------------------------------------
(* stop *)

\* A call after the first only waits for the worker.
StopBegin ==
    /\ stopper = "idle"
    /\ stopped' = TRUE
    /\ stopper' = IF stopped THEN "rejoin" ELSE "mark"
    /\ UNCHANGED <<queue, stop_, error, logging, worker, hand, disk, logged>>

StopAgain ==
    /\ stopper = "rejoin"
    /\ worker = "exited"
    /\ stopper' = "idle"
    /\ UNCHANGED <<queue, stop_, stopped, error, logging, worker, hand, disk,
                   logged>>

StopMark ==
    /\ stopper = "mark"
    /\ stop_' = TRUE
    /\ stopper' = "notify"
    /\ UNCHANGED <<queue, stopped, error, logging, worker, hand, disk, logged>>

\* Mutant of StopNotify: the notification is left to log.
MutStopSilently ==
    /\ stopper = "notify"
    /\ stopper' = "join"
    /\ UNCHANGED <<queue, stop_, stopped, error, logging, worker, hand, disk,
                   logged>>

StopNotify ==
    /\ stopper = "notify"
    /\ worker' = Woken
    /\ stopper' = "join"
    /\ UNCHANGED <<queue, stop_, stopped, error, logging, hand, disk, logged>>

\* The first k trades of s get into the file, the others stay in the buffer.
Spill(s, k) ==
    /\ file' = file \o SubSeq(s, 1, k)
    /\ buffered' = SubSeq(s, k + 1, Len(s))

\* The worker has returned, and the flush writes all there is; a stream that
\* is no longer good writes nothing.
StopJoin ==
    /\ stopper = "join"
    /\ worker = "exited"
    /\ IF bad THEN UNCHANGED <<file, buffered>>
              ELSE Spill(buffered, Len(buffered))
    /\ stopper' = "idle"
    /\ UNCHANGED <<queue, stop_, stopped, error, logging, worker, hand, bad,
                   logged>>

\* The flush fails.  A stream without exceptions enabled does not throw, so
\* the handler that would set error_ is not reached.
StopFlushFails ==
    /\ stopper = "join"
    /\ worker = "exited"
    /\ ~bad
    /\ \E k \in 0 .. Len(buffered) : k < Len(buffered) /\ Spill(buffered, k)
    /\ bad' = TRUE
    /\ stopper' = "idle"
    /\ UNCHANGED <<queue, stop_, stopped, error, logging, worker, hand, logged>>

-----------------------------------------------------------------------------
(* workerLoop *)

others == <<stop_, stopped, logging, stopper, logged>>

\* The predicate of cv_.wait, on entry and after every notification.  A
\* spurious wake-up only repeats this test and is left out.
WaitTest ==
    /\ worker = "test"
    /\ worker' = IF queue # <<>> \/ stop_ THEN "loop" ELSE "asleep"
    /\ UNCHANGED <<queue, error, hand, disk, others>>

TakeTrade ==
    /\ worker = "loop"
    /\ queue # <<>>
    /\ ~error
    /\ hand' = Head(queue)
    /\ queue' = Tail(queue)
    /\ worker' = "write"
    /\ UNCHANGED <<error, disk, others>>

\* Mutant of EndRound: a stop ends the loop whatever is queued.
MutStopAtOnce ==
    /\ worker = "loop"
    /\ queue = <<>> \/ error \/ stop_
    /\ worker' = IF stop_ \/ (queue = <<>> /\ error) THEN "exited" ELSE "test"
    /\ UNCHANGED <<queue, error, hand, disk, others>>

\* The inner loop has ended: leave if nothing is queued and there was an error
\* or a stop, go round otherwise.
EndRound ==
    /\ worker = "loop"
    /\ queue = <<>> \/ error
    /\ worker' = IF queue = <<>> /\ (error \/ stop_) THEN "exited" ELSE "test"
    /\ UNCHANGED <<queue, error, hand, disk, others>>

\* Mutant of WriteSucceeds: the record is written twice.
MutWriteTwice ==
    /\ worker = "write"
    /\ LET taken == buffered \o <<hand, hand>>
       IN  \E k \in 0 .. Len(taken) : Spill(taken, k)
    /\ hand' = NoTrade
    /\ worker' = "loop"
    /\ UNCHANGED <<queue, error, bad, others>>

\* file_ takes the trade and writes as much of its buffer as it likes.
WriteSucceeds ==
    /\ worker = "write"
    /\ LET taken == Append(buffered, hand)
       IN  \E k \in 0 .. Len(taken) : Spill(taken, k)
    /\ hand' = NoTrade
    /\ worker' = "loop"
    /\ UNCHANGED <<queue, error, bad, others>>

\* The stream is no longer good.  The trade in hand is lost, and so is what the
\* buffer could not write.
WriteFails ==
    /\ worker = "write"
    /\ \E k \in 0 .. Len(buffered) : Spill(buffered, k)
    /\ bad' = TRUE
    /\ error' = TRUE
    /\ worker' = "loop"
    /\ UNCHANGED <<queue, hand, others>>

-----------------------------------------------------------------------------

Init ==
    /\ queue = <<>>
    /\ stop_ = FALSE
    /\ stopped = FALSE
    /\ error = FALSE
    /\ logging = [l \in Loggers |-> NoTrade]
    /\ worker = "test"
    /\ hand = NoTrade
    /\ stopper = "idle"
    /\ buffered = <<>>
    /\ file = <<>>
    /\ bad = FALSE
    /\ logged = <<>>

\* No statement of the loop throws into its outer handlers: file_ reports
\* failures by its state.
Worker == WaitTest \/ TakeTrade \/ EndRound \/ WriteSucceeds \/ WriteFails

Stop == StopAgain \/ StopMark \/ StopNotify \/ StopJoin \/ StopFlushFails

Next ==
    \/ \E l \in Loggers :
           \/ \E t \in Trades : LogBegin(l, t)
           \/ LogRefused(l)
           \/ LogPushThrows(l)
           \/ LogAccepted(l)
    \/ StopBegin
    \/ Stop
    \/ Worker

\* The worker and a stop that has begun keep running.
Fairness == WF_vars(Worker) /\ WF_vars(Stop)

Spec == Init /\ [][Next]_vars /\ Fairness

-----------------------------------------------------------------------------
(* Properties *)

\* Trades are written once each and in the order log accepted them: at any
\* time the file is a prefix of them, and the buffer of file_, the worker's
\* hand and the queue hold the others.  What an error leaves out is the trade
\* being written then, the buffered ones before it and all after it.
LoggedInOrder ==
    logged = file \o buffered
                  \o (IF hand = NoTrade THEN <<>> ELSE <<hand>>) \o queue

\* When stop has returned and file_ is still good, every accepted trade is in
\* the file, those accepted while it was under way included.  error_ does not
\* tell: a flush that fails in stop leaves it false.
StopDrains ==
    stopped /\ stopper = "idle" /\ ~bad => file = logged

\* Every accepted trade is handed to file_ unless a write fails: no
\* notification is lost between log, the worker's test and its wait.
LoggedEventually ==
    \A n \in 1 .. MaxLogged :
        Len(logged) >= n ~> Len(file) + Len(buffered) >= n \/ error

\* stop returns unless a write fails.
LoggerStops == stopper \in {"join", "rejoin"} ~> stopper = "idle" \/ error
=============================================================================
