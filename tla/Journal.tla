------------------------------- MODULE Journal -------------------------------
(***************************************************************************)
(* src/Journal.cpp, one journal from its constructor to its destructor:    *)
(* the engine thread hands serialized records to the ring (JournalRing), a *)
(* writer thread appends them to the file, other threads call flush, sync  *)
(* and setSyncPolicy, and the owner destroys the journal.                  *)
(*                                                                         *)
(* What a thread does while it holds flush_mutex_, or file_mutex_, is one  *)
(* step.  Record n is the n-th event handed to onEvent, so the count of    *)
(* records written and last_written_sequence_ say the same.  The file is   *)
(* external: a write may fail after part of a record, an fdatasync may     *)
(* fail, and one that succeeds makes all that was written durable.         *)
(* Spurious wake-ups only repeat a test and are left out.                  *)
(***************************************************************************)
EXTENDS JournalRing

CONSTANTS Flushers,      \* threads that call flush or sync
          Syncers,       \* those of them that call sync
          SyncPolicies,  \* the policies setSyncPolicy is called with
          SyncCounts,    \* and the n it is called with
          MaxRecords,    \* bound: events handed to onEvent
          PolicyUntil,   \* bound: events handed to it when setSyncPolicy is called
          Torn           \* an incomplete record at the end of the file

ASSUME JournalAssumption ==
    /\ MaxRecords \in Nat
    /\ PolicyUntil \in Nat
    /\ Records = 1 .. MaxRecords
    /\ Syncers \subseteq Flushers
    /\ SyncPolicies \subseteq {"MANUAL", "PER_RECORD", "PER_N_RECORDS"}
    /\ SyncCounts \subseteq Nat
    /\ Torn \notin Records

VARIABLES running,   \* running_
          healthy,   \* healthy_
          queued,    \* queued_records_
          written,   \* written_records_
          waiter,    \* flush_waiter_present_
          policy,    \* sync_policy_
          syncEvery, \* sync_every_n_
          since,     \* records_since_sync_
          owner,     \* where onEvent or the destructor is
          writer,    \* where writerThread is
          caller,    \* caller[f]: where the flush or sync of thread f is
          call,      \* call[f]: its target and its result;
                     \*   due is a ghost: the events that had returned before it
          issued,    \* ghost: events handed to onEvent
          file,      \* the records in the file
          synced,    \* ghost: how many of them are durable
          carried    \* ghost: how many were not when the policy was set

counters == <<queued, written>>
syncVars == <<policy, syncEvery, since, synced, carried>>
flushVars == <<waiter, caller, call>>
journalVars == <<running, healthy, counters, syncVars, flushVars, owner,
                 writer, issued, file>>
vars == <<ringVars, journalVars>>

\* queue_cv_.notify_one and flush_cv_.notify_all.
notifyQueue == writer' = IF writer = "asleep" THEN "test" ELSE writer

Woken == [f \in Flushers |-> IF caller[f] = "asleep" THEN "test" ELSE caller[f]]

notifyFlush == caller' = Woken

-----------------------------------------------------------------------------
(* onEvent and enqueueSerialized, by the engine thread.  The records it     *)
(* builds always have a valid size.                                         *)

\* The journal has failed: the event is dropped.
EventDropped ==
    /\ owner = "idle"
    /\ issued < MaxRecords
    /\ ~healthy \/ ~running
    /\ issued' = issued + 1
    /\ UNCHANGED <<ringVars, running, healthy, counters, syncVars, flushVars,
                   owner, writer, file>>

EventBegin ==
    /\ owner = "idle"
    /\ issued < MaxRecords
    /\ healthy /\ running
    /\ issued' = issued + 1
    /\ owner' = "push"
    /\ UNCHANGED <<ringVars, running, healthy, counters, syncVars, flushVars,
                   writer, file>>

EventPush ==
    /\ owner = "push"
    /\ \/ PushBegin(issued) /\ owner' = "push"
       \/ PushFull /\ owner' = "full"
       \/ PushWrite /\ owner' = "push"
       \/ PushPublish /\ owner' = "count"
    /\ UNCHANGED <<running, healthy, counters, syncVars, flushVars, writer,
                   issued, file>>

\* Mutant of EventCount: the writer is notified when it has fallen behind.
MutCountSilently ==
    /\ owner = "count"
    /\ queued' = queued + 1
    /\ IF queued > written THEN notifyQueue ELSE writer' = writer
    /\ owner' = "idle"
    /\ UNCHANGED <<ringVars, running, healthy, written, syncVars, flushVars,
                   issued, file>>

EventCount ==
    /\ owner = "count"
    /\ queued' = queued + 1
    /\ notifyQueue
    /\ owner' = "idle"
    /\ UNCHANGED <<ringVars, running, healthy, written, syncVars, flushVars,
                   issued, file>>

\* Mutant of EventFull: a full ring drops the record and nothing else.
MutDropOnly ==
    /\ owner = "full"
    /\ owner' = "idle"
    /\ UNCHANGED <<ringVars, running, healthy, counters, syncVars, flushVars,
                   writer, issued, file>>

\* failStop after the ring refused the record.
EventFull ==
    /\ owner = "full"
    /\ healthy' = FALSE
    /\ running' = FALSE
    /\ notifyQueue
    /\ notifyFlush
    /\ owner' = "idle"
    /\ UNCHANGED <<ringVars, counters, syncVars, waiter, call, issued, file>>

-----------------------------------------------------------------------------
(* writerThread *)

\* Mutant of WriterTest: a journal that stops leaves what is queued.
MutLeaveQueued ==
    /\ writer = "test"
    /\ writer' = IF ~running THEN "exit"
                 ELSE IF ~empty THEN "pop" ELSE "asleep"
    /\ UNCHANGED <<ringVars, running, healthy, counters, syncVars, flushVars,
                   owner, issued, file>>

\* The predicate of queue_cv_.wait and the test for the end.
WriterTest ==
    /\ writer = "test"
    /\ writer' = IF ~empty THEN "pop"
                 ELSE IF ~running THEN "exit" ELSE "asleep"
    /\ UNCHANGED <<ringVars, running, healthy, counters, syncVars, flushVars,
                   owner, issued, file>>

\* What tryPush accepts, validateSerialized accepts as well.
WriterPop ==
    /\ writer = "pop"
    /\ \/ PopBegin /\ writer' = "pop"
       \/ PopRead /\ writer' = "pop"
       \/ PopPublish /\ writer' = "write"
    /\ UNCHANGED <<running, healthy, counters, syncVars, flushVars, owner,
                   issued, file>>

\* The policy asks for an fdatasync after one more record.
MustSync ==
    \/ policy = "PER_RECORD"
    \/ policy = "PER_N_RECORDS" /\ since + 1 >= syncEvery

\* writeSerialized of a whole record.
WriteRecord ==
    /\ writer = "write"
    /\ file' = Append(file, view)

\* Mutant of WriterWrites: the count of records since the last sync is only
\* compared with the limit after it has passed it.
MutSyncLate ==
    /\ WriteRecord
    /\ IF \/ policy = "PER_RECORD"
          \/ policy = "PER_N_RECORDS" /\ since >= syncEvery
       THEN synced' = Len(file') /\ carried' = 0 /\ since' = 0
       ELSE /\ UNCHANGED <<synced, carried>>
            /\ since' = IF policy = "MANUAL" THEN since ELSE since + 1
    /\ writer' = "count"
    /\ UNCHANGED <<ringVars, running, healthy, counters, policy, syncEvery,
                   flushVars, owner, issued>>

\* Under MANUAL the count is never read, and setSyncPolicy resets it before a
\* policy that reads it applies: it is not kept.
WriterWrites ==
    /\ WriteRecord
    /\ IF MustSync
       THEN synced' = Len(file') /\ carried' = 0 /\ since' = 0
       ELSE /\ UNCHANGED <<synced, carried>>
            /\ since' = IF policy = "MANUAL" THEN since ELSE since + 1
    /\ writer' = "count"
    /\ UNCHANGED <<ringVars, running, healthy, counters, policy, syncEvery,
                   flushVars, owner, issued>>

\* The fdatasync after the record failed.
WriterSyncFails ==
    /\ WriteRecord
    /\ MustSync
    /\ since' = since + 1
    /\ writer' = "fail"
    /\ UNCHANGED <<ringVars, running, healthy, counters, policy, syncEvery,
                   synced, carried, flushVars, owner, issued>>

\* The write failed, before or after some bytes.
WriterWriteFails ==
    /\ writer = "write"
    /\ file' \in {file, Append(file, Torn)}
    /\ writer' = "fail"
    /\ UNCHANGED <<ringVars, running, healthy, counters, syncVars, flushVars,
                   owner, issued>>

\* ++written_records_ under the mutex.
WriterCount ==
    /\ writer = "count"
    /\ written' = written + 1
    /\ writer' = "notify"
    /\ UNCHANGED <<ringVars, running, healthy, queued, syncVars, flushVars,
                   owner, issued, file>>

\* The flag is read without the mutex.  A caller that goes to sleep between
\* this and notifyFlush has seen the count, so both are one step.
WriterNotify ==
    /\ writer = "notify"
    /\ IF waiter THEN notifyFlush ELSE caller' = caller
    /\ writer' = "test"
    /\ UNCHANGED <<ringVars, running, healthy, counters, syncVars, waiter, call,
                   owner, issued, file>>

\* failStop, and out of the loop.
WriterFails ==
    /\ writer = "fail"
    /\ healthy' = FALSE
    /\ running' = FALSE
    /\ writer' = "exited"
    /\ notifyFlush
    /\ UNCHANGED <<ringVars, counters, syncVars, waiter, call, owner, issued,
                   file>>

WriterExit ==
    /\ writer = "exit"
    /\ writer' = "exited"
    /\ notifyFlush
    /\ UNCHANGED <<ringVars, running, healthy, counters, syncVars, waiter, call,
                   owner, issued, file>>

-----------------------------------------------------------------------------
(* flush, and sync, which begins with a flush *)

\* Events whose onEvent has returned.
Returned == IF owner \in {"push", "full", "count"} THEN issued - 1 ELSE issued

NoCall == [target |-> 0, due |-> 0, ok |-> FALSE]

\* The flush of thread f, call c, ends with `ok'; sync goes on to fdatasync
\* after TRUE.
FlushEnds(f, c, ok) ==
    LET syncs == ok /\ f \in Syncers
    IN  /\ caller' = [caller EXCEPT ![f] =
                          IF syncs THEN "fdatasync" ELSE "idle"]
        /\ call' = [call EXCEPT ![f] =
                        IF syncs THEN [c EXCEPT !.target = 0] ELSE NoCall]

\* The first critical section: the target is what is queued now.
FlushBegin(f) ==
    /\ caller[f] = "idle"
    /\ owner \notin {"close", "join", "closed"}
    /\ LET c == [target |-> queued, due |-> Returned, ok |-> FALSE]
       IN  IF written >= queued \/ ~healthy
           THEN FlushEnds(f, [c EXCEPT !.ok = healthy], healthy)
           ELSE /\ call' = [call EXCEPT ![f] = c]
                /\ caller' = [caller EXCEPT ![f] = "mark"]
    /\ UNCHANGED <<ringVars, running, healthy, counters, syncVars, waiter,
                   owner, writer, issued, file>>

FlushMark(f) ==
    /\ caller[f] = "mark"
    /\ waiter' = TRUE
    /\ caller' = [caller EXCEPT ![f] = "test"]
    /\ UNCHANGED <<ringVars, running, healthy, counters, syncVars, call, owner,
                   writer, issued, file>>

\* Mutant of waitUntilWritten: every end of the wait counts as success.
MutWaitLenient(f) ==
    /\ caller[f] = "test"
    /\ IF written >= call[f].target \/ ~healthy \/ ~running
       THEN /\ caller' = [caller EXCEPT ![f] = "clear"]
            /\ call' = [call EXCEPT ![f].ok = TRUE]
       ELSE /\ caller' = [caller EXCEPT ![f] = "asleep"]
            /\ UNCHANGED call
    /\ UNCHANGED <<ringVars, running, healthy, counters, syncVars, waiter,
                   owner, writer, issued, file>>

\* The predicate of flush_cv_.wait; call[f].ok holds its result until the
\* flag is cleared.
waitUntilWritten(f) ==
    /\ caller[f] = "test"
    /\ IF written >= call[f].target \/ ~healthy \/ ~running
       THEN /\ caller' = [caller EXCEPT ![f] = "clear"]
            /\ call' = [call EXCEPT ![f].ok =
                            healthy /\ written >= call[f].target]
       ELSE /\ caller' = [caller EXCEPT ![f] = "asleep"]
            /\ UNCHANGED call
    /\ UNCHANGED <<ringVars, running, healthy, counters, syncVars, waiter,
                   owner, writer, issued, file>>

FlushClear(f) ==
    /\ caller[f] = "clear"
    /\ waiter' = FALSE
    /\ FlushEnds(f, call[f], call[f].ok)
    /\ UNCHANGED <<ringVars, running, healthy, counters, syncVars, owner,
                   writer, issued, file>>

\* Mutant of SyncSucceeds: fdatasync is left to the writer.
MutSyncNothing(f) ==
    /\ caller[f] = "fdatasync"
    /\ caller' = [caller EXCEPT ![f] = "idle"]
    /\ call' = [call EXCEPT ![f] = NoCall]
    /\ UNCHANGED <<ringVars, running, healthy, counters, syncVars, waiter,
                   owner, writer, issued, file>>

SyncSucceeds(f) ==
    /\ caller[f] = "fdatasync"
    /\ synced' = Len(file)
    /\ carried' = 0
    /\ since' = 0
    /\ caller' = [caller EXCEPT ![f] = "idle"]
    /\ call' = [call EXCEPT ![f] = NoCall]
    /\ UNCHANGED <<ringVars, running, healthy, counters, policy, syncEvery,
                   waiter, owner, writer, issued, file>>

SyncFails(f) ==
    /\ caller[f] = "fdatasync"
    /\ healthy' = FALSE
    /\ caller' = [Woken EXCEPT ![f] = "idle"]
    /\ call' = [call EXCEPT ![f] = NoCall]
    /\ UNCHANGED <<ringVars, running, counters, syncVars, waiter, owner,
                   writer, issued, file>>

\* sync_every_n_ is read under PER_N_RECORDS only, and set by every call: under
\* the other policies it is not kept.
setSyncPolicy(p, n) ==
    /\ owner # "closed"
    /\ issued <= PolicyUntil
    /\ policy' = p
    /\ syncEvery' = IF n = 0 \/ p # "PER_N_RECORDS" THEN 1 ELSE n
    /\ since' = 0
    /\ carried' = Len(file) - synced
    /\ UNCHANGED <<ringVars, running, healthy, counters, synced, flushVars,
                   owner, writer, issued, file>>

-----------------------------------------------------------------------------
(* The destructor, once every other call has returned *)

CloseBegin ==
    /\ owner = "idle"
    /\ \A f \in Flushers : caller[f] = "idle"
    /\ running' = FALSE
    /\ owner' = "close"
    /\ UNCHANGED <<ringVars, healthy, counters, syncVars, flushVars, writer,
                   issued, file>>

\* Mutant of CloseNotify: the writer is left to notice by itself.
MutCloseSilently ==
    /\ owner = "close"
    /\ owner' = "join"
    /\ UNCHANGED <<ringVars, running, healthy, counters, syncVars, flushVars,
                   writer, issued, file>>

CloseNotify ==
    /\ owner = "close"
    /\ notifyQueue
    /\ owner' = "join"
    /\ UNCHANGED <<ringVars, running, healthy, counters, syncVars, flushVars,
                   issued, file>>

\* join returns, flush does not wait because running_ is false, and the
\* result of the last fdatasync is ignored.
CloseJoin ==
    /\ owner = "join"
    /\ writer = "exited"
    /\ synced' \in {synced, Len(file)}
    /\ owner' = "closed"
    /\ UNCHANGED <<ringVars, running, healthy, counters, policy, syncEvery,
                   since, carried, flushVars, writer, issued, file>>

-----------------------------------------------------------------------------

Init ==
    /\ RingInit
    /\ running = TRUE
    /\ healthy = TRUE
    /\ queued = 0
    /\ written = 0
    /\ waiter = FALSE
    /\ policy = "MANUAL"
    /\ syncEvery = 1
    /\ since = 0
    /\ owner = "idle"
    /\ writer = "test"
    /\ caller = [f \in Flushers |-> "idle"]
    /\ call = [f \in Flushers |-> NoCall]
    /\ issued = 0
    /\ file = <<>>
    /\ synced = 0
    /\ carried = 0

OnEvent == EventPush \/ EventCount \/ EventFull

Writer ==
    \/ WriterTest
    \/ WriterPop
    \/ WriterWrites
    \/ WriterSyncFails
    \/ WriterWriteFails
    \/ WriterCount
    \/ WriterNotify
    \/ WriterFails
    \/ WriterExit

Flush(f) ==
    \/ FlushMark(f)
    \/ waitUntilWritten(f)
    \/ FlushClear(f)
    \/ SyncSucceeds(f)
    \/ SyncFails(f)

Close == CloseNotify \/ CloseJoin

Next ==
    \/ EventDropped
    \/ EventBegin
    \/ OnEvent
    \/ Writer
    \/ \E f \in Flushers : FlushBegin(f) \/ Flush(f)
    \/ \E p \in SyncPolicies, n \in SyncCounts : setSyncPolicy(p, n)
    \/ CloseBegin
    \/ Close

\* Every thread keeps running; a call goes on once it has begun.
Fairness ==
    /\ WF_vars(OnEvent)
    /\ WF_vars(Writer)
    /\ \A f \in Flushers : WF_vars(Flush(f))
    /\ WF_vars(Close)

Spec == Init /\ [][Next]_vars /\ Fairness

-----------------------------------------------------------------------------
(* Properties *)

\* The file is at every moment a prefix, without gaps or repetitions, of the
\* events handed to onEvent, followed at most by one incomplete record; after
\* a full ring or a failed write nothing later gets in (enqueueSerialized,
\* failStop and writerThread).
Complete ==
    IF file # <<>> /\ file[Len(file)] = Torn
    THEN SubSeq(file, 1, Len(file) - 1)
    ELSE file

\* A record is accepted when the ring has it, and the file may then get it
\* before it is counted.
Accepted == IF owner = "count" THEN queued + 1 ELSE queued

Settled == IF owner \in {"push", "full"} THEN issued - 1 ELSE issued

Log == INSTANCE DurableLog WITH
    LogLength <- MaxRecords,
    issued <- Settled,
    pending <- [k \in 1 .. Accepted - Len(Complete) |-> Len(Complete) + k],
    file <- Complete,
    dropped <- Settled > Accepted

JournalIsLog == Log!Spec

\* A flush that returns true has put every event whose onEvent returned
\* before it began into the file: none was dropped, and none is still on its
\* way (flush and waitUntilWritten against enqueueSerialized and the writer).
\* The first part is about a flush that returns at once, the second about one
\* that waited.
FlushHonest ==
    /\ written >= queued /\ healthy => Returned <= Len(Complete)
    /\ \A f \in Flushers :
           caller[f] \in {"clear", "fdatasync"} /\ call[f].ok =>
               call[f].due <= Len(Complete)

\* A sync of a healthy journal has made them durable when it returns.
SyncHonest ==
    [][\A f \in Flushers :
           caller[f] = "fdatasync" /\ caller'[f] = "idle" /\ healthy' =>
               call[f].due <= synced']_vars

\* A crash of a healthy journal loses at most sync_every_n_ - 1 of the records
\* written since the policy PER_N_RECORDS was set, and none under PER_RECORD,
\* whatever policy came before (writeSerialized, setSyncPolicy).
LossBounded ==
    LET unsynced == Len(Complete) - synced - carried
    IN  /\ policy = "PER_RECORD" /\ writer # "fail" /\ healthy => unsynced <= 0
        /\ policy = "PER_N_RECORDS" /\ writer # "fail" /\ healthy =>
               unsynced < syncEvery

\* A journal that is destroyed while healthy has written every event.
CloseDrains ==
    owner = "closed" /\ healthy =>
        file = [n \in 1 .. issued |-> n]

\* sync returns, and the flush it begins with, unless another flush has
\* cleared the flag they share: the writer then takes nobody to be waiting.
\* A thread that only calls flush takes the same steps up to fdatasync.
FlushReturns ==
    \A f \in Syncers :
        caller[f] # "idle" ~>
            caller[f] = "idle" \/ (caller[f] = "asleep" /\ ~waiter)

\* The destructor returns.
CloseReturns == owner = "close" ~> owner = "closed"
=============================================================================
