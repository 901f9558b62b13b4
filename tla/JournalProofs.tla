---------------------------- MODULE JournalProofs ----------------------------
(***************************************************************************)
(* Proofs about the journal for every capacity of the ring, every range of *)
(* its counters, every number of threads that flush and sync, and every    *)
(* length of the log.                                                      *)
(***************************************************************************)
EXTENDS Journal, TLAPS

-----------------------------------------------------------------------------
(* Remainders *)

\* Quotient and remainder.
LEMMA DivMod ==
  ASSUME NEW x \in Int, NEW m \in Nat \ {0}
  PROVE  /\ x % m \in 0 .. m - 1
         /\ x \div m \in Int
         /\ x = (m * (x \div m)) + (x % m)
  OBVIOUS

\* They are unique.
LEMMA RemainderUnique ==
  ASSUME NEW m \in Nat \ {0}, NEW q \in Int, NEW r \in 0 .. m - 1
  PROVE  ((m * q) + r) % m = r
  OBVIOUS

\* Counting on from a remainder.
LEMMA RemainderPlus ==
  ASSUME NEW x \in Int, NEW m \in Nat \ {0}
  PROVE  ((x % m) + 1) % m = (x + 1) % m
<1> DEFINE q == x \div m
           r == x % m
<1>1. q \in Int /\ r \in 0 .. m - 1 /\ x = (m * q) + r
  BY DivMod
<1> HIDE DEF q, r
<1>2. CASE r < m - 1
  <2>1. r + 1 \in 0 .. m - 1 /\ x + 1 = (m * q) + (r + 1)
    BY <1>1, <1>2
  <2>2. (x + 1) % m = r + 1
    BY <1>1, <2>1, RemainderUnique
  <2>3. (r + 1) % m = r + 1
    BY <2>1
  <2> QED
    BY <2>2, <2>3 DEF r
<1>3. CASE r = m - 1
  <2>1. x + 1 = (m * (q + 1)) + 0
    BY <1>1, <1>3
  <2>2. (x + 1) % m = 0
    BY <1>1, <2>1, RemainderUnique
  <2>3. (r + 1) % m = 0
    BY <1>3
  <2> QED
    BY <2>2, <2>3 DEF r
<1> QED
  BY <1>1, <1>2, <1>3

\* A remainder by a multiple of c has the same remainder by c.
LEMMA RemainderOfRemainder ==
  ASSUME NEW x \in Int, NEW m \in Nat \ {0}, NEW c \in Nat \ {0}, m % c = 0
  PROVE  (x % m) % c = x % c
<1> DEFINE q == x \div m
           r == x % m
           k == m \div c
           p == r \div c
           s == r % c
<1>1. q \in Int /\ r \in 0 .. m - 1 /\ x = (m * q) + r
  BY DivMod
<1>2. k \in Int /\ m = (c * k) + 0
  BY DivMod
<1>3. p \in Int /\ s \in 0 .. c - 1 /\ r = (c * p) + s
  BY <1>1, DivMod
<1> HIDE DEF q, r, k, p, s
<1>4. x = (c * ((k * q) + p)) + s /\ (k * q) + p \in Int
  BY <1>1, <1>2, <1>3
<1>5. x % c = s
  BY <1>3, <1>4, RemainderUnique
<1> QED
  BY <1>5 DEF r, s

\* The difference of two remainders gives that of the numbers.
LEMMA RemainderMinus ==
  ASSUME NEW x \in Int, NEW y \in Int, NEW m \in Nat \ {0}, x - y \in 0 .. m - 1
  PROVE  ((x % m) - (y % m)) % m = x - y
<1> DEFINE q == x \div m
           r == x % m
           p == y \div m
           s == y % m
<1>1. q \in Int /\ r \in 0 .. m - 1 /\ x = (m * q) + r
  BY DivMod
<1>2. p \in Int /\ s \in 0 .. m - 1 /\ y = (m * p) + s
  BY DivMod
<1> HIDE DEF q, r, p, s
<1>3. r - s = (m * (p - q)) + (x - y) /\ p - q \in Int
  BY <1>1, <1>2
<1>4. (r - s) % m = x - y
  BY <1>3, RemainderUnique
<1> QED
  BY <1>4 DEF r, s

\* Numbers that are close have different remainders.
LEMMA RemaindersDiffer ==
  ASSUME NEW x \in Int, NEW y \in Int, NEW m \in Nat \ {0}, x - y \in 1 .. m - 1
  PROVE  x % m # y % m
<1>0. x - y \in 0 .. m - 1 /\ x - y # 0
  OBVIOUS
<1>1. ((x % m) - (y % m)) % m = x - y
  BY <1>0, RemainderMinus, Zenon
<1>2. 0 % m = 0
  OBVIOUS
<1>3. x % m \in Int /\ y % m \in Int
  BY DivMod
<1> QED
  BY <1>0, <1>1, <1>2, <1>3

-----------------------------------------------------------------------------
(* The inductive invariant, part by part *)

Calls == [target : Nat, due : Nat, ok : BOOLEAN]

Pushing == {"push", "full", "count"}

Closing == {"close", "join", "closed"}

JournalTypes ==
    /\ ring \in [Slots -> Records \cup {Unset}]
    /\ pushPc \in {"idle", "write", "publish"}
    /\ popPc \in {"idle", "read", "publish"}
    /\ running \in BOOLEAN
    /\ healthy \in BOOLEAN
    /\ queued \in Nat
    /\ written \in Nat
    /\ issued \in 0 .. MaxRecords
    /\ owner \in {"idle"} \cup Pushing \cup Closing
    /\ writer \in {"test", "asleep", "pop", "write", "count", "notify", "fail",
                   "exit", "exited"}
    /\ file \in Seq(Records \cup {Torn})

\* The engine thread numbers its records without gaps until one is dropped,
\* and drops none while the journal is healthy.
EventsNumbered ==
    /\ owner \in Pushing => issued = queued + 1
    /\ owner \notin Pushing => queued <= issued
    /\ owner \notin Pushing /\ healthy => queued = issued
    /\ pushPc # "idle" => owner = "push" /\ record = issued
    /\ ~running /\ healthy => owner \in Closing

\* The writer goes on: it has not met an error and has not left.
Live == writer \notin {"fail", "exited"}

\* The records of the file are 1, 2, 3 and so on, but for an incomplete one
\* at the end after a failed write.
FilePrefix ==
    \A n \in 1 .. Len(file) :
        file[n] = n \/ (n = Len(file) /\ file[n] = Torn /\ ~Live)

\* How many records the writer has taken out of the ring.
Popped == IF writer = "write" THEN Len(file) + 1 ELSE Len(file)

\* The slot of record n.
Place(n) == (Start + n - 1) % Capacity

\* The counters count the records that were put in and taken out, and the
\* ring holds those in between.
RingHolds ==
    /\ head = (Start + Accepted) % Modulus
    /\ Live => /\ tail = (Start + Popped) % Modulus
               /\ Accepted - Popped \in 0 .. Capacity
               /\ \A n \in Popped + 1 .. Accepted : ring[Place(n)] = n

\* What the two threads know inside tryPush and tryPop.
RingKnown ==
    /\ Live /\ pushPc # "idle" => Accepted - Popped < Capacity
    /\ Live /\ pushPc = "publish" => ring[Place(issued)] = issued
    /\ popPc # "idle" => writer = "pop" /\ Popped < Accepted
    /\ popPc = "publish" \/ writer = "write" => view = Len(file) + 1

\* The count of records written is not ahead of the file, nor the file of what
\* was accepted.
WrittenCounted ==
    /\ Live => written = IF writer = "count" THEN Len(file) - 1 ELSE Len(file)
    /\ written <= Len(Complete)
    /\ Len(Complete) <= Accepted

FlowInv ==
    /\ JournalTypes
    /\ EventsNumbered
    /\ FilePrefix
    /\ RingHolds
    /\ RingKnown
    /\ WrittenCounted

\* A flush waits for all events that had returned when it began, and one that
\* has waited successfully finds them in the file.
FlushInv ==
    /\ caller \in [Flushers -> {"idle", "mark", "test", "asleep", "clear",
                                "fdatasync"}]
    /\ call \in [Flushers -> Calls]
    /\ \A f \in Flushers :
           /\ caller[f] \in {"mark", "test", "asleep"} =>
                  call[f].due <= call[f].target
           /\ caller[f] \in {"clear", "fdatasync"} /\ call[f].ok =>
                  call[f].due <= Len(Complete)
           /\ caller[f] = "fdatasync" => call[f].ok

\* since counts at least the records that a crash would lose.
SyncInv ==
    /\ policy \in {"MANUAL", "PER_RECORD", "PER_N_RECORDS"}
    /\ since \in Nat
    /\ syncEvery \in Nat \ {0}
    /\ synced \in 0 .. Len(file)
    /\ carried \in Nat
    /\ policy # "MANUAL" => Len(Complete) - synced - carried <= since
    /\ writer # "fail" /\ healthy =>
           /\ policy = "PER_RECORD" => since = 0
           /\ policy = "PER_N_RECORDS" => since < syncEvery

\* A writer that leaves without an error leaves an empty ring, when nothing
\* is put in any more.
ExitInv ==
    /\ writer \in {"exit", "exited"} /\ healthy =>
           /\ owner \in Closing
           /\ file = [n \in 1 .. issued |-> n]
    /\ owner = "closed" => writer = "exited"

-----------------------------------------------------------------------------
(* From the engine thread through the ring to the file *)

\* The constants.
LEMMA JournalConstants ==
  /\ Capacity \in Nat \ {0} /\ Modulus \in Nat \ {0}
  /\ Modulus % Capacity = 0 /\ Capacity < Modulus
  /\ Start \in Nat /\ Start < Modulus
  /\ MaxRecords \in Nat /\ Records = 1 .. MaxRecords
  /\ Torn \notin Records
  BY JournalRingAssumption, JournalAssumption

\* Every record has a slot, the counters lead to it, and records that are in
\* the ring together have different ones.
LEMMA Places ==
  /\ \A n \in Nat \ {0} : Place(n) \in Slots
  /\ \A n \in Nat : SlotOf((Start + n) % Modulus) = Place(n + 1)
  /\ \A m, n \in Nat \ {0} : m < n /\ n - m < Capacity => Place(m) # Place(n)
<1> USE JournalConstants
<1>1. \A n \in Nat \ {0} : Start + n - 1 \in Nat
  OBVIOUS
<1>2. ASSUME NEW n \in Nat \ {0}
      PROVE  Place(n) \in Slots
  BY <1>1, DivMod DEF Place, Slots
<1>3. ASSUME NEW n \in Nat
      PROVE  SlotOf((Start + n) % Modulus) = Place(n + 1)
  <2>1. Start + n \in Int /\ Start + (n + 1) - 1 = Start + n
    OBVIOUS
  <2>2. ((Start + n) % Modulus) % Capacity = (Start + n) % Capacity
    BY <2>1, RemainderOfRemainder
  <2> QED
    BY <2>1, <2>2 DEF SlotOf, Place
<1>4. ASSUME NEW m \in Nat \ {0}, NEW n \in Nat \ {0}, m < n, n - m < Capacity
      PROVE  Place(m) # Place(n)
  <2> DEFINE x == Start + n - 1
             y == Start + m - 1
  <2>1. x \in Int /\ y \in Int /\ x - y \in 1 .. Capacity - 1
    BY <1>4
  <2> HIDE DEF x, y
  <2>2. x % Capacity # y % Capacity
    BY <2>1, RemaindersDiffer
  <2> QED
    BY <2>2 DEF Place, x, y
<1> QED
  BY <1>2, <1>3, <1>4

\* A counter that is moved on counts one record more.
LEMMA PlusCounts ==
  ASSUME NEW n \in Nat
  PROVE  Plus((Start + n) % Modulus) = (Start + (n + 1)) % Modulus
<1>1. Start + n \in Int /\ Start + (n + 1) = (Start + n) + 1
  BY JournalConstants
<1> QED
  BY <1>1, JournalConstants, RemainderPlus DEF Plus

\* What the producer and the consumer see of the counters.
LEMMA CountersCount ==
  ASSUME NEW a \in Nat, NEW p \in Nat, a - p \in 0 .. Capacity,
         head = (Start + a) % Modulus, tail = (Start + p) % Modulus
  PROVE  /\ full <=> a - p = Capacity
         /\ empty <=> a = p
<1>1. /\ Start + a \in Int /\ Start + p \in Int
      /\ (Start + a) - (Start + p) = a - p
      /\ a - p \in 0 .. Modulus - 1
  BY JournalConstants
<1>2. (Start + a) - (Start + p) \in 0 .. Modulus - 1
  BY <1>1
<1>3. (((Start + a) % Modulus) - ((Start + p) % Modulus)) % Modulus
          = (Start + a) - (Start + p)
  BY <1>1, <1>2, JournalConstants, RemainderMinus, Zenon
<1>4. Count = a - p
  BY <1>1, <1>3 DEF Count
<1>5. full <=> a - p = Capacity
  BY <1>4, JournalConstants DEF full
<1>6. empty => a = p
  <2>1. SUFFICES ASSUME empty PROVE a = p
    OBVIOUS
  <2>2. head = tail /\ head \in Int
    BY <2>1, <1>1, JournalConstants, DivMod DEF empty
  <2>3. head - tail = 0 /\ 0 % Modulus = 0
    BY <2>2, JournalConstants
  <2> QED
    BY <1>4, <2>3 DEF Count
<1>7. a = p => empty
  BY DEF empty
<1> QED
  BY <1>5, <1>6, <1>7

\* While the writer goes on the file has no incomplete record.
LEMMA LiveComplete ==
  ASSUME JournalTypes, FilePrefix, Live, Len(file) <= MaxRecords
  PROVE  Complete = file
<1>1. CASE file = <<>>
  BY <1>1 DEF Complete
<1>2. CASE file # <<>>
  <2>1. Len(file) \in 1 .. Len(file) /\ Len(file) \in Records
    BY <1>2, JournalConstants DEF JournalTypes
  <2>2. file[Len(file)] # Torn
    BY <2>1, JournalConstants DEF FilePrefix
  <2> QED
    BY <2>2 DEF Complete
<1> QED
  BY <1>1, <1>2

\* An empty ring, nothing issued and an empty file.
LEMMA FlowInvInit == Init => FlowInv
<1> SUFFICES ASSUME Init PROVE FlowInv
  OBVIOUS
<1> USE DEF Init, RingInit
<1>1. Accepted = 0 /\ Popped = 0 /\ Live /\ Len(file) = 0 /\ Complete = file
  BY DEF Accepted, Popped, Live, Complete
<1>2. JournalTypes
  <2>1. ring \in [Slots -> Records \cup {Unset}] /\ file \in Seq(Records \cup {Torn})
    OBVIOUS
  <2>2. running \in BOOLEAN /\ healthy \in BOOLEAN
    OBVIOUS
  <2>3. issued \in 0 .. MaxRecords
    BY JournalConstants
  <2> QED
    BY <2>1, <2>2, <2>3 DEF JournalTypes
<1>3. EventsNumbered
  BY DEF EventsNumbered, Pushing, Closing
<1>4. FilePrefix
  BY <1>1 DEF FilePrefix
<1>5. RingHolds
  <2>1. (Start + 0) % Modulus = Start
    BY JournalConstants
  <2> QED
    BY <1>1, <2>1, JournalConstants DEF RingHolds
<1>6. RingKnown /\ WrittenCounted
  BY <1>1 DEF RingKnown, WrittenCounted
<1> QED
  BY <1>2, <1>3, <1>4, <1>5, <1>6 DEF FlowInv

\* Facts that every step uses.
LEMMA FlowFacts ==
  ASSUME FlowInv
  PROVE  /\ Len(file) \in Nat /\ Accepted \in Nat /\ Popped \in Nat
         /\ Accepted <= issued /\ issued \in Nat /\ issued <= MaxRecords
         /\ Live => /\ Len(file) <= Popped /\ Popped <= Accepted
                    /\ Complete = file
         /\ owner \in {"push", "full"} => Accepted = issued - 1
         /\ Live => (full <=> Accepted - Popped = Capacity)
         /\ Live => (empty <=> Accepted = Popped)
<1>1. /\ JournalTypes /\ EventsNumbered /\ FilePrefix /\ RingHolds
      /\ Len(file) \in Nat /\ queued \in Nat /\ issued \in Nat
      /\ issued <= MaxRecords
  BY JournalConstants DEF FlowInv, JournalTypes
<1>2. Accepted \in Nat /\ Popped \in Nat /\ Len(file) <= Popped
  BY <1>1 DEF Accepted, Popped
<1>3. Accepted <= issued /\ (owner \in {"push", "full"} => Accepted = issued - 1)
  BY <1>1 DEF EventsNumbered, Accepted, Pushing
<1>4. ASSUME Live
      PROVE  /\ Popped <= Accepted /\ Complete = file
             /\ full <=> Accepted - Popped = Capacity
             /\ empty <=> Accepted = Popped
  <2>1. Accepted - Popped \in 0 .. Capacity
    BY <1>1, <1>4 DEF RingHolds
  <2>2. Popped <= Accepted
    BY <1>2, <2>1, JournalConstants
  <2>3. Len(file) <= MaxRecords
    BY <1>1, <1>2, <1>3, <2>2, JournalConstants
  <2>4. Complete = file
    BY <1>1, <1>4, <2>3, LiveComplete
  <2> QED
    BY <1>1, <1>2, <1>4, <2>1, <2>2, <2>4, CountersCount DEF RingHolds
<1> QED
  BY <1>1, <1>2, <1>3, <1>4

\* Steps that leave the records where they are.
LEMMA RecordsStay ==
  ASSUME FlowInv, UNCHANGED <<ring, head, tail, file, written>>,
         Accepted' = Accepted, Live' => Live,
         Live' => (writer' = "write" <=> writer = "write"),
         Live' => (writer' = "count" <=> writer = "count")
  PROVE  FilePrefix' /\ RingHolds' /\ WrittenCounted'
<1>1. FilePrefix'
  BY DEF FlowInv, FilePrefix
<1>2. Live' => Popped' = Popped
  BY DEF Popped
<1>3. Complete' = Complete
  BY DEF Complete
<1>4. RingHolds'
  BY <1>2 DEF FlowInv, RingHolds, Place
<1>5. WrittenCounted'
  BY <1>3 DEF FlowInv, WrittenCounted
<1> QED
  BY <1>1, <1>4, <1>5

\* Steps of the engine thread, onEvent and the destructor.
LEMMA EngineStep ==
  ASSUME FlowInv,
         EventDropped \/ EventBegin \/ OnEvent \/ CloseBegin \/ Close
  PROVE  FlowInv'
<1> USE JournalConstants DEF Pushing, Closing
<1>0. /\ JournalTypes /\ EventsNumbered /\ FilePrefix /\ RingHolds /\ RingKnown
      /\ WrittenCounted
  BY DEF FlowInv
<1>1. CASE EventDropped
  <2> USE <1>1 DEF EventDropped, ringVars, pushVars, popVars, counters
  <2>1. Accepted' = Accepted /\ Popped' = Popped /\ (Live' <=> Live)
    BY DEF Accepted, Popped, Live
  <2>2. FilePrefix' /\ RingHolds' /\ WrittenCounted'
    BY <2>1, RecordsStay
  <2>3. ~healthy
    BY <1>0 DEF EventsNumbered
  <2>4. JournalTypes'
    BY <1>0 DEF JournalTypes
  <2>5. EventsNumbered'
    BY <1>0, <2>3 DEF JournalTypes, EventsNumbered
  <2>6. RingKnown'
    BY <1>0, <2>1 DEF EventsNumbered, RingKnown, Place
  <2> QED
    BY <2>2, <2>4, <2>5, <2>6 DEF FlowInv
<1>2. CASE EventBegin
  <2> USE <1>2 DEF EventBegin, ringVars, pushVars, popVars, counters
  <2>1. Accepted' = Accepted /\ Popped' = Popped /\ (Live' <=> Live)
    BY DEF Accepted, Popped, Live
  <2>2. FilePrefix' /\ RingHolds' /\ WrittenCounted'
    BY <2>1, RecordsStay
  <2>4. JournalTypes'
    BY <1>0 DEF JournalTypes
  <2>5. EventsNumbered'
    BY <1>0 DEF JournalTypes, EventsNumbered
  <2>6. RingKnown'
    BY <1>0, <2>1 DEF EventsNumbered, RingKnown, Place
  <2> QED
    BY <2>2, <2>4, <2>5, <2>6 DEF FlowInv
<1>3. CASE EventPush
  <2> USE <1>3 DEF EventPush, ringVars, pushVars, popVars, counters
  <2>1. Popped' = Popped /\ (Live' <=> Live) /\ owner = "push"
    BY DEF Popped, Live
  <2>2. CASE PushBegin(issued) /\ owner' = "push"
    <3> USE <2>2 DEF PushBegin
    <3>1. Accepted' = Accepted
      BY DEF Accepted
    <3>2. FilePrefix' /\ RingHolds' /\ WrittenCounted'
      BY <2>1, <3>1, RecordsStay
    <3>3. JournalTypes' /\ EventsNumbered'
      BY <1>0 DEF JournalTypes, EventsNumbered
    <3>4. Live => Accepted - Popped < Capacity
      BY <1>0, FlowFacts DEF RingHolds
    <3>5. RingKnown'
      BY <1>0, <2>1, <3>1, <3>4 DEF RingKnown
    <3> QED
      BY <3>2, <3>3, <3>5 DEF FlowInv
  <2>3. CASE PushFull /\ owner' = "full"
    <3> USE <2>3 DEF PushFull
    <3>1. Accepted' = Accepted
      BY DEF Accepted
    <3>2. FilePrefix' /\ RingHolds' /\ WrittenCounted'
      BY <2>1, <3>1, RecordsStay
    <3>3. JournalTypes' /\ EventsNumbered'
      BY <1>0 DEF JournalTypes, EventsNumbered
    <3>5. RingKnown'
      BY <1>0, <2>1, <3>1 DEF RingKnown
    <3> QED
      BY <3>2, <3>3, <3>5 DEF FlowInv
  <2>4. CASE PushWrite /\ owner' = "push"
    <3> USE <2>4 DEF PushWrite
    <3>1. /\ Accepted' = Accepted /\ Accepted = issued - 1 /\ record = issued
          /\ issued \in Nat \ {0} /\ issued \in Records
      BY <1>0, <2>1, FlowFacts DEF Accepted, EventsNumbered
    <3>2. SlotOf(head) = Place(issued) /\ Place(issued) \in Slots
      <4>1. SlotOf((Start + Accepted) % Modulus) = Place(Accepted + 1)
        BY FlowFacts, Places
      <4> QED
        BY <1>0, <3>1, <4>1, Places, FlowFacts DEF RingHolds
    <3>3. ring' = [ring EXCEPT ![Place(issued)] = issued]
      BY <3>1, <3>2
    <3>4. JournalTypes' /\ EventsNumbered'
      BY <1>0, <3>1, <3>3 DEF JournalTypes, EventsNumbered
    <3>5. FilePrefix' /\ WrittenCounted'
      BY <1>0, <2>1, <3>1 DEF FilePrefix, WrittenCounted, Complete
    <3>6. RingHolds'
      <4>1. ASSUME Live, NEW n \in Popped + 1 .. Accepted
            PROVE  ring'[Place(n)] = n
        <5>1. /\ ring[Place(n)] = n /\ n \in Nat \ {0} /\ n < issued
              /\ issued - n < Capacity
          BY <1>0, <3>1, <4>1, FlowFacts DEF RingHolds, RingKnown
        <5>2. Place(n) # Place(issued) /\ Place(n) \in Slots
          BY <3>1, <5>1, Places
        <5> QED
          BY <1>0, <3>3, <5>1, <5>2 DEF JournalTypes
      <4> QED
        BY <1>0, <2>1, <3>1, <4>1 DEF RingHolds, Place
    <3>7. RingKnown'
      <4>1. ring'[Place(issued)] = issued
        BY <1>0, <3>2, <3>3 DEF JournalTypes
      <4> QED
        BY <1>0, <2>1, <3>1, <4>1 DEF RingKnown, Place
    <3> QED
      BY <3>4, <3>5, <3>6, <3>7 DEF FlowInv
  <2>5. CASE PushPublish /\ owner' = "count"
    <3> USE <2>5 DEF PushPublish
    <3>1. /\ Accepted' = Accepted + 1 /\ Accepted = issued - 1
          /\ Accepted \in Nat /\ issued \in Nat
      BY <1>0, <2>1, FlowFacts DEF Accepted
    <3>2. head' = (Start + (Accepted + 1)) % Modulus
      BY <1>0, <3>1, PlusCounts DEF RingHolds
    <3>3. JournalTypes' /\ EventsNumbered'
      BY <1>0 DEF JournalTypes, EventsNumbered
    <3>4. Complete' = Complete /\ Len(Complete) <= Accepted
      BY <1>0 DEF Complete, WrittenCounted
    <3>5. Len(Complete) \in Nat
      BY <1>0 DEF Complete, JournalTypes
    <3>6. FilePrefix' /\ WrittenCounted'
      BY <1>0, <2>1, <3>1, <3>4, <3>5 DEF FilePrefix, WrittenCounted
    <3>7. RingHolds'
      <4>1. ASSUME Live, NEW n \in Popped + 1 .. Accepted + 1
            PROVE  ring[Place(n)] = n
        <5>1. n = issued \/ n \in Popped + 1 .. Accepted
          BY <3>1, FlowFacts
        <5> QED
          BY <1>0, <4>1, <5>1 DEF RingHolds, RingKnown
      <4>2. Live => Accepted + 1 - Popped \in 0 .. Capacity
        BY <1>0, <3>1, FlowFacts DEF RingKnown, RingHolds
      <4>3. Live => \A n \in Popped + 1 .. Accepted + 1 : ring[Place(n)] = n
        BY <4>1
      <4>4. Live => \A n \in Popped' + 1 .. Accepted' : ring'[Place(n)] = n
        BY <2>1, <3>1, <4>3
      <4>5. Live' => tail' = (Start + Popped') % Modulus
        BY <1>0, <2>1 DEF RingHolds
      <4>6. Live' => Accepted' - Popped' \in 0 .. Capacity
        BY <2>1, <3>1, <4>2, FlowFacts
      <4>7. head' = (Start + Accepted') % Modulus
        BY <3>1, <3>2, Zenon
      <4> QED
        BY <2>1, <4>4, <4>5, <4>6, <4>7 DEF RingHolds, Place
    <3>8. RingKnown'
      BY <1>0, <2>1, <3>1, FlowFacts DEF RingKnown
    <3> QED
      BY <3>3, <3>6, <3>7, <3>8 DEF FlowInv
  <2> QED
    BY <2>2, <2>3, <2>4, <2>5
<1>4. CASE EventCount
  <2> USE <1>4 DEF EventCount, notifyQueue, ringVars, pushVars, popVars
  <2>1. /\ Accepted' = Accepted /\ Popped' = Popped /\ (Live' <=> Live)
        /\ writer' = "write" <=> writer = "write"
        /\ writer' = "count" <=> writer = "count"
        /\ writer' = "pop" <=> writer = "pop"
    BY DEF Accepted, Popped, Live
  <2>2. FilePrefix' /\ RingHolds' /\ WrittenCounted'
    BY <2>1, RecordsStay
  <2>3. JournalTypes' /\ EventsNumbered'
    BY <1>0 DEF JournalTypes, EventsNumbered
  <2>4. RingKnown'
    BY <1>0, <2>1 DEF EventsNumbered, RingKnown
  <2> QED
    BY <2>2, <2>3, <2>4 DEF FlowInv
<1>5. CASE EventFull
  <2> USE <1>5 DEF EventFull, notifyQueue, ringVars, pushVars, popVars, counters
  <2>1. /\ Accepted' = Accepted /\ Popped' = Popped /\ (Live' <=> Live)
        /\ writer' = "write" <=> writer = "write"
        /\ writer' = "count" <=> writer = "count"
        /\ writer' = "pop" <=> writer = "pop"
    BY DEF Accepted, Popped, Live
  <2>2. FilePrefix' /\ RingHolds' /\ WrittenCounted'
    BY <2>1, RecordsStay
  <2>3. JournalTypes'
    <3>1. running' \in BOOLEAN /\ healthy' \in BOOLEAN
      BY <1>0 DEF JournalTypes
    <3> QED
      BY <1>0, <3>1 DEF JournalTypes
  <2>4. EventsNumbered'
    BY <1>0 DEF JournalTypes, EventsNumbered
  <2>5. RingKnown'
    BY <1>0, <2>1 DEF EventsNumbered, RingKnown
  <2> QED
    BY <2>2, <2>3, <2>4, <2>5 DEF FlowInv
<1>6. CASE CloseBegin \/ Close
  <2> USE <1>6 DEF CloseBegin, Close, CloseNotify, CloseJoin, notifyQueue,
                   ringVars, pushVars, popVars, counters
  <2>1. /\ Accepted' = Accepted /\ Popped' = Popped /\ (Live' <=> Live)
        /\ writer' = "write" <=> writer = "write"
        /\ writer' = "count" <=> writer = "count"
        /\ writer' = "pop" <=> writer = "pop"
    BY DEF Accepted, Popped, Live
  <2>2. FilePrefix' /\ RingHolds' /\ WrittenCounted'
    BY <2>1, RecordsStay
  <2>3. JournalTypes'
    <3>1. running' \in BOOLEAN /\ healthy' \in BOOLEAN
      BY <1>0 DEF JournalTypes
    <3> QED
      BY <1>0, <3>1 DEF JournalTypes
  <2>4. EventsNumbered'
    BY <1>0 DEF JournalTypes, EventsNumbered
  <2>5. RingKnown'
    BY <1>0, <2>1 DEF EventsNumbered, RingKnown
  <2> QED
    BY <2>2, <2>3, <2>4, <2>5 DEF FlowInv
<1> QED
  BY <1>1, <1>2, <1>3, <1>4, <1>5, <1>6 DEF OnEvent

\* A whole record goes to the end of the file.
LEMMA RecordWritten ==
  ASSUME FlowInv, WriteRecord
  PROVE  /\ file' = Append(file, Len(file) + 1)
         /\ file' \in Seq(Records \cup {Torn})
         /\ Len(file') = Len(file) + 1
         /\ \A n \in 1 .. Len(file') : file'[n] = n
         /\ Complete' = file'
         /\ Complete = file
         /\ Len(file') <= Accepted
<1> USE JournalConstants DEF WriteRecord
<1>1. /\ file \in Seq(Records \cup {Torn}) /\ view = Len(file) + 1 /\ Live
      /\ Popped = Len(file) + 1
  BY DEF FlowInv, JournalTypes, RingKnown, Live, Popped
<1>2. Len(file) + 1 <= Accepted /\ Len(file) + 1 \in Records /\ Complete = file
  BY <1>1, FlowFacts
<1>3. /\ file' = Append(file, Len(file) + 1)
      /\ file' \in Seq(Records \cup {Torn})
      /\ Len(file') = Len(file) + 1
  BY <1>1, <1>2
<1>4. file'[Len(file) + 1] = Len(file) + 1
  BY <1>1, <1>3
<1>5. ASSUME NEW n \in 1 .. Len(file')
      PROVE  file'[n] = n
  <2>1. CASE n \in 1 .. Len(file)
    <3>1. file'[n] = file[n]
      BY <1>1, <1>3, <2>1
    <3>2. file[n] = n
      BY <1>1, <2>1 DEF FlowInv, FilePrefix
    <3> QED
      BY <3>1, <3>2
  <2>2. CASE n = Len(file) + 1
    BY <1>4, <2>2
  <2> QED
    BY <1>1, <1>3, <2>1, <2>2
<1>6. file'[Len(file')] # Torn
  BY <1>2, <1>3, <1>4
<1>7. Complete' = file'
  BY <1>6 DEF Complete
<1> QED
  BY <1>2, <1>3, <1>5, <1>7

\* A write that fails adds no complete record.
LEMMA WriteFailed ==
  ASSUME FlowInv, WriterWriteFails
  PROVE  /\ file' \in Seq(Records \cup {Torn})
         /\ Complete' = Complete
         /\ Complete = file
         /\ \A n \in 1 .. Len(file') :
                file'[n] = n \/ (n = Len(file') /\ file'[n] = Torn)
<1> USE DEF WriterWriteFails
<1>1. file \in Seq(Records \cup {Torn}) /\ Live
  BY DEF FlowInv, JournalTypes, Live
<1>2. Complete = file
  BY <1>1, FlowFacts
<1>3. \A n \in 1 .. Len(file) : file[n] = n
  BY <1>1 DEF FlowInv, FilePrefix
<1>4. CASE file' = file
  BY <1>1, <1>2, <1>3, <1>4 DEF Complete
<1>5. CASE file' = Append(file, Torn)
  <2>1. /\ file' \in Seq(Records \cup {Torn})
        /\ Len(file') = Len(file) + 1 /\ file'[Len(file')] = Torn
        /\ file' # <<>> /\ Len(file') - 1 = Len(file)
    BY <1>1, <1>5
  <2>2. \A n \in 1 .. Len(file) : file'[n] = file[n]
    BY <1>1, <1>5
  <2>3. SubSeq(file', 1, Len(file)) = file
    BY <1>1, <2>1, <2>2
  <2>4. Complete' = file
    BY <2>1, <2>3 DEF Complete
  <2> QED
    BY <1>1, <1>2, <1>3, <2>1, <2>2, <2>4
<1> QED
  BY <1>4, <1>5

\* Steps of the writer thread.
LEMMA WriterStep ==
  ASSUME FlowInv, Writer
  PROVE  FlowInv'
<1> USE JournalConstants
<1>0. /\ JournalTypes /\ EventsNumbered /\ FilePrefix /\ RingHolds /\ RingKnown
      /\ WrittenCounted
  BY DEF FlowInv
<1>1. CASE WriterTest \/ WriterNotify \/ WriterExit
  <2> USE <1>1 DEF WriterTest, WriterNotify, WriterExit, ringVars, pushVars,
                   popVars, counters
  <2>1. /\ Accepted' = Accepted /\ Popped' = Popped /\ (Live' => Live)
        /\ writer \notin {"write", "count", "pop"}
        /\ writer' \notin {"write", "count"}
    BY DEF Accepted, Popped, Live
  <2>2. FilePrefix' /\ RingHolds' /\ WrittenCounted'
    BY <2>1, RecordsStay
  <2>3. JournalTypes'
    BY <1>0 DEF JournalTypes
  <2>4. EventsNumbered'
    BY <1>0 DEF EventsNumbered
  <2>5. RingKnown'
    BY <1>0, <2>1 DEF RingKnown, Place
  <2> QED
    BY <2>2, <2>3, <2>4, <2>5 DEF FlowInv
<1>2. CASE WriterFails
  <2> USE <1>2 DEF WriterFails, ringVars, pushVars, popVars, counters
  <2>1. Accepted' = Accepted /\ ~Live' /\ writer # "pop"
    BY DEF Accepted, Popped, Live
  <2>2. FilePrefix' /\ RingHolds' /\ WrittenCounted'
    BY <2>1, RecordsStay
  <2>3. JournalTypes'
    <3>1. running' \in BOOLEAN /\ healthy' \in BOOLEAN
      OBVIOUS
    <3> QED
      BY <1>0, <3>1 DEF JournalTypes
  <2>4. EventsNumbered'
    BY <1>0 DEF EventsNumbered
  <2>5. RingKnown'
    BY <1>0, <2>1 DEF RingKnown
  <2> QED
    BY <2>2, <2>3, <2>4, <2>5 DEF FlowInv
<1>3. CASE WriterPop
  <2> USE <1>3 DEF WriterPop, ringVars, pushVars, popVars, counters
  <2>1. /\ Accepted' = Accepted /\ Popped = Len(file) /\ Live /\ writer = "pop"
        /\ writer' \in {"pop", "write"}
    BY DEF Accepted, Popped, Live
  <2>2. Live'
    BY <2>1 DEF Live
  <2>3. EventsNumbered'
    BY <1>0 DEF EventsNumbered, PopBegin, PopRead, PopPublish
  <2>4. JournalTypes'
    BY <1>0 DEF JournalTypes, PopBegin, PopRead, PopPublish
  <2>5. CASE PopBegin /\ writer' = "pop"
    <3> USE <2>5 DEF PopBegin
    <3>1. FilePrefix' /\ RingHolds' /\ WrittenCounted'
      BY <2>1, <2>2, RecordsStay
    <3>2. Popped < Accepted /\ Popped' = Popped
      BY <2>1, FlowFacts DEF Popped
    <3>3. RingKnown'
      BY <1>0, <2>1, <2>2, <3>2 DEF RingKnown, Place
    <3> QED
      BY <2>3, <2>4, <3>1, <3>3 DEF FlowInv
  <2>6. CASE PopRead /\ writer' = "pop"
    <3> USE <2>6 DEF PopRead
    <3>1. FilePrefix' /\ RingHolds' /\ WrittenCounted'
      BY <2>1, <2>2, RecordsStay
    <3>2. Popped < Accepted /\ Popped' = Popped
      BY <1>0, <2>1 DEF RingKnown, Popped
    <3>3. SlotOf((Start + Popped) % Modulus) = Place(Popped + 1)
      BY Places, FlowFacts
    <3>4. SlotOf(tail) = Place(Popped + 1)
      BY <1>0, <2>1, <3>3 DEF RingHolds
    <3>5. Popped + 1 \in Popped + 1 .. Accepted
      BY <3>2, FlowFacts
    <3>6. view' = Len(file) + 1
      BY <1>0, <2>1, <3>4, <3>5 DEF RingHolds
    <3>7. RingKnown'
      BY <1>0, <2>1, <2>2, <3>2, <3>6 DEF RingKnown, Place
    <3> QED
      BY <2>3, <2>4, <3>1, <3>7 DEF FlowInv
  <2>7. CASE PopPublish /\ writer' = "write"
    <3> USE <2>7 DEF PopPublish
    <3>1. /\ Popped' = Popped + 1 /\ Popped < Accepted /\ view = Len(file) + 1
          /\ Popped \in Nat /\ Accepted \in Nat
      BY <1>0, <2>1, FlowFacts DEF RingKnown, Popped
    <3>2. tail' = (Start + (Popped + 1)) % Modulus
      BY <1>0, <2>1, <3>1, PlusCounts DEF RingHolds
    <3>3. FilePrefix' /\ WrittenCounted'
      BY <1>0, <2>1, <2>2 DEF FilePrefix, WrittenCounted, Complete
    <3>4. RingHolds'
      <4>1. tail' = (Start + Popped') % Modulus
        BY <3>1, <3>2, Zenon
      <4>2. Accepted' - Popped' \in 0 .. Capacity
        BY <1>0, <2>1, <3>1 DEF RingHolds
      <4>3. \A n \in Popped + 1 .. Accepted : ring[Place(n)] = n
        BY <1>0, <2>1 DEF RingHolds
      <4>4. \A n \in Popped' + 1 .. Accepted' : n \in Popped + 1 .. Accepted
        BY <2>1, <3>1
      <4> QED
        BY <1>0, <2>1, <4>1, <4>2, <4>3, <4>4 DEF RingHolds, Place
    <3>5. RingKnown'
      BY <1>0, <2>1, <2>2, <3>1 DEF RingKnown, Place
    <3> QED
      BY <2>3, <2>4, <3>3, <3>4, <3>5 DEF FlowInv
  <2> QED
    BY <2>5, <2>6, <2>7
<1>4. CASE WriterWrites \/ WriterSyncFails
  <2> USE <1>4 DEF WriterWrites, WriterSyncFails, ringVars, pushVars, popVars,
                   counters
  <2>1. WriteRecord /\ writer = "write" /\ writer' \in {"count", "fail"}
    BY DEF WriteRecord
  <2>2. /\ file' \in Seq(Records \cup {Torn})
        /\ Len(file') = Len(file) + 1 /\ Len(file) \in Nat
        /\ \A n \in 1 .. Len(file') : file'[n] = n
        /\ Complete' = file' /\ Complete = file /\ Len(file') <= Accepted
    BY <2>1, RecordWritten, FlowFacts
  <2>3. Accepted' = Accepted /\ Popped' = Popped /\ Live
    BY <2>1, <2>2 DEF Accepted, Popped, Live
  <2>4. JournalTypes'
    BY <1>0, <2>1, <2>2 DEF JournalTypes
  <2>5. EventsNumbered'
    BY <1>0 DEF EventsNumbered
  <2>6. FilePrefix'
    BY <2>2 DEF FilePrefix
  <2>7. RingHolds'
    BY <1>0, <2>3 DEF RingHolds, Place
  <2>8. RingKnown'
    BY <1>0, <2>1, <2>3 DEF RingKnown, Place
  <2>9. WrittenCounted'
    <3>1. written' = Len(file)
      BY <1>0, <2>1, <2>3 DEF WrittenCounted
    <3>2. Live' => writer' = "count"
      BY <2>1 DEF Live
    <3> QED
      BY <2>2, <2>3, <3>1, <3>2 DEF WrittenCounted
  <2> QED
    BY <2>4, <2>5, <2>6, <2>7, <2>8, <2>9 DEF FlowInv
<1>5. CASE WriterWriteFails
  <2> USE <1>5 DEF WriterWriteFails, ringVars, pushVars, popVars, counters
  <2>1. /\ file' \in Seq(Records \cup {Torn})
        /\ Complete' = Complete
        /\ \A n \in 1 .. Len(file') :
               file'[n] = n \/ (n = Len(file') /\ file'[n] = Torn)
    BY WriteFailed
  <2>2. Accepted' = Accepted /\ ~Live'
    BY DEF Accepted, Live
  <2>3. JournalTypes'
    BY <1>0, <2>1 DEF JournalTypes
  <2>4. EventsNumbered'
    BY <1>0 DEF EventsNumbered
  <2>5. FilePrefix'
    BY <2>1, <2>2 DEF FilePrefix
  <2>6. RingHolds' /\ RingKnown' /\ WrittenCounted'
    BY <1>0, <2>1, <2>2 DEF RingHolds, RingKnown, WrittenCounted
  <2> QED
    BY <2>3, <2>4, <2>5, <2>6 DEF FlowInv
<1>6. CASE WriterCount
  <2> USE <1>6 DEF WriterCount, ringVars, pushVars, popVars
  <2>1. Accepted' = Accepted /\ Popped' = Popped /\ Live /\ Complete' = Complete
    BY DEF Accepted, Popped, Live, Complete
  <2>2. JournalTypes'
    BY <1>0 DEF JournalTypes
  <2>3. EventsNumbered'
    BY <1>0 DEF EventsNumbered
  <2>4. FilePrefix'
    BY <1>0, <2>1 DEF FilePrefix
  <2>5. RingHolds' /\ RingKnown'
    BY <1>0, <2>1 DEF RingHolds, RingKnown, Place
  <2>6. WrittenCounted'
    BY <1>0, <2>1, FlowFacts DEF WrittenCounted
  <2> QED
    BY <2>2, <2>3, <2>4, <2>5, <2>6 DEF FlowInv
<1> QED
  BY <1>1, <1>2, <1>3, <1>4, <1>5, <1>6 DEF Writer

\* Steps that do not touch the records; one that fails stops the journal.
LEMMA FlowKept ==
  ASSUME FlowInv, healthy' \in {healthy, FALSE},
         UNCHANGED <<ringVars, running, counters, issued, owner, writer, file>>
  PROVE  FlowInv'
<1> USE DEF ringVars, pushVars, popVars, counters
<1>1. Accepted' = Accepted /\ Popped' = Popped /\ (Live' <=> Live)
  BY DEF Accepted, Popped, Live
<1>2. FilePrefix' /\ RingHolds' /\ WrittenCounted'
  BY <1>1, RecordsStay
<1>3. healthy' \in BOOLEAN /\ (healthy' => healthy)
  <2>1. healthy \in BOOLEAN
    BY DEF FlowInv, JournalTypes
  <2>2. CASE healthy' = healthy
    BY <2>1, <2>2
  <2>3. CASE healthy' = FALSE
    BY <2>3
  <2> QED
    BY <2>2, <2>3
<1>4. JournalTypes'
  BY <1>3 DEF FlowInv, JournalTypes
<1>5. EventsNumbered'
  BY <1>3 DEF FlowInv, EventsNumbered
<1>6. RingKnown'
  BY <1>1 DEF FlowInv, RingKnown, Place
<1> QED
  BY <1>2, <1>4, <1>5, <1>6 DEF FlowInv

\* Every step keeps the invariant.
LEMMA FlowInvStep == FlowInv /\ [Next]_vars => FlowInv'
<1> SUFFICES ASSUME FlowInv, [Next]_vars PROVE FlowInv'
  OBVIOUS
<1>1. CASE EventDropped \/ EventBegin \/ OnEvent \/ CloseBegin \/ Close
  BY <1>1, EngineStep
<1>2. CASE Writer
  BY <1>2, WriterStep
<1>3. ASSUME NEW f \in Flushers, FlushBegin(f) \/ Flush(f)
      PROVE  FlowInv'
  BY <1>3, FlowKept DEF FlushBegin, Flush, FlushMark, waitUntilWritten,
                        FlushClear, SyncSucceeds, SyncFails
<1>4. ASSUME NEW p \in SyncPolicies, NEW n \in SyncCounts, setSyncPolicy(p, n)
      PROVE  FlowInv'
  BY <1>4, FlowKept DEF setSyncPolicy
<1>5. CASE UNCHANGED vars
  BY <1>5, FlowKept DEF vars, journalVars
<1> QED
  BY <1>1, <1>2, <1>3, <1>4, <1>5 DEF Next

\* The records flow in order through the ring into the file in every
\* behaviour of the journal.
LEMMA FlowInvariant == Spec => []FlowInv
  BY FlowInvInit, FlowInvStep, PTL DEF Spec

\* The producer writes a slot that the consumer is not reading, also when the
\* counters wrap (JournalRingBuffer's tryPush and tryPop).
THEOREM JournalSlotsSafe == Spec => []NoJournalSlotRace
<1>1. ASSUME FlowInv PROVE NoJournalSlotRace
  <2>1. SUFFICES ASSUME pushPc = "write", popPc = "read" 
                 PROVE  SlotOf(head) # SlotOf(tail)
    BY DEF NoJournalSlotRace
  <2>2. Live /\ Popped < Accepted /\ Accepted - Popped < Capacity
    BY <1>1, <2>1 DEF FlowInv, RingKnown, Live
  <2>3. Accepted \in Nat /\ Popped \in Nat
    BY <1>1, FlowFacts
  <2>4. SlotOf(head) = Place(Accepted + 1) /\ SlotOf(tail) = Place(Popped + 1)
    BY <1>1, <2>2, <2>3, Places DEF FlowInv, RingHolds
  <2>5. /\ Accepted + 1 \in Nat \ {0} /\ Popped + 1 \in Nat \ {0}
        /\ Popped + 1 < Accepted + 1
        /\ (Accepted + 1) - (Popped + 1) < Capacity
    BY <2>2, <2>3, JournalConstants
  <2> QED
    BY <2>4, <2>5, Places
<1> QED
  BY <1>1, FlowInvariant, PTL

-----------------------------------------------------------------------------
(* flush and sync *)

\* No step takes a complete record out of the file.
LEMMA CompleteGrows ==
  ASSUME FlowInv, [Next]_vars
  PROVE  /\ Len(Complete) \in Nat /\ Len(Complete') \in Nat
         /\ Len(Complete) <= Len(file) /\ Len(Complete) <= Len(Complete')
<1>0. FlowInv'
  BY FlowInvStep
<1>1. ASSUME FlowInv PROVE Len(Complete) \in Nat /\ Len(Complete) <= Len(file)
  <2>1. file \in Seq(Records \cup {Torn})
    BY <1>1 DEF FlowInv, JournalTypes
  <2>2. CASE file # <<>> /\ file[Len(file)] = Torn
    BY <2>1, <2>2 DEF Complete
  <2>3. CASE ~(file # <<>> /\ file[Len(file)] = Torn)
    BY <2>1, <2>3 DEF Complete
  <2> QED
    BY <2>2, <2>3
<1>2. Len(Complete) \in Nat /\ Len(Complete') \in Nat /\ Len(Complete) <= Len(file)
  BY <1>0, <1>1
<1>3. CASE file' = file
  BY <1>2, <1>3 DEF Complete
<1>4. CASE WriteRecord
  BY <1>2, <1>4, RecordWritten, FlowFacts
<1>5. CASE WriterWriteFails
  BY <1>2, <1>5, WriteFailed
<1>6. file' = file \/ WriteRecord \/ WriterWriteFails
  BY DEF Next, vars, journalVars, EventDropped, EventBegin, OnEvent, EventPush,
         EventCount, EventFull, Writer, WriterTest, WriterPop, WriterWrites,
         WriterSyncFails, WriterCount, WriterNotify, WriterFails, WriterExit,
         FlushBegin, Flush, FlushMark, waitUntilWritten, FlushClear,
         SyncSucceeds, SyncFails, setSyncPolicy, CloseBegin, Close, CloseNotify,
         CloseJoin
<1> QED
  BY <1>2, <1>3, <1>4, <1>5, <1>6

\* What a call knows, at the point pc.
CallKnows(c, pc) ==
    /\ pc \in {"mark", "test", "asleep"} => c.due <= c.target
    /\ pc \in {"clear", "fdatasync"} /\ c.ok => c.due <= Len(Complete)
    /\ pc = "fdatasync" => c.ok

CallPoints == {"idle", "mark", "test", "asleep", "clear", "fdatasync"}

\* Steps that go on with no call, but may wake some.
LEMMA CallsStay ==
  ASSUME FlowInv, FlushInv, [Next]_vars, caller' \in {caller, Woken},
         call' = call
  PROVE  FlushInv'
<1>1. caller' \in [Flushers -> CallPoints]
  BY DEF FlushInv, CallPoints, Woken
<1>2. ASSUME NEW f \in Flushers
      PROVE  caller'[f] = caller[f] \/ (caller[f] = "asleep" /\ caller'[f] = "test")
  BY DEF Woken
<1>3. ASSUME NEW f \in Flushers
      PROVE  CallKnows(call[f], caller[f])'
  <2>1. call[f].due \in Nat
    BY DEF FlushInv, Calls
  <2> QED
    BY <1>2, <2>1, CompleteGrows DEF FlushInv, CallKnows
<1> QED
  BY <1>1, <1>3 DEF FlushInv, CallKnows, CallPoints

\* Steps that take the call of thread f to a point w.
LEMMA CallMoves ==
  ASSUME FlowInv, FlushInv, [Next]_vars, NEW f \in Flushers,
         NEW w \in CallPoints, NEW c \in Calls, CallKnows(c, w),
         caller' = [caller EXCEPT ![f] = w] \/ caller' = [Woken EXCEPT ![f] = w],
         call' = [call EXCEPT ![f] = c]
  PROVE  FlushInv'
<1>1. caller' \in [Flushers -> CallPoints] /\ call' \in [Flushers -> Calls]
  BY DEF FlushInv, CallPoints, Woken
<1>2. ASSUME NEW g \in Flushers, g # f
      PROVE  /\ call'[g] = call[g]
             /\ caller'[g] = caller[g] \/ (caller[g] = "asleep" /\ caller'[g] = "test")
  BY <1>2 DEF Woken, FlushInv
<1>3. caller'[f] = w /\ call'[f] = c
  BY DEF Woken, FlushInv
<1>4. ASSUME NEW g \in Flushers, g # f
      PROVE  CallKnows(call[g], caller[g])'
  <2>1. call[g].due \in Nat
    BY DEF FlushInv, Calls
  <2> QED
    BY <1>2, <1>4, <2>1, CompleteGrows DEF FlushInv, CallKnows
<1>5. CallKnows(call[f], caller[f])'
  <2>1. c.due \in Nat
    BY DEF Calls
  <2> QED
    BY <1>3, <2>1, CompleteGrows DEF CallKnows
<1> QED
  BY <1>1, <1>4, <1>5 DEF FlushInv, CallKnows, CallPoints

\* What a flush of a healthy journal waits for.
LEMMA ReturnedQueued ==
  ASSUME FlowInv
  PROVE  Returned \in Nat /\ (healthy => Returned = queued)
  BY DEF FlowInv, JournalTypes, EventsNumbered, Returned, Pushing

\* Every step keeps the invariant.
LEMMA FlushInvStep == FlowInv /\ FlushInv /\ [Next]_vars => FlushInv'
<1> SUFFICES ASSUME FlowInv, FlushInv, [Next]_vars PROVE FlushInv'
  OBVIOUS
<1>0. /\ Len(Complete) \in Nat /\ written <= Len(Complete)
      /\ written \in Nat /\ queued \in Nat /\ healthy \in BOOLEAN
  BY CompleteGrows DEF FlowInv, WrittenCounted, JournalTypes
<1>1. CASE \/ EventDropped \/ EventBegin \/ OnEvent \/ CloseBegin \/ Close
           \/ Writer \/ (\E p \in SyncPolicies, n \in SyncCounts : setSyncPolicy(p, n))
           \/ UNCHANGED vars
  <2>1. caller' \in {caller, Woken} /\ call' = call
    BY <1>1 DEF EventDropped, EventBegin, OnEvent, EventPush, EventCount,
         EventFull, Writer, WriterTest, WriterPop, WriterWrites,
         WriterSyncFails, WriterWriteFails, WriterCount, WriterNotify,
         WriterFails, WriterExit, setSyncPolicy, CloseBegin, Close,
         CloseNotify, CloseJoin, vars, journalVars, flushVars, notifyFlush
  <2> QED
    BY <2>1, CallsStay
<1>2. ASSUME NEW f \in Flushers, FlushBegin(f) \/ Flush(f)
      PROVE  FlushInv'
  <2>0. /\ call[f] \in Calls /\ CallKnows(call[f], caller[f]) /\ NoCall \in Calls
        /\ NoCall.ok = FALSE
    BY DEF FlushInv, CallKnows, NoCall, Calls
  <2>1. ASSUME NEW c \in Calls, NEW ok \in BOOLEAN, FlushEnds(f, c, ok),
               ok => c.ok /\ c.due <= Len(Complete)
        PROVE  FlushInv'
    <3>1. CASE ok /\ f \in Syncers
      <4> DEFINE d == [c EXCEPT !.target = 0]
      <4>1. d \in Calls /\ d.due = c.due /\ d.ok = c.ok
        BY DEF Calls
      <4>2. /\ caller' = [caller EXCEPT ![f] = "fdatasync"]
            /\ call' = [call EXCEPT ![f] = d]
        BY <2>1, <3>1 DEF FlushEnds
      <4> HIDE DEF d
      <4>3. CallKnows(d, "fdatasync") /\ "fdatasync" \in CallPoints
        BY <2>1, <3>1, <4>1 DEF CallKnows, CallPoints
      <4> QED
        BY <4>1, <4>2, <4>3, CallMoves
    <3>2. CASE ~(ok /\ f \in Syncers)
      <4>1. /\ caller' = [caller EXCEPT ![f] = "idle"]
            /\ call' = [call EXCEPT ![f] = NoCall]
        BY <2>1, <3>2 DEF FlushEnds
      <4>2. CallKnows(NoCall, "idle") /\ "idle" \in CallPoints
        BY DEF CallKnows, CallPoints
      <4> QED
        BY <2>0, <4>1, <4>2, CallMoves
    <3> QED
      BY <3>1, <3>2
  <2>2. CASE FlushBegin(f)
    <3> DEFINE c == [target |-> queued, due |-> Returned, ok |-> FALSE]
               d == [c EXCEPT !.ok = healthy]
    <3>1. /\ c \in Calls /\ c.due = Returned /\ c.target = queued
          /\ d \in Calls /\ d.due = Returned /\ d.ok = healthy
      BY <1>0, ReturnedQueued DEF Calls
    <3>2. \/ (written >= queued \/ ~healthy) /\ FlushEnds(f, d, healthy)
          \/ /\ healthy
             /\ call' = [call EXCEPT ![f] = c]
             /\ caller' = [caller EXCEPT ![f] = "mark"]
      BY <2>2 DEF FlushBegin
    <3> HIDE DEF c, d
    <3>3. CASE (written >= queued \/ ~healthy) /\ FlushEnds(f, d, healthy)
      <4>1. healthy => d.ok /\ d.due <= Len(Complete)
        BY <1>0, <3>1, <3>3, ReturnedQueued
      <4> QED
        BY <1>0, <2>1, <3>1, <3>3, <4>1
    <3>4. CASE /\ healthy
               /\ call' = [call EXCEPT ![f] = c]
               /\ caller' = [caller EXCEPT ![f] = "mark"]
      <4>1. CallKnows(c, "mark") /\ "mark" \in CallPoints
        BY <1>0, <3>1, <3>4, ReturnedQueued DEF CallKnows, CallPoints
      <4> QED
        BY <3>1, <3>4, <4>1, CallMoves
    <3> QED
      BY <3>2, <3>3, <3>4
  <2>3. CASE FlushMark(f)
    <3>1. /\ caller' = [caller EXCEPT ![f] = "test"]
          /\ call' = [call EXCEPT ![f] = call[f]] /\ caller[f] = "mark"
      BY <2>3 DEF FlushMark, FlushInv
    <3>2. CallKnows(call[f], "test") /\ "test" \in CallPoints
      BY <2>0, <3>1 DEF CallKnows, CallPoints
    <3> QED
      BY <2>0, <3>1, <3>2, CallMoves
  <2>4. CASE waitUntilWritten(f)
    <3>1. CASE written >= call[f].target \/ ~healthy \/ ~running
      <4> DEFINE ok == healthy /\ written >= call[f].target
                 c == [call[f] EXCEPT !.ok = ok]
      <4>1. /\ c \in Calls /\ c.due = call[f].due /\ c.ok = ok
            /\ c.due \in Nat /\ call[f].target \in Nat
        BY <2>0 DEF Calls
      <4>2. /\ caller' = [caller EXCEPT ![f] = "clear"]
            /\ call' = [call EXCEPT ![f] = c]
        BY <2>4, <3>1 DEF waitUntilWritten, FlushInv
      <4>3. call[f].due <= call[f].target
        BY <2>0, <2>4 DEF waitUntilWritten, CallKnows
      <4>4. c.ok => c.due <= Len(Complete)
        <5>1. c.ok => written >= call[f].target
          BY <4>1, Zenon
        <5> HIDE DEF c, ok
        <5> QED
          BY <1>0, <4>1, <4>3, <5>1
      <4> HIDE DEF c, ok
      <4>5. CallKnows(c, "clear") /\ "clear" \in CallPoints
        BY <4>4 DEF CallKnows, CallPoints
      <4> QED
        BY <4>1, <4>2, <4>5, CallMoves
    <3>2. CASE ~(written >= call[f].target \/ ~healthy \/ ~running)
      <4>1. /\ caller' = [caller EXCEPT ![f] = "asleep"] /\ caller[f] = "test"
            /\ call' = [call EXCEPT ![f] = call[f]]
        BY <2>4, <3>2 DEF waitUntilWritten, FlushInv
      <4>2. CallKnows(call[f], "asleep") /\ "asleep" \in CallPoints
        BY <2>0, <4>1 DEF CallKnows, CallPoints
      <4> QED
        BY <2>0, <4>1, <4>2, CallMoves
    <3> QED
      BY <3>1, <3>2
  <2>5. CASE FlushClear(f)
    <3>1. FlushEnds(f, call[f], call[f].ok) /\ call[f].ok \in BOOLEAN
      BY <2>0, <2>5 DEF FlushClear, Calls
    <3>2. call[f].ok => call[f].due <= Len(Complete)
      BY <2>0, <2>5 DEF FlushClear, CallKnows
    <3> QED
      BY <2>0, <2>1, <3>1, <3>2
  <2>6. CASE SyncSucceeds(f) \/ SyncFails(f)
    <3>1. /\ \/ caller' = [caller EXCEPT ![f] = "idle"]
             \/ caller' = [Woken EXCEPT ![f] = "idle"]
          /\ call' = [call EXCEPT ![f] = NoCall]
      BY <2>6 DEF SyncSucceeds, SyncFails
    <3>2. CallKnows(NoCall, "idle") /\ "idle" \in CallPoints
      BY DEF CallKnows, CallPoints
    <3> QED
      BY <2>0, <3>1, <3>2, CallMoves
  <2> QED
    BY <1>2, <2>2, <2>3, <2>4, <2>5, <2>6 DEF Flush
<1> QED
  BY <1>1, <1>2 DEF Next

\* No call has begun.
LEMMA FlushInvInit == Init => FlushInv
<1> SUFFICES ASSUME Init PROVE FlushInv
  OBVIOUS
<1>1. NoCall \in Calls
  BY DEF NoCall, Calls
<1> QED
  BY <1>1 DEF Init, FlushInv

\* What a call to flush or sync knows holds in every behaviour.
LEMMA FlushInvariant == Spec => []FlushInv
  BY FlushInvInit, FlushInvStep, FlowInvariant, PTL DEF Spec

\* A flush that returns true has put every event whose onEvent returned before
\* it began into the file.
THEOREM FlushTellsTruth == Spec => []FlushHonest
<1>1. ASSUME FlowInv, FlushInv PROVE FlushHonest
  <2>1. ASSUME written >= queued, healthy PROVE Returned <= Len(Complete)
    <3>1. Len(Complete) \in Nat
      BY <1>1, CompleteGrows
    <3> QED
      BY <1>1, <2>1, <3>1, ReturnedQueued
         DEF FlowInv, WrittenCounted, JournalTypes
  <2> QED
    BY <1>1, <2>1 DEF FlushHonest, FlushInv
<1> QED
  BY <1>1, FlowInvariant, FlushInvariant, PTL

\* A sync of a healthy journal has made the same events durable when it
\* returns.
THEOREM SyncTellsTruth == Spec => SyncHonest
<1> DEFINE Honest == \A f \in Flushers :
                         caller[f] = "fdatasync" /\ caller'[f] = "idle" /\ healthy'
                             => call[f].due <= synced'
<1>1. ASSUME FlowInv, FlushInv, [Next]_vars PROVE Honest
  <2> SUFFICES ASSUME NEW f \in Flushers, caller[f] = "fdatasync",
                      caller'[f] = "idle", healthy'
               PROVE  call[f].due <= synced'
    OBVIOUS
  <2>1. caller \in [Flushers -> CallPoints] /\ Woken \in [Flushers -> CallPoints]
    BY <1>1 DEF FlushInv, CallPoints, Woken
  <2>2. Woken[f] = "fdatasync"
    BY DEF Woken
  <2>3. caller' # caller /\ caller' # Woken
    BY <2>2
  <2>4. PICK g \in Flushers : FlushBegin(g) \/ Flush(g)
    BY <1>1, <2>3
       DEF Next, EventDropped, EventBegin, OnEvent, EventPush, EventCount,
         EventFull, Writer, WriterTest, WriterPop, WriterWrites,
         WriterSyncFails, WriterWriteFails, WriterCount, WriterNotify,
         WriterFails, WriterExit, setSyncPolicy, CloseBegin, Close,
         CloseNotify, CloseJoin, vars, journalVars, flushVars, notifyFlush
  <2>5. g = f
    BY <2>1, <2>2, <2>4
       DEF FlushBegin, FlushEnds, Flush, FlushMark, waitUntilWritten,
           FlushClear, SyncSucceeds, SyncFails
  <2>6. SyncSucceeds(f) \/ SyncFails(f)
    BY <2>4, <2>5 DEF FlushBegin, Flush, FlushMark, waitUntilWritten, FlushClear
  <2>7. synced' = Len(file)
    BY <2>6 DEF SyncSucceeds, SyncFails
  <2>8. call[f].due <= Len(Complete) /\ call[f].due \in Nat
    BY <1>1 DEF FlushInv, Calls
  <2> QED
    BY <1>1, <2>7, <2>8, CompleteGrows, FlowFacts
<1>2. FlowInv /\ FlushInv /\ [Next]_vars => [Honest]_vars
  BY <1>1
<1> QED
  BY <1>2, FlowInvariant, FlushInvariant, PTL DEF Spec, SyncHonest

-----------------------------------------------------------------------------
(* What a crash loses *)

\* Every step keeps the invariant.
LEMMA SyncInvStep == FlowInv /\ SyncInv /\ [Next]_vars => SyncInv'
<1> SUFFICES ASSUME FlowInv, SyncInv, [Next]_vars PROVE SyncInv'
  OBVIOUS
<1>0. FlowInv' /\ Len(file) \in Nat /\ Len(file') \in Nat
  BY FlowInvStep, FlowFacts
<1>1. /\ Len(Complete) \in Nat /\ Len(Complete) <= Len(file)
      /\ syncEvery \in Nat \ {0}
  BY CompleteGrows, JournalConstants DEF SyncInv
<1>2. ASSUME UNCHANGED <<policy, syncEvery, since, carried, file>>,
             synced' \in {synced, Len(file)},
             writer' # "fail" /\ healthy' => writer # "fail" /\ healthy
      PROVE  SyncInv'
  <2>1. Complete' = Complete
    BY <1>2 DEF Complete
  <2>2. synced' \in 0 .. Len(file) /\ synced <= synced'
    BY <1>0, <1>2 DEF SyncInv
  <2>3. policy' # "MANUAL" => Len(Complete') - synced' - carried' <= since'
    BY <1>1, <1>2, <2>1, <2>2 DEF SyncInv
  <2> QED
    BY <1>2, <2>2, <2>3 DEF SyncInv
<1>3. CASE WriterWrites
  <2>1. Complete' = file' /\ Complete = file /\ Len(file') = Len(file) + 1
    BY <1>3, RecordWritten DEF WriterWrites
  <2>2. CASE MustSync
    BY <1>0, <1>1, <1>3, <2>1, <2>2 DEF WriterWrites, SyncInv
  <2>3. CASE ~MustSync
    BY <1>0, <1>1, <1>3, <2>1, <2>3 DEF WriterWrites, SyncInv, MustSync
  <2> QED
    BY <2>2, <2>3
<1>4. CASE WriterSyncFails
  <2>1. Complete' = file' /\ Complete = file /\ Len(file') = Len(file) + 1
    BY <1>4, RecordWritten DEF WriterSyncFails
  <2> QED
    BY <1>0, <1>1, <1>4, <2>1 DEF WriterSyncFails, SyncInv
<1>5. CASE WriterWriteFails
  <2>1. Complete' = Complete /\ Complete = file
    BY <1>5, WriteFailed
  <2>2. Len(file) <= Len(file')
    <3>1. file \in Seq(Records \cup {Torn}) /\ file' \in {file, Append(file, Torn)}
      BY <1>5 DEF FlowInv, JournalTypes, WriterWriteFails
    <3> QED
      BY <3>1
  <2> QED
    BY <1>0, <1>1, <1>5, <2>1, <2>2 DEF WriterWriteFails, syncVars, SyncInv
<1>6. ASSUME NEW f \in Flushers, SyncSucceeds(f)
      PROVE  SyncInv'
  <2>1. Complete' = Complete
    BY <1>6 DEF SyncSucceeds, Complete
  <2> QED
    BY <1>0, <1>1, <1>6, <2>1 DEF SyncSucceeds, SyncInv
<1>7. ASSUME NEW p \in SyncPolicies, NEW n \in SyncCounts, setSyncPolicy(p, n)
      PROVE  SyncInv'
  <2>1. Complete' = Complete
    BY <1>7 DEF setSyncPolicy, Complete
  <2>2. p \in {"MANUAL", "PER_RECORD", "PER_N_RECORDS"} /\ n \in Nat
    BY JournalAssumption
  <2> QED
    BY <1>0, <1>1, <1>7, <2>1, <2>2 DEF setSyncPolicy, SyncInv
<1>8. CASE \/ EventDropped \/ EventBegin \/ OnEvent \/ CloseBegin \/ Close
           \/ WriterTest \/ WriterPop \/ WriterCount \/ WriterNotify
           \/ WriterFails \/ WriterExit \/ UNCHANGED vars
  <2>1. /\ UNCHANGED <<policy, syncEvery, since, carried, file>>
        /\ synced' \in {synced, Len(file)}
    BY <1>8 DEF EventDropped, EventBegin, OnEvent, EventPush, EventCount,
         EventFull, WriterTest, WriterPop, WriterCount, WriterNotify,
         WriterFails, WriterExit, CloseBegin, Close, CloseNotify, CloseJoin,
         syncVars, vars, journalVars
  <2>2. writer' # "fail" /\ healthy' => writer # "fail" /\ healthy
    BY <1>8 DEF EventDropped, EventBegin, OnEvent, EventPush, EventCount,
         EventFull, WriterTest, WriterPop, WriterCount, WriterNotify,
         WriterFails, WriterExit, CloseBegin, Close, CloseNotify, CloseJoin,
         notifyQueue, vars, journalVars
  <2> QED
    BY <1>2, <2>1, <2>2
<1>9. ASSUME NEW f \in Flushers,
             \/ FlushBegin(f) \/ FlushMark(f) \/ waitUntilWritten(f)
             \/ FlushClear(f) \/ SyncFails(f)
      PROVE  SyncInv'
  <2>1. /\ UNCHANGED <<policy, syncEvery, since, carried, file>> /\ synced' = synced
        /\ writer' # "fail" /\ healthy' => writer # "fail" /\ healthy
    BY <1>9 DEF FlushBegin, FlushMark, waitUntilWritten, FlushClear, SyncFails,
                syncVars
  <2> QED
    BY <1>2, <2>1
<1> QED
  BY <1>3, <1>4, <1>5, <1>6, <1>7, <1>8, <1>9 DEF Next, Writer, Flush

\* Nothing is written and the policy is MANUAL.
LEMMA SyncInvInit == Init => SyncInv
  BY JournalConstants DEF Init, SyncInv, Complete

\* The count of unsynced records is right in every behaviour.
LEMMA SyncInvariant == Spec => []SyncInv
  BY SyncInvInit, SyncInvStep, FlowInvariant, PTL DEF Spec

\* A crash of a healthy journal loses at most sync_every_n_ - 1 of the records
\* written since PER_N_RECORDS was set, and none under PER_RECORD, whatever
\* policies were set before (writeSerialized, setSyncPolicy).
THEOREM CrashLossBounded == Spec => []LossBounded
<1>1. ASSUME FlowInv, SyncInv PROVE LossBounded
  <2>1. Len(Complete) \in Nat /\ synced \in Int /\ carried \in Nat /\ since \in Nat
    BY <1>1, CompleteGrows, FlowFacts DEF SyncInv
  <2> QED
    BY <1>1, <2>1, JournalConstants DEF SyncInv, LossBounded
<1> QED
  BY <1>1, FlowInvariant, SyncInvariant, PTL

-----------------------------------------------------------------------------
(* The destructor *)

\* A writer that finds the ring empty has written all that was accepted.
LEMMA WriterLeaves ==
  ASSUME FlowInv, writer = "test", empty, ~running, healthy
  PROVE  owner \in Closing /\ file = [n \in 1 .. issued |-> n]
<1>1. Live /\ Popped = Len(file)
  BY DEF Live, Popped
<1>2. owner \in Closing /\ owner \notin Pushing
  BY DEF FlowInv, EventsNumbered, Closing, Pushing
<1>3. Accepted = issued
  BY <1>2 DEF FlowInv, EventsNumbered, Accepted, Pushing
<1>4. Len(file) = issued
  BY <1>1, <1>3, FlowFacts
<1>5. \A n \in 1 .. Len(file) : file[n] = n
  BY <1>1 DEF FlowInv, FilePrefix
<1>6. file \in Seq(Records \cup {Torn})
  BY DEF FlowInv, JournalTypes
<1> QED
  BY <1>2, <1>4, <1>5, <1>6

\* Every step keeps the invariant.
LEMMA ExitInvStep == FlowInv /\ ExitInv /\ [Next]_vars => ExitInv'
<1> SUFFICES ASSUME FlowInv, ExitInv, [Next]_vars PROVE ExitInv'
  OBVIOUS
<1> USE DEF ExitInv, Closing
<1>1. CASE EventDropped \/ EventBegin \/ OnEvent
  BY <1>1 DEF EventDropped, EventBegin, OnEvent, EventPush, EventCount,
              EventFull, notifyQueue
<1>2. CASE CloseBegin \/ Close
  BY <1>2 DEF CloseBegin, Close, CloseNotify, CloseJoin, notifyQueue
<1>3. CASE WriterTest
  <2>1. writer' = "exit" => empty /\ ~running
    BY <1>3 DEF WriterTest
  <2> QED
    BY <1>3, <2>1, WriterLeaves DEF WriterTest
<1>4. CASE \/ WriterPop \/ WriterWrites \/ WriterSyncFails \/ WriterWriteFails
           \/ WriterCount \/ WriterNotify \/ WriterFails \/ WriterExit
  BY <1>4 DEF WriterPop, WriterWrites, WriterSyncFails, WriterWriteFails,
              WriteRecord, WriterCount, WriterNotify, WriterFails, WriterExit
<1>5. ASSUME NEW f \in Flushers, FlushBegin(f) \/ Flush(f)
      PROVE  ExitInv'
  BY <1>5 DEF FlushBegin, Flush, FlushMark, waitUntilWritten, FlushClear,
              SyncSucceeds, SyncFails
<1>6. ASSUME NEW p \in SyncPolicies, NEW n \in SyncCounts, setSyncPolicy(p, n)
      PROVE  ExitInv'
  BY <1>6 DEF setSyncPolicy
<1>7. CASE UNCHANGED vars
  BY <1>7 DEF vars, journalVars
<1> QED
  BY <1>1, <1>2, <1>3, <1>4, <1>5, <1>6, <1>7 DEF Next, Writer

\* A journal that is destroyed while healthy has written every event.
THEOREM DestructorDrains == Spec => []CloseDrains
<1>1. Init => ExitInv
  BY DEF Init, ExitInv
<1>2. ExitInv => CloseDrains
  BY DEF ExitInv, CloseDrains
<1> QED
  BY <1>1, <1>2, ExitInvStep, FlowInvariant, PTL DEF Spec

-----------------------------------------------------------------------------
(* The journal implements DurableLog *)

\* The n numbers after m.
After(m, n) == [k \in 1 .. n |-> m + k]

Pending == After(Len(Complete), Accepted - Len(Complete))

Dropped == Settled > Accepted

logState == <<Settled, Pending, Complete, Dropped>>

\* Sequences of consecutive numbers that grow at the end and at the front.
LEMMA Consecutive ==
  ASSUME NEW m \in Nat, NEW n \in Nat
  PROVE  /\ After(m, n + 1) = Append(After(m, n), m + n + 1)
         /\ After(m, n + 1) # <<>>
         /\ Head(After(m, n + 1)) = m + 1
         /\ Tail(After(m, n + 1)) = After(m + 1, n)
<1> DEFINE s == After(m, n)
           t == After(m, n + 1)
           u == After(m + 1, n)
<1> USE DEF After
<1>1. s \in Seq(Nat) /\ t \in Seq(Nat) /\ u \in Seq(Nat)
  OBVIOUS
<1>2. Len(s) = n /\ Len(t) = n + 1 /\ Len(u) = n
  OBVIOUS
<1>3. \A k \in 1 .. n : s[k] = m + k /\ u[k] = (m + 1) + k
  OBVIOUS
<1>4. \A k \in 1 .. n + 1 : t[k] = m + k
  OBVIOUS
<1> HIDE DEF s, t, u, After
<1>5. t = Append(s, m + n + 1)
  BY <1>1, <1>2, <1>3, <1>4
<1>6. Head(t) = m + 1 /\ t # <<>>
  BY <1>1, <1>2, <1>4
<1>7. Tail(t) = u
  <2>1. Tail(t) \in Seq(Nat) /\ Len(Tail(t)) = n
    BY <1>1, <1>2, <1>6
  <2>2. ASSUME NEW k \in 1 .. n
        PROVE  Tail(t)[k] = u[k]
    <3>1. k + 1 \in 1 .. n + 1 /\ m + (k + 1) = (m + 1) + k
      OBVIOUS
    <3>2. Tail(t)[k] = t[k + 1]
      BY <1>1, <1>2, <1>6, <3>1
    <3> QED
      BY <1>3, <1>4, <3>1, <3>2
  <2> QED
    BY <1>1, <1>2, <2>1, <2>2
<1> QED
  BY <1>1, <1>5, <1>6, <1>7 DEF s, t, u

\* A record is issued when the ring has taken or refused it, or when it is
\* dropped; it is written when the file has the whole of it.
LEMMA JournalStepIsLogStep ==
  ASSUME FlowInv, [Next]_vars
  PROVE  \/ /\ ~Dropped /\ Settled < MaxRecords
            /\ Settled' = Settled + 1
            /\ Pending' = Append(Pending, Settled + 1)
            /\ Complete' = Complete /\ Dropped' = Dropped
         \/ /\ Settled < MaxRecords /\ Settled' = Settled + 1
            /\ Dropped' = TRUE
            /\ Pending' = Pending /\ Complete' = Complete
         \/ /\ Pending # <<>>
            /\ Complete' = Append(Complete, Head(Pending))
            /\ Pending' = Tail(Pending)
            /\ Settled' = Settled /\ Dropped' = Dropped
         \/ UNCHANGED logState
<1> USE JournalConstants
<1>0. /\ JournalTypes /\ EventsNumbered /\ Accepted \in Nat /\ issued \in Nat
      /\ issued <= MaxRecords /\ Len(Complete) \in Nat
      /\ Len(Complete) <= Accepted /\ queued \in Nat
  BY FlowFacts, CompleteGrows DEF FlowInv, WrittenCounted, JournalTypes
<1>1. CASE EventDropped
  <2>1. /\ Settled = issued /\ Settled' = Settled + 1 /\ Accepted' = Accepted
        /\ Complete' = Complete /\ Settled < MaxRecords /\ Accepted <= Settled
    BY <1>0, <1>1 DEF EventDropped, Settled, Accepted, Complete, counters,
                      EventsNumbered, Pushing
  <2>2. Dropped' = TRUE /\ Pending' = Pending
    BY <1>0, <2>1 DEF Dropped, Pending
  <2> QED
    BY <2>1, <2>2
<1>2. CASE EventFull
  <2>1. /\ Settled = issued - 1 /\ Settled' = issued /\ Accepted' = Accepted
        /\ Accepted = issued - 1 /\ Complete' = Complete
    BY <1>0, <1>2, FlowFacts
       DEF EventFull, Settled, Accepted, Complete, counters
  <2>2. Dropped' = TRUE /\ Pending' = Pending
    BY <1>0, <2>1 DEF Dropped, Pending
  <2>3. Settled < MaxRecords /\ Settled' = Settled + 1
    BY <1>0, <2>1
  <2> QED
    BY <2>1, <2>2, <2>3
<1>3. CASE EventPush /\ PushPublish /\ owner' = "count"
  <2>1. /\ Settled = issued - 1 /\ Settled' = issued /\ Accepted' = Accepted + 1
        /\ Accepted = issued - 1 /\ Complete' = Complete
    BY <1>0, <1>3, FlowFacts
       DEF EventPush, Settled, Accepted, Complete, counters
  <2>2. Dropped = FALSE /\ Dropped' = FALSE
    BY <1>0, <2>1 DEF Dropped
  <2>3. Pending' = Append(Pending, Settled + 1)
    <3> DEFINE m == Len(Complete)
               n == Accepted - Len(Complete)
    <3>1. m \in Nat /\ n \in Nat /\ m + n + 1 = Settled + 1
      BY <1>0, <2>1
    <3>2. Len(Complete') = m /\ Accepted' - m = n + 1
      BY <1>0, <2>1
    <3>3. Pending = After(m, n) /\ Pending' = After(m, n + 1)
      BY <3>2 DEF Pending
    <3> HIDE DEF m, n
    <3>4. After(m, n + 1) = Append(After(m, n), m + n + 1)
      BY <3>1, Consecutive
    <3> QED
      BY <3>1, <3>3, <3>4, Zenon
  <2>4. Settled < MaxRecords /\ Settled' = Settled + 1
    BY <1>0, <2>1
  <2> QED
    BY <2>1, <2>2, <2>3, <2>4
<1>4. CASE WriterWrites \/ WriterSyncFails
  <2>1. WriteRecord
    BY <1>4 DEF WriterWrites, WriterSyncFails
  <2>2. /\ Complete' = Append(Complete, Len(Complete) + 1)
        /\ Len(Complete') = Len(Complete) + 1 /\ Len(Complete') <= Accepted
    BY <2>1, RecordWritten
  <2>3. Settled' = Settled /\ Accepted' = Accepted
    BY <1>4 DEF WriterWrites, WriterSyncFails, counters, Settled, Accepted
  <2>4. Dropped' = Dropped
    BY <2>3 DEF Dropped
  <2>5. /\ Pending # <<>> /\ Head(Pending) = Len(Complete) + 1
        /\ Pending' = Tail(Pending)
    <3> DEFINE m == Len(Complete)
               n == Accepted - Len(Complete) - 1
    <3>1. m \in Nat /\ n \in Nat /\ Accepted - m = n + 1
      BY <1>0, <2>2
    <3>2. Len(Complete') = m + 1 /\ Accepted' - Len(Complete') = n
      BY <1>0, <2>2, <2>3
    <3>3. Pending = After(m, n + 1) /\ Pending' = After(m + 1, n)
      BY <3>1, <3>2 DEF Pending
    <3> HIDE DEF m, n
    <3>4. /\ After(m, n + 1) # <<>> /\ Head(After(m, n + 1)) = m + 1
          /\ Tail(After(m, n + 1)) = After(m + 1, n)
      BY <3>1, Consecutive
    <3>5. /\ Pending # <<>> /\ Head(Pending) = m + 1
          /\ Pending' = Tail(Pending)
      BY <3>3, <3>4, Zenon
    <3> QED
      BY <3>5 DEF m
  <2> QED
    BY <2>2, <2>3, <2>4, <2>5
<1>5. ASSUME UNCHANGED <<Settled, Accepted, Complete>>
      PROVE  UNCHANGED logState
  BY <1>5 DEF logState, Pending, Dropped
<1>6. CASE WriterWriteFails
  <2>1. UNCHANGED <<Settled, Accepted, Complete>>
    BY <1>6, WriteFailed DEF WriterWriteFails, counters, Settled, Accepted
  <2> QED
    BY <1>5, <2>1
<1>7. CASE \/ EventBegin \/ (EventPush /\ owner' # "count") \/ EventCount
           \/ CloseBegin \/ Close
  <2>1. UNCHANGED <<Settled, Accepted, Complete>>
    BY <1>0, <1>7 DEF EventBegin, EventPush, EventCount, CloseBegin, Close,
         CloseNotify, CloseJoin, counters, Settled, Accepted, Complete
  <2> QED
    BY <1>5, <2>1
<1>8. CASE \/ WriterTest \/ WriterPop \/ WriterCount \/ WriterNotify
           \/ WriterFails \/ WriterExit \/ UNCHANGED vars
           \/ (\E p \in SyncPolicies, n \in SyncCounts : setSyncPolicy(p, n))
           \/ (\E f \in Flushers : FlushBegin(f) \/ Flush(f))
  <2>1. UNCHANGED <<owner, issued, queued, file>>
    BY <1>8 DEF WriterTest, WriterPop, WriterCount, WriterNotify,
         WriterFails, WriterExit, setSyncPolicy, FlushBegin, Flush, FlushMark,
         waitUntilWritten, FlushClear, SyncSucceeds, SyncFails, counters, vars,
         journalVars
  <2>2. UNCHANGED <<Settled, Accepted, Complete>>
    BY <2>1 DEF Settled, Accepted, Complete
  <2> QED
    BY <1>5, <2>2
<1>9. EventPush => (PushPublish /\ owner' = "count") \/ owner' # "count"
  BY DEF EventPush
<1> QED
  BY <1>1, <1>2, <1>3, <1>4, <1>6, <1>7, <1>8, <1>9 DEF Next, OnEvent, Writer

\* The file is at every moment a prefix of the events handed to onEvent, and
\* what was accepted is never lost while the journal runs: the journal
\* implements DurableLog.
THEOREM JournalImplementsLog == Spec => JournalIsLog
<1>1. Init => Log!Init
  <2> SUFFICES ASSUME Init PROVE Log!Init
    OBVIOUS
  <2>1. Settled = 0 /\ Accepted = 0 /\ Complete = <<>>
    BY DEF Init, Settled, Accepted, Complete
  <2>2. Pending = <<>> /\ Dropped = FALSE
    BY <2>1 DEF Pending, After, Dropped
  <2> QED
    BY <2>1, <2>2 DEF Log!Init, Pending, After, Dropped
<1>2. ASSUME FlowInv, [Next]_vars PROVE [Log!Next]_logState
  BY <1>2, JournalStepIsLogStep
     DEF Log!Next, Log!Accept, Log!Drop, Log!Write, Pending, After, Dropped
<1>3. FlowInv /\ [Next]_vars
      => [Log!Next]_<<Settled,
                      [k \in 1 .. Accepted - Len(Complete) |-> Len(Complete) + k],
                      Complete, Settled > Accepted>>
  BY <1>2 DEF logState, Pending, After, Dropped
<1> QED
  BY <1>1, <1>3, FlowInvariant, PTL DEF Spec, JournalIsLog, Log!Spec, Log!logVars
=============================================================================
