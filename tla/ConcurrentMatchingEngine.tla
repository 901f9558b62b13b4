----------------------- MODULE ConcurrentMatchingEngine -----------------------
(***************************************************************************)
(* src/ConcurrentMatchingEngine.cpp: a producer thread hands orders to the *)
(* engine through the RingBuffer, a consumer thread pops and processes     *)
(* them, and controller threads start and stop the consumer.               *)
(*                                                                         *)
(* processOrder is MatchingEngine's; here it either returns or throws.     *)
(* The atomics are sequentially consistent steps.  stop called from the    *)
(* consumer thread itself is left out: processOrder calls nothing back,    *)
(* the engine's publisher being out of reach of the owner.                 *)
(***************************************************************************)
EXTENDS RingBuffer

CONSTANTS Controllers,  \* threads that call start and stop
          PolicySet,    \* backpressure policies chosen from
          Numbered,     \* the orders submitted are 1, 2, ... in turn
          MaxAccepted,  \* bound: orders accepted in a behaviour
          MaxDropped    \* bound: orders dropped in a behaviour

ASSUME ConcurrentAssumption ==
    /\ "none" \notin Controllers
    /\ PolicySet \subseteq {"REJECT", "BLOCK", "DROP"}
    /\ "REJECT" \in PolicySet
    /\ Numbered \in BOOLEAN
    /\ MaxAccepted \in Nat
    /\ MaxDropped \in Nat

VARIABLES running,     \* running_
          policy,      \* policy_
          lock,        \* holder of start_stop_mutex_, or "none"
          control,     \* control[c]: where controller c is
          consumer,    \* consumer_thread_ and where it is
          producer,    \* where submitOrder is
          order,       \* the argument of submitOrder
          chosen,      \* the policy submitOrder switches on
          processed,   \* processed_count_
          dropped,     \* dropped_count_
          terminated,  \* std::terminate was called
          accepted,    \* ghost: orders in the order they entered the ring
          handled,     \* ghost: orders given to processOrder, in order
          due          \* ghost: due[c]: orders accepted when c's stop began

countVars == <<processed, dropped>>
vars == <<ringVars, running, policy, lock, control, consumer, producer, order, chosen,
          countVars, terminated, accepted, handled, due>>

\* consumer_thread_ is joinable: it has run and was not joined since.
Joinable == consumer # "none"

-----------------------------------------------------------------------------
(* start and stop, by a controller c holding the mutex *)

Lock(c, place) ==
    /\ control[c] = "idle"
    /\ lock = "none"
    /\ lock' = c
    /\ control' = [control EXCEPT ![c] = place]
    /\ UNCHANGED <<ringVars, running, policy, consumer, producer, order, chosen,
                   countVars, terminated, accepted, handled, due>>

Unlock(c) ==
    /\ lock' = "none"
    /\ control' = [control EXCEPT ![c] = "idle"]

\* compare_exchange succeeds, and assigning to a joinable std::thread
\* terminates the program.
Start(c) ==
    /\ control[c] = "start"
    /\ IF running
       THEN UNCHANGED <<running, consumer, terminated>>
       ELSE /\ running' = TRUE
            /\ consumer' = "check"
            /\ terminated' = Joinable
    /\ Unlock(c)
    /\ UNCHANGED <<ringVars, policy, producer, order, chosen, countVars, accepted,
                   handled, due>>

\* compare_exchange fails: never started, or already stopped.
StopNothing(c) ==
    /\ control[c] = "stop"
    /\ ~running
    /\ Unlock(c)
    /\ UNCHANGED <<ringVars, running, policy, consumer, producer, order, chosen,
                   countVars, terminated, accepted, handled, due>>

StopBegin(c) ==
    /\ control[c] = "stop"
    /\ running
    /\ running' = FALSE
    /\ control' = [control EXCEPT ![c] = "join"]
    /\ due' = [due EXCEPT ![c] = Len(accepted)]
    /\ UNCHANGED <<ringVars, policy, lock, consumer, producer, order, chosen,
                   countVars, terminated, accepted, handled>>

\* Mutant of Join: stop returns without waiting for the thread.
MutJoinNothing(c) ==
    /\ control[c] = "join"
    /\ Unlock(c)
    /\ UNCHANGED <<ringVars, running, policy, consumer, producer, order, chosen,
                   countVars, terminated, accepted, handled, due>>

Join(c) ==
    /\ control[c] = "join"
    /\ consumer = "exited"
    /\ consumer' = "none"
    /\ Unlock(c)
    /\ UNCHANGED <<ringVars, running, policy, producer, order, chosen, countVars,
                   terminated, accepted, handled, due>>

\* setBackpressurePolicy asserts that the engine is not running.
SetBackpressurePolicy(p) ==
    /\ ~running
    /\ policy' = p
    /\ UNCHANGED <<ringVars, running, lock, control, consumer, producer, order, chosen,
                   countVars, terminated, accepted, handled, due>>

-----------------------------------------------------------------------------
(* submitOrder, by the producer *)

controlSide == <<running, policy, lock, control, consumer, terminated,
                 processed, handled, due>>

\* An engine that is not running refuses, without a trace.  No thread looks
\* into an order, so a behaviour is one with numbered orders, renamed; among
\* those no exchange or repetition of two orders goes unseen.
Submit(o) ==
    /\ producer = "idle"
    /\ running
    /\ Len(accepted) < MaxAccepted
    /\ dropped < MaxDropped
    /\ Numbered => o = Len(accepted) + 1
    /\ order' = o
    /\ producer' = "policy"
    /\ UNCHANGED <<ringVars, controlSide, chosen, dropped, accepted>>

ReadPolicy ==
    /\ producer = "policy"
    /\ chosen' = policy
    /\ producer' = IF policy = "BLOCK" THEN "wait" ELSE "push"
    /\ UNCHANGED <<ringVars, controlSide, order, dropped, accepted>>

\* BLOCK looks at running_ again before each attempt, and gives up if it is
\* false.
Wait ==
    /\ producer = "wait"
    /\ producer' = IF running THEN "push" ELSE "idle"
    /\ UNCHANGED <<ringVars, controlSide, order, chosen, dropped, accepted>>

\* The ring is full: BLOCK sleeps and tries again, DROP counts.
Refused ==
    /\ producer = "push"
    /\ PushFull
    /\ producer' = IF chosen = "BLOCK" THEN "wait" ELSE "idle"
    /\ dropped' = IF chosen = "DROP" THEN dropped + 1 ELSE dropped
    /\ UNCHANGED <<controlSide, order, chosen, accepted>>

\* The last step of push makes submitOrder return true.
Push ==
    /\ producer = "push"
    /\ \/ /\ PushBegin(order) \/ PushWrite
          /\ UNCHANGED <<producer, accepted>>
       \/ /\ PushPublish
          /\ producer' = "idle"
          /\ accepted' = Append(accepted, order)
    /\ UNCHANGED <<controlSide, order, chosen, dropped>>

-----------------------------------------------------------------------------
(* consumerLoop *)

producerSide == <<running, policy, lock, control, producer, order, chosen, dropped,
                  terminated, accepted, due>>

\* Mutant of LoopTest: the loop ends as soon as running_ is false.
MutLoopNoDrain ==
    /\ consumer = "check"
    /\ consumer' = IF running THEN "pop" ELSE "exited"
    /\ UNCHANGED <<ringVars, producerSide, processed, handled>>

\* The loop condition reads running_, and buffer_.isEmpty() only if that is
\* false.
LoopTest ==
    /\ consumer = "check"
    /\ consumer' = IF running THEN "pop" ELSE "drain"
    /\ UNCHANGED <<ringVars, producerSide, processed, handled>>

\* Mutant of DrainTest: the loop goes round again on an empty ring.
MutDrainNever ==
    /\ consumer = "drain"
    /\ consumer' = "pop"
    /\ UNCHANGED <<ringVars, producerSide, processed, handled>>

DrainTest ==
    /\ consumer = "drain"
    /\ consumer' = IF isEmpty THEN "exited" ELSE "pop"
    /\ UNCHANGED <<ringVars, producerSide, processed, handled>>

Pop ==
    /\ consumer = "pop"
    /\ \/ PopEmpty /\ consumer' = "check"
       \/ (PopBegin \/ PopRead) /\ consumer' = "pop"
       \/ PopPublish /\ consumer' = "process"
    /\ UNCHANGED <<producerSide, processed, handled>>

\* Mutant of Process: an exception ends the loop, not only the iteration.
MutProcessLeaves ==
    /\ consumer = "process"
    /\ consumer' \in {"check", "exited"}
    /\ handled' = Append(handled, popped)
    /\ processed' = IF consumer' = "check" THEN processed + 1 ELSE processed
    /\ UNCHANGED <<ringVars, producerSide>>

\* processOrder returns and is counted, or throws and is not.
Process ==
    /\ consumer = "process"
    /\ consumer' = "check"
    /\ handled' = Append(handled, popped)
    /\ processed' \in {processed, processed + 1}
    /\ UNCHANGED <<ringVars, producerSide>>

-----------------------------------------------------------------------------

Init ==
    /\ RingInit
    /\ running = FALSE
    /\ policy = "REJECT"
    /\ lock = "none"
    /\ control = [c \in Controllers |-> "idle"]
    /\ consumer = "none"
    /\ producer = "idle"
    /\ order = Blank
    /\ chosen = policy
    /\ processed = 0
    /\ dropped = 0
    /\ terminated = FALSE
    /\ accepted = <<>>
    /\ handled = <<>>
    /\ due = [c \in Controllers |-> 0]

Controller(c) ==
    \/ Lock(c, "start")
    \/ Lock(c, "stop")
    \/ Start(c)
    \/ StopNothing(c)
    \/ StopBegin(c)
    \/ Join(c)

SubmitSteps == ReadPolicy \/ Wait \/ Refused \/ Push

Consumer == LoopTest \/ DrainTest \/ Pop \/ Process

Next ==
    \/ \E c \in Controllers : Controller(c)
    \/ \E p \in PolicySet : SetBackpressurePolicy(p)
    \/ \E o \in Orders : Submit(o)
    \/ SubmitSteps
    \/ Consumer

Spec == Init /\ [][Next]_vars

\* The operating system keeps scheduling the consumer, the producer inside
\* submitOrder, and a controller inside start or stop.
Fairness ==
    /\ WF_vars(Consumer)
    /\ WF_vars(SubmitSteps)
    /\ \A c \in Controllers :
           WF_vars(Start(c) \/ StopNothing(c) \/ StopBegin(c) \/ Join(c))

FairSpec == Spec /\ Fairness

-----------------------------------------------------------------------------
(* Properties *)

\* Every order submitOrder accepted is given to the engine exactly once, in
\* the order of acceptance, whatever starts and stops come in between: it has
\* been handled, or the consumer holds it, or it is in the ring.
NothingLost ==
    accepted = handled
               \o (IF consumer = "process" THEN <<popped>> ELSE <<>>)
               \o Contents

\* A restart never finds the previous consumer thread unjoined, which would
\* call std::terminate, whichever threads start and stop the engine.
NeverTerminates == ~terminated

\* Drain on stop: when stop returns, the consumer is gone and every order
\* accepted before that stop took effect has been handled.
DrainOnStop ==
    [][\A c \in Controllers :
           control[c] \in {"stop", "join"} /\ control'[c] = "idle" =>
               /\ consumer' = "none"
               /\ control[c] = "join" => Len(handled) >= due[c]]_vars

\* A stop that has begun returns: the consumer drains the ring and exits.
StopReturns ==
    \A c \in Controllers : control[c] = "join" ~> control[c] = "idle"

\* submitOrder returns, under every policy: BLOCK waits neither for a full
\* ring that a consumer is draining nor for an engine that was stopped.
SubmitReturns == producer # "idle" ~> producer = "idle"

\* Once the engine is stopped and submitOrder has returned, no accepted order
\* is left in the ring.
DrainedWhenStopped ==
    ~running /\ consumer = "none" /\ producer = "idle" => isEmpty
=============================================================================
