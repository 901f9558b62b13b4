---------------------------- MODULE ShardedEngine ----------------------------
(***************************************************************************)
(* src/ShardedEngine.cpp with the SymbolTable of include/SymbolId.h: one   *)
(* matching engine and one thread per shard, orders routed by symbol.      *)
(*                                                                         *)
(* The owner registers symbols, starts and stops the shards one after the  *)
(* other; a client thread submits orders.  A shard stands for what modules *)
(* ConcurrentMatchingEngine and RingBuffer show of it: a bounded queue, a  *)
(* consumer that stop lets drain it, and a running flag that submitOrder   *)
(* reads before it pushes (the default policy: a full queue rejects).  Its *)
(* book is one book without symbols; here it has one price and quantity 1, *)
(* so that an order trades with the oldest order of the other side or      *)
(* rests.                                                                  *)
(***************************************************************************)
EXTENDS Naturals, Sequences

CONSTANTS Symbols,    \* the names of symbols
          NumShards,  \* num_shards_
          BufferSize, \* orders a shard's queue holds
          MaxOrders   \* bound: orders submitted

\* Both constructors throw for 0.
ASSUME ShardedAssumption ==
    /\ NumShards \in Nat \ {0}
    /\ BufferSize \in Nat \ {0}
    /\ MaxOrders \in Nat

VARIABLES symbols,   \* symbols_: the id of a symbol is its place, less one
          frozen,    \* frozen_
          owner,     \* what the owner is doing, and the shard it has reached
          shard,     \* shard[s]: "stopped", "running" or "draining"
          queue,     \* queue[s]: orders submitted to the shard
          resting,   \* resting[s]: its book, oldest first
          pushing,   \* the order the client is about to push, if any
          submitted, \* ghost: the number of orders submitted
          accepted,  \* ghost: the orders submitOrder returned true for
          processed, \* ghost: those a consumer has matched
          traded     \* ghost: the pairs of symbols that have traded

tableVars == <<symbols, frozen>>
shardVars == <<shard, queue, resting>>
ghosts == <<submitted, accepted, processed, traded>>
vars == <<tableVars, owner, shardVars, pushing, ghosts>>

Shards == 0 .. NumShards - 1

\* Mutant of getShardIndex: orders take turns.
MutTakeTurns(id) == submitted % NumShards

\* Mutant of getShardIndex: the quotient instead of the remainder.
MutQuotient(id) == (id \div NumShards) % NumShards

getShardIndex(id) == id % NumShards

IsRegistered(id) == id < Len(symbols)

-----------------------------------------------------------------------------
(* The owner *)

\* A symbol that is there keeps its id; a frozen table takes no new one.
registerSymbol(name) ==
    /\ owner = <<"idle", 0>>
    /\ ~frozen
    /\ \A i \in DOMAIN symbols : symbols[i] # name
    /\ symbols' = Append(symbols, name)
    /\ UNCHANGED <<frozen, owner, shardVars, pushing, ghosts>>

startAll ==
    /\ owner = <<"idle", 0>>
    /\ \A s \in Shards : shard[s] = "stopped"
    /\ frozen' = TRUE
    /\ owner' = <<"start", 0>>
    /\ UNCHANGED <<symbols, shardVars, pushing, ghosts>>

StartShard ==
    LET s == owner[2]
    IN  /\ owner[1] = "start"
        /\ shard' = [shard EXCEPT ![s] = "running"]
        /\ owner' = IF s + 1 = NumShards
                    THEN <<"idle", 0>>
                    ELSE <<"start", s + 1>>
        /\ UNCHANGED <<tableVars, queue, resting, pushing, ghosts>>

stopAll ==
    /\ owner = <<"idle", 0>>
    /\ \A s \in Shards : shard[s] = "running"
    /\ owner' = <<"stop", 0>>
    /\ UNCHANGED <<tableVars, shardVars, pushing, ghosts>>

StopShard ==
    /\ owner[1] = "stop"
    /\ shard[owner[2]] = "running"
    /\ shard' = [shard EXCEPT ![owner[2]] = "draining"]
    /\ UNCHANGED <<tableVars, owner, queue, resting, pushing, ghosts>>

\* The consumer has drained its queue: it returns and join does.
JoinShard ==
    LET s == owner[2]
    IN  /\ owner[1] = "stop"
        /\ shard[s] = "draining"
        /\ queue[s] = <<>>
        /\ shard' = [shard EXCEPT ![s] = "stopped"]
        /\ owner' = IF s + 1 = NumShards
                    THEN <<"idle", 0>>
                    ELSE <<"stop", s + 1>>
        /\ UNCHANGED <<tableVars, queue, resting, pushing, ghosts>>

-----------------------------------------------------------------------------
(* submitOrder, by the client *)

NewOrder(id, side) == [n |-> submitted + 1, symbol |-> id, side |-> side]

\* An unknown symbol, or a shard that does not run.
SubmitRejected(id) ==
    /\ pushing = <<>>
    /\ submitted < MaxOrders
    /\ IsRegistered(id) => shard[getShardIndex(id)] # "running"
    /\ submitted' = submitted + 1
    /\ UNCHANGED <<tableVars, owner, shardVars, pushing, accepted, processed,
                   traded>>

SubmitRouted(id, side) ==
    /\ pushing = <<>>
    /\ submitted < MaxOrders
    /\ IsRegistered(id)
    /\ shard[getShardIndex(id)] = "running"
    /\ pushing' = <<getShardIndex(id), NewOrder(id, side)>>
    /\ submitted' = submitted + 1
    /\ UNCHANGED <<tableVars, owner, shardVars, accepted, processed, traded>>

Push ==
    /\ pushing # <<>>
    /\ Len(queue[pushing[1]]) < BufferSize
    /\ queue' = [queue EXCEPT ![pushing[1]] = Append(@, pushing[2])]
    /\ accepted' = accepted \cup {pushing[2]}
    /\ pushing' = <<>>
    /\ UNCHANGED <<tableVars, owner, shard, resting, submitted, processed,
                   traded>>

PushRejected ==
    /\ pushing # <<>>
    /\ Len(queue[pushing[1]]) = BufferSize
    /\ pushing' = <<>>
    /\ UNCHANGED <<tableVars, owner, shardVars, ghosts>>

-----------------------------------------------------------------------------
(* The consumer of shard s *)

Consume(s) ==
    LET o == Head(queue[s])
        trades == resting[s] # <<>> /\ Head(resting[s]).side # o.side
    IN  /\ shard[s] \in {"running", "draining"}
        /\ queue[s] # <<>>
        /\ queue' = [queue EXCEPT ![s] = Tail(@)]
        /\ resting' = [resting EXCEPT
                           ![s] = IF trades THEN Tail(@) ELSE Append(@, o)]
        /\ traded' = IF trades
                     THEN traded \cup {<<Head(resting[s]).symbol, o.symbol>>}
                     ELSE traded
        /\ processed' = processed \cup {o}
        /\ UNCHANGED <<tableVars, owner, shard, pushing, submitted, accepted>>

-----------------------------------------------------------------------------

Init ==
    /\ symbols = <<>>
    /\ frozen = FALSE
    /\ owner = <<"idle", 0>>
    /\ shard = [s \in Shards |-> "stopped"]
    /\ queue = [s \in Shards |-> <<>>]
    /\ resting = [s \in Shards |-> <<>>]
    /\ pushing = <<>>
    /\ submitted = 0
    /\ accepted = {}
    /\ processed = {}
    /\ traded = {}

\* The id after the last registered one is one nobody knows.
Next ==
    \/ \E name \in Symbols : registerSymbol(name)
    \/ startAll
    \/ StartShard
    \/ stopAll
    \/ StopShard
    \/ JoinShard
    \/ \E id \in 0 .. Len(symbols) :
           \/ SubmitRejected(id)
           \/ \E side \in {"BUY", "SELL"} : SubmitRouted(id, side)
    \/ Push
    \/ PushRejected
    \/ \E s \in Shards : Consume(s)

Spec == Init /\ [][Next]_vars

-----------------------------------------------------------------------------
(* Properties *)

\* As long as there are no more symbols than shards, orders of different
\* symbols never trade with each other.  With more of them two symbols share
\* a shard, and so a book (registerSymbol, submitOrder, SymbolId.h).
SymbolIsolation ==
    Len(symbols) <= NumShards => \A pair \in traded : pair[1] = pair[2]

\* The accepted orders of one symbol are matched in the order they were
\* submitted, through stops and restarts of the shards: none is overtaken.
SymbolOrder ==
    \A a \in accepted, b \in processed :
        a.symbol = b.symbol /\ a.n < b.n => a \in processed
=============================================================================
