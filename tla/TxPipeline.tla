----------------------------- MODULE TxPipeline ------------------------------
(***************************************************************************)
(* The way of transactions through one validator: from the HTTP handler    *)
(* into the mempool (internal/mempool/mempool.go), into a proposal of its  *)
(* own or of a peer, and with the decided block into the ledger            *)
(* (commitLocked and sealFromProposal of internal/consensus/bft.go,        *)
(* VerifyAndSaveGossipedBlockStrict of internal/consensus/seal.go).        *)
(*                                                                         *)
(* The goroutines are the HTTP requests, the engine (its loop and its      *)
(* message handler never commit together: OneCommitAtATime of BFTEngine)   *)
(* and the one that receives block announcements.  ApplyTx and SaveBlock   *)
(* are one store transaction each; everything between two of them          *)
(* interleaves.  Consensus is abstracted to the sequence of blocks it      *)
(* decides (Agreement of BFTVoting): at a height there is one block, which *)
(* this node commits, receives by gossip, does both, or neither.           *)
(***************************************************************************)
EXTENDS Ledger, Sequences, SequencesExt

CONSTANTS
    Clients,        \* concurrent requests to submit a transaction
    MaxTxs,         \* Config.MaxTxs of the mempool
    CacheSize,      \* Config.CacheSize
    MaxBlockTxs,    \* the engine's maxTxs
    MaxBlocks,      \* bound: heights decided
    MaxRestarts,    \* bound: crashes of this node
    NoTx            \* no transaction

ASSUME PoolBounds == {MaxTxs, CacheSize, MaxBlockTxs, MaxBlocks} \subseteq Nat \ {0}
ASSUME RestartBound == MaxRestarts \in Nat
\* Ledger's bound on the applications of one transaction leaves room for the first.
ASSUME AppliedBound == MaxApplied > 0
\* Transfers to oneself use up no nonce and may be applied twice (see Ledger).
ASSUME NoSelfTransfers == \A t \in Txs : ~SelfTransfer(t)
ASSUME NoTxIsNone == NoTx \notin Txs

VARIABLES
    order,      \* mempool: hashes in order of insertion
    byHash,     \* mempool: the transactions held
    seen,       \* mempool: hashes seen lately, oldest first
    request,    \* per client: the transaction that passed CheckTx and waits for m.mu
    engine,     \* [height, pc, todo]: e.height, and what the engine does with which txs
    gossip,     \* [height, pc, todo]: the announcement being applied
    tip,        \* store: latest_height
    decided,    \* the blocks consensus decides, with the ledger each starts from
    restarts    \* crashes so far

pool == <<order, byHash, seen, request>>
books == <<ledger, times, seeded>>
pipeline == <<ledger, times, seeded, order, byHash, seen, request, engine, gossip, tip,
              decided, restarts>>

BlockTxs == {b \in BoundedSeq(Txs, MaxBlockTxs) : IsInjective(b)}

\* A block's transactions one after the other, those that fail skipped: the ledger
\* after the first n of them, and after all.
ApplyOrSkip(L, t) == IF CanApply(L, t) THEN ApplyTx(L, t) ELSE L
After(L, b) ==
    LET after[n \in 0..Len(b)] == IF n = 0 THEN L ELSE ApplyOrSkip(after[n - 1], b[n])
    IN  after
ApplyAll(L, b) == After(L, b)[Len(b)]

\* No transaction of block b fails on L: only then does the announced block hash.
AllApply(L, b) == \A i \in DOMAIN b : CanApply(After(L, b)[i - 1], b[i])

\* What the network's ledger is once every decided block has been applied.
Network == IF decided = <<>> THEN StartLedger
           ELSE ApplyAll(Last(decided).before, Last(decided).txs)
Decide(b) == decided' = Append(decided, [before |-> Network, txs |-> b])

PipelineInit ==
    /\ Init
    /\ order = <<>> /\ byHash = {} /\ seen = <<>>
    /\ request = [c \in Clients |-> NoTx]
    /\ engine = [height |-> 1, pc |-> "idle", todo |-> <<>>]
    /\ gossip = [height |-> 0, pc |-> "idle", todo |-> <<>>]
    /\ tip = 0 /\ decided = <<>> /\ restarts = 0
-----------------------------------------------------------------------------
(* The mempool.                                                              *)

\* handleSubmitTx and Add up to CheckTx, which runs without m.mu.
Submit(c, t) ==
    /\ request[c] = NoTx /\ CheckTx(ledger, t)
    /\ request' = [request EXCEPT ![c] = t]
    /\ UNCHANGED <<books, order, byHash, seen, engine, gossip, tip, decided, restarts>>

\* pruneSeenLocked drops the oldest down to three quarters of the cache.
PruneSeen(s) ==
    IF Len(s) <= CacheSize THEN s
    ELSE SubSeq(s, Len(s) - (CacheSize * 3) \div 4 + 1, Len(s))

\* Only the cache of seen hashes is consulted, not what the pool holds.
AdmitsBySeen(t) == t \notin ToSet(seen)

\* Add's three early returns: held already, seen already, pool full.
Admits(t) == t \notin byHash /\ t \notin ToSet(seen) /\ Cardinality(byHash) < MaxTxs

Insert(t) ==
    IF Admits(t)
    THEN /\ order' = Append(order, t) /\ byHash' = byHash \cup {t}
         /\ seen' = PruneSeen(Append(seen, t))
    ELSE UNCHANGED <<order, byHash, seen>>

\* The rest of Add, under m.mu, for a request whose check may be out of date.
FinishAdd(c) ==
    /\ request[c] # NoTx /\ Insert(request[c])
    /\ request' = [request EXCEPT ![c] = NoTx]
    /\ UNCHANGED <<books, engine, gossip, tip, decided, restarts>>
-----------------------------------------------------------------------------
(* The engine.                                                               *)

\* buildAndBroadcastProposal as the leader: Take moves txs from the pool to pendingTxs.
Propose ==
    LET n == IF Len(order) < MaxBlockTxs THEN Len(order) ELSE MaxBlockTxs
        taken == SubSeq(order, 1, n) IN
    /\ engine.pc = "idle" /\ engine.height = tip + 1 /\ engine.height <= MaxBlocks
    /\ engine' = [engine EXCEPT !.pc = "proposed", !.todo = taken]
    /\ order' = SubSeq(order, n + 1, Len(order))
    /\ byHash' = byHash \ ToSet(taken)
    /\ UNCHANGED <<books, seen, request, gossip, tip, decided, restarts>>

\* SignProposalBFT fails: the txs are to go back.
SigningFails ==
    /\ engine.pc = "proposed" /\ engine' = [engine EXCEPT !.pc = "return"]
    /\ UNCHANGED <<books, pool, gossip, tip, decided, restarts>>

\* One pool.Add of the loop that puts them back.
ReturnTx ==
    /\ engine.pc = "return" /\ engine.todo # <<>>
    /\ IF CheckTx(ledger, Head(engine.todo)) THEN Insert(Head(engine.todo))
       ELSE UNCHANGED <<order, byHash, seen>>
    /\ engine' = [engine EXCEPT !.todo = Tail(@)]
    /\ UNCHANGED <<books, request, gossip, tip, decided, restarts>>

ReturnedAll ==
    /\ engine.pc = "return" /\ engine.todo = <<>>
    /\ engine' = [engine EXCEPT !.pc = "idle"]
    /\ UNCHANGED <<books, pool, gossip, tip, decided, restarts>>

\* HandleProposal accepts a peer's block, which validateProposalLocked finds on the tip.
Accept ==
    /\ engine.pc = "idle" /\ engine.height = tip + 1 /\ engine.height <= Len(decided)
    /\ engine' = [engine EXCEPT !.pc = "accepted", !.todo = decided[engine.height].txs]
    /\ UNCHANGED <<books, pool, gossip, tip, decided, restarts>>

\* No commit in this round: pendingTxs is cleared, whosever they were.
RoundFails ==
    /\ engine.pc \in {"proposed", "accepted"}
    /\ engine' = [engine EXCEPT !.pc = "idle", !.todo = <<>>]
    /\ UNCHANGED <<books, pool, gossip, tip, decided, restarts>>

\* +2/3 precommits for the accepted or the own proposal: commitLocked begins.
Commit ==
    /\ \/ engine.pc = "accepted" /\ UNCHANGED decided
       \/ engine.pc = "proposed" /\ Len(decided) = engine.height - 1 /\ Decide(engine.todo)
    /\ engine' = [engine EXCEPT !.pc = "apply"]
    /\ UNCHANGED <<books, pool, gossip, tip, restarts>>

\* The precommits are for a block other than the engine's proposal: no apply.
CommitUnseen ==
    /\ engine.pc # "apply" /\ engine.pc # "return" /\ engine.height <= Len(decided)
    /\ engine' = [height |-> engine.height + 1, pc |-> "idle", todo |-> <<>>]
    /\ UNCHANGED <<books, pool, gossip, tip, decided, restarts>>

\* A failing transaction ends the loop of sealFromProposal.
ApplyNextStopsAtFailure ==
    LET t == Head(engine.todo) ok == CanApply(ledger, t) IN
    /\ engine.pc = "apply" /\ engine.todo # <<>>
    /\ ledger' = ApplyOrSkip(ledger, t)
    /\ times' = IF ok THEN [times EXCEPT ![t] = @ + 1] ELSE times
    /\ engine' = [engine EXCEPT !.todo = IF ok THEN Tail(@) ELSE <<>>]
    /\ UNCHANGED <<seeded, pool, gossip, tip, decided, restarts>>

\* sealFromProposal applies the next transaction, or skips it when ApplyTx fails.
ApplyNext ==
    LET t == Head(engine.todo) IN
    /\ engine.pc = "apply" /\ engine.todo # <<>>
    /\ ledger' = ApplyOrSkip(ledger, t)
    /\ times' = IF CanApply(ledger, t) THEN [times EXCEPT ![t] = @ + 1] ELSE times
    /\ engine' = [engine EXCEPT !.todo = Tail(@)]
    /\ UNCHANGED <<seeded, pool, gossip, tip, decided, restarts>>

\* sealFromProposal saves the header; on an error commitLocked advances all the same.
Seal ==
    /\ engine.pc = "apply" /\ engine.todo = <<>>
    /\ \/ tip' = engine.height
       \/ UNCHANGED tip
    /\ engine' = [height |-> engine.height + 1, pc |-> "idle", todo |-> <<>>]
    /\ UNCHANGED <<books, pool, gossip, decided, restarts>>
-----------------------------------------------------------------------------
(* The rest of the network, and the announcements it sends.                  *)

\* The peers decide a block of transactions that their mempools admitted: they run this
\* code.  Nothing on the receiving side would refuse a nonce 0 (see Ledger's NoReplay).
PeersDecide(b) ==
    /\ Len(decided) < MaxBlocks
    /\ \A i \in DOMAIN b : ValidateBasic(b[i]) /\ b[i].nonce > 0
    /\ Decide(b)
    /\ UNCHANGED <<books, pool, engine, gossip, tip, restarts>>

\* An announcement passes the checks of VerifyAndSaveGossipedBlockStrict.
GossipBegins ==
    /\ gossip.pc = "idle" /\ tip < Len(decided)
    /\ LET next == decided[tip + 1] IN
       /\ AllApply(next.before, next.txs)
       /\ gossip' = [height |-> tip + 1, pc |-> "apply", todo |-> next.txs]
    /\ UNCHANGED <<books, pool, engine, tip, decided, restarts>>

\* The next transaction is applied; when one fails the block is given up.
GossipApplies ==
    LET t == Head(gossip.todo) IN
    /\ gossip.pc = "apply" /\ gossip.todo # <<>>
    /\ \/ /\ CanApply(ledger, t)
          /\ ledger' = ApplyTx(ledger, t) /\ times' = [times EXCEPT ![t] = @ + 1]
          /\ gossip' = [gossip EXCEPT !.todo = Tail(@)] /\ UNCHANGED seeded
       \/ /\ ~CanApply(ledger, t)
          /\ gossip' = [height |-> 0, pc |-> "idle", todo |-> <<>>]
          /\ UNCHANGED books
    /\ UNCHANGED <<pool, engine, tip, decided, restarts>>

GossipSaves ==
    /\ gossip.pc = "apply" /\ gossip.todo = <<>>
    /\ tip' = gossip.height
    /\ gossip' = [height |-> 0, pc |-> "idle", todo |-> <<>>]
    /\ UNCHANGED <<books, pool, engine, decided, restarts>>

\* The process stops at any point and starts from its store.
Restart ==
    /\ restarts < MaxRestarts /\ restarts' = restarts + 1
    /\ order' = <<>> /\ byHash' = {} /\ seen' = <<>>
    /\ request' = [c \in Clients |-> NoTx]
    /\ engine' = [height |-> tip + 1, pc |-> "idle", todo |-> <<>>]
    /\ gossip' = [height |-> 0, pc |-> "idle", todo |-> <<>>]
    /\ UNCHANGED <<books, tip, decided>>

PipelineNext ==
    \/ \E c \in Clients : FinishAdd(c) \/ \E t \in Txs : Submit(c, t)
    \/ Propose \/ SigningFails \/ ReturnTx \/ ReturnedAll \/ Accept \/ RoundFails
    \/ Commit \/ CommitUnseen \/ ApplyNext \/ Seal
    \/ \E b \in BlockTxs : PeersDecide(b)
    \/ GossipBegins \/ GossipApplies \/ GossipSaves \/ Restart

PipelineSpec == PipelineInit /\ [][PipelineNext]_pipeline
-----------------------------------------------------------------------------
(***************************************************************************)
(* The mempool's two containers hold the same transactions, each once,     *)
(* within MaxTxs, and the cache of seen hashes stays within CacheSize,     *)
(* although a hash may leave the cache while its transaction is queued.    *)
(***************************************************************************)
PoolConsistent ==
    /\ IsInjective(order) /\ ToSet(order) = byHash /\ Len(order) <= MaxTxs
    /\ IsInjective(seen) /\ Len(seen) <= CacheSize

(***************************************************************************)
(* Through every interleaving the books are only ever changed by whole     *)
(* ApplyTx steps of admitted transactions, as Ledger has them: no nonce 0  *)
(* reaches ApplyTx, which would let it through any number of times.        *)
(***************************************************************************)
ImplementsLedger == AdmittedSpec

\* The ledger is the network's, some number of transactions into some decided block.
OnDecided ==
    \/ ledger = StartLedger
    \/ \E h \in DOMAIN decided : \E n \in 0..Len(decided[h].txs) :
           ledger = After(decided[h].before, decided[h].txs)[n]

(***************************************************************************)
(* The ledger of a node that does not crash is always the network's at     *)
(* some point of the decided blocks: commitLocked and the gossip handler   *)
(* may work on the same block at once, and one of them abort it or start   *)
(* it late, without applying anything twice, out of order or in excess.    *)
(* After a stop between two ApplyTx of a block this fails, although        *)
(* HandleProposal keeps the bodies "so commit applies the same state":     *)
(* the block runs again on what it has already done.                       *)
(***************************************************************************)
FollowsDecided == restarts = 0 => OnDecided
=============================================================================
