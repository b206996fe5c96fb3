--------------------------- MODULE TxPipelineProofs ---------------------------
(***************************************************************************)
(* Proofs about TxPipeline, for any transactions, clients, pool and cache  *)
(* sizes and any number of blocks.                                         *)
(*                                                                         *)
(* PipeInv follows a transaction on its way: what waits in a request, in   *)
(* the pool, in a proposal or in a decided block has passed some mempool's *)
(* CheckTx, so that its nonce is not 0 and no account's nonce is ever set  *)
(* back.  With LedgerInv, which says that an applied transaction's nonce   *)
(* is used up, every step that changes the books is then an ApplyAdmitted  *)
(* step of Ledger, whichever of the two goroutines takes it.               *)
(*                                                                         *)
(* The last part follows the ledger through the decided blocks: DecidedInv *)
(* gives it a place there, from which the cursors of both goroutines can   *)
(* be told to be harmless.                                                 *)
(***************************************************************************)
EXTENDS TxPipeline, LedgerProofs, FiniteSetTheorems, SequenceTheorems

\* The transactions that a mempool admits.
Admitted == {t \in Txs : ValidateBasic(t) /\ t.nonce > 0}

PoolType ==
    /\ order \in Seq(Admitted) /\ byHash \subseteq Txs /\ seen \in Seq(Txs)
    /\ request \in [Clients -> Admitted \cup {NoTx}]

EngineState == [height : Nat, pc : {"idle", "proposed", "accepted", "return", "apply"},
                todo : Seq(Admitted)]
GossipState == [height : Nat, pc : {"idle", "apply"}, todo : Seq(Admitted)]

DecidedType ==
    /\ \E S : decided \in Seq(S)
    /\ \A h \in 1..Len(decided) : decided[h].txs \in Seq(Admitted)

PipeInv ==
    /\ LedgerInv /\ NoZeroApplied /\ PoolType /\ DecidedType
    /\ engine \in EngineState /\ gossip \in GossipState /\ tip \in Nat
-----------------------------------------------------------------------------
\* The sizes are positive.
LEMMA Sizes ==
    /\ MaxTxs \in Nat /\ MaxTxs > 0 /\ CacheSize \in Nat /\ CacheSize > 0
    /\ MaxBlockTxs \in Nat /\ MaxBlockTxs > 0 /\ MaxApplied \in Nat /\ MaxApplied > 0
BY PoolBounds, AppliedBound, LedgerBounds

\* Taking one off the front of a sequence.
LEMMA TailOK ==
    ASSUME NEW S, NEW todo \in Seq(S), todo # <<>>
    PROVE  Head(todo) \in S /\ Tail(todo) \in Seq(S)
OBVIOUS

\* What passes CheckTx is admitted.
LEMMA CheckedAdmitted ==
    ASSUME LedgerInv, NEW t \in Txs, CheckTx(ledger, t)
    PROVE  t \in Admitted
<1>1. t.nonce \in Nat /\ t.from \in Accounts
  BY TxsType DEF Transaction
<1>2. ledger.acc[t.from].nonce \in Nat
  BY <1>1 DEF LedgerInv, Solvent, Account
<1> QED BY <1>1, <1>2 DEF CheckTx, Admitted

\* An admitted transaction that can be applied is applied for the first time.
LEMMA AppliesFirst ==
    ASSUME LedgerInv, NoZeroApplied, NEW t \in Admitted, CanApply(ledger, t),
           ledger' = ApplyTx(ledger, t), times' = [times EXCEPT ![t] = @ + 1], seeded' = seeded
    PROVE  ApplyAdmitted(t)
<1>1. t \in Txs /\ t.nonce \in Nat /\ t.nonce > 0 /\ t.from \in Accounts /\ ValidateBasic(t)
  BY TxsType DEF Admitted, Transaction
<1>2. ledger.acc[t.from].nonce \in Nat /\ times[t] \in Nat
  BY <1>1 DEF LedgerInv, Solvent, Account, TimesType
<1>3. ledger.acc[t.from].nonce < t.nonce
  BY <1>1, <1>2 DEF CanApply, NonceFresh
<1>4. times[t] = 0
  <2>1. ~NonceReset(t.from)
    BY <1>1, NeverReset DEF AdmittedInv
  <2> QED BY <1>1, <1>2, <1>3, <2>1, NoSelfTransfers DEF LedgerInv, NoncesUsed
<1> QED BY <1>1, <1>4, Sizes DEF Apply, ApplyAdmitted

\* A step of Ledger with admitted transactions keeps its invariant.
LEMMA BooksKeep ==
    ASSUME LedgerInv, NoZeroApplied, [AdmittedNext]_vars
    PROVE  LedgerInv' /\ NoZeroApplied'
BY AdmittedKeeps DEF AdmittedInv
-----------------------------------------------------------------------------
\* pruneSeenLocked leaves transactions.
LEMMA PruneSeenType ==
    ASSUME NEW s \in Seq(Txs)
    PROVE  PruneSeen(s) \in Seq(Txs)
<1>1. CASE Len(s) <= CacheSize
  BY <1>1 DEF PruneSeen
<1>2. CASE ~(Len(s) <= CacheSize)
  <2> DEFINE m == Len(s) - (CacheSize * 3) \div 4 + 1
  <2>1. Len(s) \in Nat /\ m \in Int /\ m > 0
    BY <1>2, Sizes
  <2>2. \A i \in m..Len(s) : s[i] \in Txs
    BY <2>1
  <2> HIDE DEF m
  <2>3. SubSeq(s, m, Len(s)) \in Seq(Txs)
    BY <2>1, <2>2, SubSeqProperties
  <2> QED BY <1>2, <2>3 DEF PruneSeen, m
<1> QED BY <1>1, <1>2

\* Add's critical section keeps the pool's type.
LEMMA InsertType ==
    ASSUME PoolType, NEW t \in Admitted, Insert(t)
    PROVE  order' \in Seq(Admitted) /\ byHash' \subseteq Txs /\ seen' \in Seq(Txs)
<1>1. CASE Admits(t)
  <2>1. order' = Append(order, t) /\ byHash' = byHash \cup {t} /\ seen' = PruneSeen(Append(seen, t))
    BY <1>1 DEF Insert
  <2>2. t \in Txs
    BY DEF Admitted
  <2>3. Append(seen, t) \in Seq(Txs) /\ Append(order, t) \in Seq(Admitted)
    BY <2>2 DEF PoolType
  <2> QED BY <2>1, <2>2, <2>3, PruneSeenType DEF PoolType
<1>2. CASE ~Admits(t)
  BY <1>2 DEF Insert, PoolType
<1> QED BY <1>1, <1>2

\* What Take takes and leaves.
LEMMA TakeType ==
    ASSUME NEW s \in Seq(Admitted), NEW n \in Nat, n <= Len(s)
    PROVE  SubSeq(s, 1, n) \in Seq(Admitted) /\ SubSeq(s, n + 1, Len(s)) \in Seq(Admitted)
<1>0. Len(s) \in Nat /\ 1 \in Int /\ n \in Int /\ n + 1 \in Int /\ Len(s) \in Int
  OBVIOUS
<1>1. (\A i \in 1..n : s[i] \in Admitted) /\ (\A i \in (n + 1)..Len(s) : s[i] \in Admitted)
  BY <1>0
<1>2. SubSeq(s, 1, n) \in Seq(Admitted)
  BY <1>0, <1>1, SubSeqProperties
<1>3. SubSeq(s, n + 1, Len(s)) \in Seq(Admitted)
  BY <1>0, <1>1, SubSeqProperties
<1> QED BY <1>2, <1>3

\* Consensus decides one more block of admitted transactions.
LEMMA DecideType ==
    ASSUME DecidedType, NEW b \in Seq(Admitted), Decide(b)
    PROVE  DecidedType'
<1> DEFINE e == [before |-> Network, txs |-> b]
<1>1. decided' = Append(decided, e)
  BY DEF Decide
<1>2. e.txs = b
  OBVIOUS
<1> HIDE DEF e
<1>3. PICK S : decided \in Seq(S)
  BY DEF DecidedType
<1>4. decided \in Seq(S \cup {e}) /\ e \in S \cup {e}
  BY <1>3
<1>5. /\ decided' \in Seq(S \cup {e}) /\ Len(decided') = Len(decided) + 1
      /\ \A i \in 1..Len(decided) : decided'[i] = decided[i]
      /\ decided'[Len(decided) + 1] = e /\ Len(decided) \in Nat
  BY <1>1, <1>4
<1>6. \A h \in 1..Len(decided') : decided'[h].txs \in Seq(Admitted)
  BY <1>2, <1>5 DEF DecidedType
<1> QED BY <1>5, <1>6 DEF DecidedType
-----------------------------------------------------------------------------
\* Every step either leaves the books alone or is a step of Ledger with an admitted
\* transaction, and keeps PipeInv.
StepKeeps == [AdmittedNext]_vars /\ PipeInv'

\* What is left to show of a step that leaves the books alone.
LEMMA BooksSame ==
    ASSUME PipeInv, UNCHANGED books, PoolType', DecidedType',
           engine' \in EngineState, gossip' \in GossipState, tip' \in Nat
    PROVE  StepKeeps
<1>1. [AdmittedNext]_vars
  BY DEF books, vars
<1>2. LedgerInv' /\ NoZeroApplied'
  BY <1>1, BooksKeep DEF PipeInv
<1> QED BY <1>1, <1>2 DEF StepKeeps, PipeInv

\* An engine that moves on without touching the pool.
LEMMA EngineMoves ==
    ASSUME PipeInv, UNCHANGED <<books, pool, gossip, tip, decided>>, engine' \in EngineState
    PROVE  StepKeeps
<1>1. PoolType' /\ DecidedType'
  BY DEF pool, PoolType, DecidedType, PipeInv
<1> QED BY <1>1, BooksSame DEF PipeInv

\* handleSubmitTx checks a transaction.
LEMMA SubmitKeeps ==
    ASSUME PipeInv, NEW c \in Clients, NEW t \in Txs, Submit(c, t)
    PROVE  StepKeeps
<1>1. t \in Admitted
  BY CheckedAdmitted DEF Submit, PipeInv
<1>2. PoolType' /\ DecidedType'
  BY <1>1 DEF Submit, PipeInv, PoolType, DecidedType
<1> QED BY <1>2, BooksSame DEF Submit, PipeInv

\* A checked transaction enters the pool.
LEMMA FinishAddKeeps ==
    ASSUME PipeInv, NEW c \in Clients, FinishAdd(c)
    PROVE  StepKeeps
<1>1. request[c] \in Admitted /\ Insert(request[c]) /\ PoolType
  BY DEF FinishAdd, PipeInv, PoolType
<1>2. order' \in Seq(Admitted) /\ byHash' \subseteq Txs /\ seen' \in Seq(Txs)
  BY <1>1, InsertType
<1>3. request' \in [Clients -> Admitted \cup {NoTx}]
  BY <1>1 DEF FinishAdd, PoolType
<1>4. PoolType' /\ DecidedType'
  BY <1>2, <1>3 DEF FinishAdd, PipeInv, PoolType, DecidedType
<1> QED BY <1>4, BooksSame DEF FinishAdd, PipeInv

\* Take moves transactions into a proposal.
LEMMA ProposeKeeps ==
    ASSUME PipeInv, Propose
    PROVE  StepKeeps
<1> DEFINE n == IF Len(order) < MaxBlockTxs THEN Len(order) ELSE MaxBlockTxs
           taken == SubSeq(order, 1, n)
           rest == SubSeq(order, n + 1, Len(order))
<1>0. order \in Seq(Admitted)
  BY DEF PipeInv, PoolType
<1>1. n \in Nat /\ n <= Len(order)
  BY <1>0, Sizes
<1> HIDE DEF n
<1>2. taken \in Seq(Admitted) /\ rest \in Seq(Admitted)
  BY <1>0, <1>1, TakeType
<1>3. /\ engine' = [engine EXCEPT !.pc = "proposed", !.todo = taken]
      /\ order' = rest /\ byHash' = byHash \ ToSet(taken)
      /\ UNCHANGED <<books, seen, request, gossip, tip, decided>>
  BY DEF Propose, n
<1> HIDE DEF taken, rest
<1>4. engine' \in EngineState
  BY <1>2, <1>3 DEF PipeInv, EngineState
<1>5. PoolType' /\ DecidedType'
  BY <1>2, <1>3 DEF PipeInv, PoolType, DecidedType
<1> QED BY <1>3, <1>4, <1>5, BooksSame DEF PipeInv

\* The proposal cannot be signed.
LEMMA SigningFailsKeeps ==
    ASSUME PipeInv, SigningFails
    PROVE  StepKeeps
<1>1. engine' \in EngineState
  BY DEF SigningFails, PipeInv, EngineState
<1> QED BY <1>1, EngineMoves DEF SigningFails

\* One of its transactions goes back.
LEMMA ReturnTxKeeps ==
    ASSUME PipeInv, ReturnTx
    PROVE  StepKeeps
<1> DEFINE t == Head(engine.todo)
<1>0. engine \in EngineState /\ engine.todo \in Seq(Admitted) /\ engine.todo # <<>>
  BY DEF ReturnTx, PipeInv, EngineState
<1>1. t \in Admitted /\ Tail(engine.todo) \in Seq(Admitted)
  BY <1>0, TailOK
<1>2. engine' \in EngineState
  BY <1>0, <1>1 DEF ReturnTx, EngineState
<1>3. order' \in Seq(Admitted) /\ byHash' \subseteq Txs /\ seen' \in Seq(Txs)
  <2>1. CASE Insert(t)
    BY <1>1, <2>1, InsertType DEF PipeInv
  <2>2. CASE UNCHANGED <<order, byHash, seen>>
    BY <2>2 DEF PipeInv, PoolType
  <2> QED BY <2>1, <2>2 DEF ReturnTx
<1>4. PoolType' /\ DecidedType'
  BY <1>3 DEF ReturnTx, PipeInv, PoolType, DecidedType
<1> QED BY <1>2, <1>4, BooksSame DEF ReturnTx, PipeInv

\* All of them have gone back.
LEMMA ReturnedAllKeeps ==
    ASSUME PipeInv, ReturnedAll
    PROVE  StepKeeps
<1>1. engine' \in EngineState
  BY DEF ReturnedAll, PipeInv, EngineState
<1> QED BY <1>1, EngineMoves DEF ReturnedAll

\* A peer's proposal is accepted.
LEMMA AcceptKeeps ==
    ASSUME PipeInv, Accept
    PROVE  StepKeeps
<1>0. engine \in EngineState /\ engine.height \in 1..Len(decided)
  <2>1. engine \in EngineState /\ engine.height = tip + 1 /\ tip \in Nat /\ engine.height <= Len(decided)
    BY DEF Accept, PipeInv
  <2>2. PICK S : decided \in Seq(S)
    BY DEF PipeInv, DecidedType
  <2> QED BY <2>1, <2>2
<1>1. decided[engine.height].txs \in Seq(Admitted)
  BY <1>0 DEF PipeInv, DecidedType
<1>2. engine' \in EngineState
  BY <1>0, <1>1 DEF Accept, EngineState
<1> QED BY <1>2, EngineMoves DEF Accept

\* A round ends without a commit.
LEMMA RoundFailsKeeps ==
    ASSUME PipeInv, RoundFails
    PROVE  StepKeeps
<1>1. <<>> \in Seq(Admitted)
  OBVIOUS
<1>2. engine' \in EngineState
  BY <1>1 DEF RoundFails, PipeInv, EngineState
<1> QED BY <1>2, EngineMoves DEF RoundFails

\* A proposal is committed.
LEMMA CommitKeeps ==
    ASSUME PipeInv, Commit
    PROVE  StepKeeps
<1>1. engine \in EngineState /\ engine.todo \in Seq(Admitted)
  BY DEF PipeInv, EngineState
<1>2. engine' \in EngineState
  BY <1>1 DEF Commit, EngineState
<1>3. DecidedType'
  <2>1. CASE Decide(engine.todo)
    BY <1>1, <2>1, DecideType DEF PipeInv
  <2>2. CASE UNCHANGED decided
    BY <2>2 DEF PipeInv, DecidedType
  <2> QED BY <2>1, <2>2 DEF Commit
<1>4. PoolType'
  BY DEF Commit, pool, PipeInv, PoolType
<1> QED BY <1>2, <1>3, <1>4, BooksSame DEF Commit, PipeInv

\* A block is committed that the engine does not hold.
LEMMA CommitUnseenKeeps ==
    ASSUME PipeInv, CommitUnseen
    PROVE  StepKeeps
<1>1. <<>> \in Seq(Admitted) /\ engine.height + 1 \in Nat
  BY DEF PipeInv, EngineState
<1>2. engine' \in EngineState
  BY <1>1 DEF CommitUnseen, EngineState
<1> QED BY <1>2, EngineMoves DEF CommitUnseen

\* The committed block is saved, or saving fails.
LEMMA SealKeeps ==
    ASSUME PipeInv, Seal
    PROVE  StepKeeps
<1>1. <<>> \in Seq(Admitted) /\ engine.height + 1 \in Nat /\ engine.height \in Nat
  BY DEF PipeInv, EngineState
<1>2. engine' \in EngineState
  BY <1>1 DEF Seal, EngineState
<1>3. tip' \in Nat
  BY <1>1 DEF Seal, PipeInv
<1>4. PoolType' /\ DecidedType'
  BY DEF Seal, pool, PipeInv, PoolType, DecidedType
<1> QED BY <1>2, <1>3, <1>4, BooksSame DEF Seal, PipeInv

\* The peers decide a block.
LEMMA PeersDecideKeeps ==
    ASSUME PipeInv, NEW b \in BlockTxs, PeersDecide(b)
    PROVE  StepKeeps
<1>1. b \in SeqOf(Txs, MaxBlockTxs)
  BY DEF BlockTxs, BoundedSeq
<1>2. PICK m \in 0..MaxBlockTxs : b \in [1..m -> Txs]
  BY <1>1, Zenon DEF SeqOf
<1>3. m \in Nat /\ \A i \in 1..m : ValidateBasic(b[i]) /\ b[i].nonce > 0
  BY <1>2 DEF PeersDecide
<1>4. b \in [1..m -> Admitted]
  BY <1>2, <1>3 DEF Admitted
<1>5. b \in Seq(Admitted)
  BY <1>3, <1>4
<1>6. DecidedType'
  BY <1>5, DecideType DEF PeersDecide, PipeInv
<1>7. PoolType'
  BY DEF PeersDecide, pool, PipeInv, PoolType
<1> QED BY <1>6, <1>7, BooksSame DEF PeersDecide, PipeInv

\* An announced block passes the checks.
LEMMA GossipBeginsKeeps ==
    ASSUME PipeInv, GossipBegins
    PROVE  StepKeeps
<1>0. tip + 1 \in 1..Len(decided) /\ tip + 1 \in Nat
  <2>1. tip \in Nat /\ tip < Len(decided)
    BY DEF GossipBegins, PipeInv
  <2>2. PICK S : decided \in Seq(S)
    BY DEF PipeInv, DecidedType
  <2> QED BY <2>1, <2>2
<1>1. decided[tip + 1].txs \in Seq(Admitted)
  BY <1>0 DEF PipeInv, DecidedType
<1>2. gossip' \in GossipState
  BY <1>0, <1>1 DEF GossipBegins, GossipState
<1>3. PoolType' /\ DecidedType'
  BY DEF GossipBegins, pool, PipeInv, PoolType, DecidedType
<1> QED BY <1>2, <1>3, BooksSame DEF GossipBegins, PipeInv

\* An announced block is saved.
LEMMA GossipSavesKeeps ==
    ASSUME PipeInv, GossipSaves
    PROVE  StepKeeps
<1>1. <<>> \in Seq(Admitted) /\ 0 \in Nat /\ gossip.height \in Nat
  BY DEF PipeInv, GossipState
<1>2. gossip' \in GossipState /\ tip' \in Nat
  BY <1>1 DEF GossipSaves, GossipState
<1>3. PoolType' /\ DecidedType'
  BY DEF GossipSaves, pool, PipeInv, PoolType, DecidedType
<1> QED BY <1>2, <1>3, BooksSame DEF GossipSaves, PipeInv

\* The node restarts from its store.
LEMMA RestartKeeps ==
    ASSUME PipeInv, Restart
    PROVE  StepKeeps
<1>1. <<>> \in Seq(Admitted) /\ <<>> \in Seq(Txs) /\ 0 \in Nat /\ tip + 1 \in Nat
  BY DEF PipeInv
<1>2. gossip' \in GossipState /\ engine' \in EngineState
  BY <1>1 DEF Restart, GossipState, EngineState
<1>3. PoolType' /\ DecidedType'
  BY <1>1 DEF Restart, PipeInv, PoolType, DecidedType
<1> QED BY <1>2, <1>3, BooksSame DEF Restart, PipeInv
-----------------------------------------------------------------------------
\* A transaction of a decided block is applied, or fails and leaves the books alone.
LEMMA ApplyNextKeeps ==
    ASSUME PipeInv, ApplyNext
    PROVE  StepKeeps
<1> DEFINE t == Head(engine.todo)
<1>0. engine \in EngineState /\ engine.todo \in Seq(Admitted) /\ engine.todo # <<>>
  BY DEF ApplyNext, PipeInv, EngineState
<1>1. t \in Admitted /\ t \in Txs /\ Tail(engine.todo) \in Seq(Admitted)
  BY <1>0, TailOK DEF Admitted
<1>2. engine' \in EngineState
  BY <1>0, <1>1 DEF ApplyNext, EngineState
<1> HIDE DEF t
<1>3. [AdmittedNext]_vars
  <2>1. CASE CanApply(ledger, t)
    <3>1. ledger' = ApplyTx(ledger, t) /\ times' = [times EXCEPT ![t] = @ + 1] /\ seeded' = seeded
      BY <2>1 DEF ApplyNext, ApplyOrSkip, t
    <3>2. ApplyAdmitted(t)
      BY <1>1, <2>1, <3>1, AppliesFirst DEF PipeInv
    <3> QED BY <1>1, <3>2 DEF AdmittedNext
  <2>2. CASE ~CanApply(ledger, t)
    BY <2>2 DEF ApplyNext, ApplyOrSkip, t, vars
  <2> QED BY <2>1, <2>2
<1>4. LedgerInv' /\ NoZeroApplied'
  BY <1>3, BooksKeep DEF PipeInv
<1>5. PoolType' /\ DecidedType'
  BY DEF ApplyNext, pool, PipeInv, PoolType, DecidedType
<1> QED BY <1>2, <1>3, <1>4, <1>5 DEF StepKeeps, PipeInv, ApplyNext

\* So is one of an announced block, or the block is given up.
LEMMA GossipAppliesKeeps ==
    ASSUME PipeInv, GossipApplies
    PROVE  StepKeeps
<1> DEFINE t == Head(gossip.todo)
<1>0. gossip \in GossipState /\ gossip.todo \in Seq(Admitted) /\ gossip.todo # <<>>
  BY DEF GossipApplies, PipeInv, GossipState
<1>1. t \in Admitted /\ t \in Txs /\ Tail(gossip.todo) \in Seq(Admitted)
  BY <1>0, TailOK DEF Admitted
<1>2. gossip' \in GossipState
  <2>1. <<>> \in Seq(Admitted) /\ 0 \in Nat
    OBVIOUS
  <2>2. CASE gossip' = [gossip EXCEPT !.todo = Tail(@)]
    BY <1>0, <1>1, <2>2 DEF GossipState
  <2>3. CASE gossip' = [height |-> 0, pc |-> "idle", todo |-> <<>>]
    BY <2>1, <2>3 DEF GossipState
  <2> QED BY <2>2, <2>3 DEF GossipApplies
<1> HIDE DEF t
<1>3. [AdmittedNext]_vars
  <2>1. CASE CanApply(ledger, t)
    <3>1. ledger' = ApplyTx(ledger, t) /\ times' = [times EXCEPT ![t] = @ + 1] /\ seeded' = seeded
      BY <2>1 DEF GossipApplies, t
    <3>2. ApplyAdmitted(t)
      BY <1>1, <2>1, <3>1, AppliesFirst DEF PipeInv
    <3> QED BY <1>1, <3>2 DEF AdmittedNext
  <2>2. CASE ~CanApply(ledger, t)
    BY <2>2 DEF GossipApplies, t, vars, books
  <2> QED BY <2>1, <2>2
<1>4. LedgerInv' /\ NoZeroApplied'
  BY <1>3, BooksKeep DEF PipeInv
<1>5. PoolType' /\ DecidedType'
  BY DEF GossipApplies, pool, PipeInv, PoolType, DecidedType
<1> QED BY <1>2, <1>3, <1>4, <1>5 DEF StepKeeps, PipeInv, GossipApplies

\* Every step keeps PipeInv,
LEMMA PipeInvNext ==
    ASSUME PipeInv, [PipelineNext]_pipeline
    PROVE  StepKeeps
<1>1. CASE UNCHANGED pipeline
  <2>1. PoolType' /\ DecidedType' /\ UNCHANGED <<books, engine, gossip, tip>>
    BY <1>1 DEF pipeline, books, PipeInv, PoolType, DecidedType
  <2> QED BY <2>1, BooksSame DEF PipeInv
<1>2. CASE PipelineNext
  BY <1>2, SubmitKeeps, FinishAddKeeps, ProposeKeeps, SigningFailsKeeps, ReturnTxKeeps, ReturnedAllKeeps,
     AcceptKeeps, RoundFailsKeeps, CommitKeeps, CommitUnseenKeeps, ApplyNextKeeps, SealKeeps,
     PeersDecideKeeps, GossipBeginsKeeps, GossipAppliesKeeps, GossipSavesKeeps, RestartKeeps
     DEF PipelineNext
<1> QED BY <1>1, <1>2

\* which holds at the start.
LEMMA PipeInvInit == PipelineInit => PipeInv
<1> SUFFICES ASSUME PipelineInit PROVE PipeInv
  OBVIOUS
<1>1. LedgerInv /\ NoZeroApplied
  BY AdmittedInit DEF PipelineInit, AdmittedInv
<1>2. <<>> \in Seq(Admitted) /\ <<>> \in Seq(Txs) /\ 0 \in Nat /\ 1 \in Nat
  OBVIOUS
<1>3. PoolType /\ DecidedType
  <2>1. \E S : decided \in Seq(S)
    BY <1>2 DEF PipelineInit
  <2> QED BY <1>2, <2>1 DEF PipelineInit, PoolType, DecidedType
<1>4. engine \in EngineState /\ gossip \in GossipState /\ tip \in Nat
  BY <1>2 DEF PipelineInit, EngineState, GossipState
<1> QED BY <1>1, <1>3, <1>4 DEF PipeInv

(***************************************************************************)
(* Every transaction on its way into the ledger, in a request, in the      *)
(* pool, in a proposal or in a decided block, has passed a mempool's       *)
(* CheckTx, and the books stay those of Ledger.                            *)
(***************************************************************************)
THEOREM PipeInvHolds == PipelineSpec => []PipeInv
<1>1. PipeInv /\ [PipelineNext]_pipeline => PipeInv'
  BY PipeInvNext DEF StepKeeps
<1> QED BY <1>1, PipeInvInit, PTL DEF PipelineSpec

(***************************************************************************)
(* The pipeline implements Ledger: commitLocked and the gossip handler,    *)
(* interleaved in any way, with failures and restarts, change the books    *)
(* only by whole ApplyTx steps of admitted transactions, each applied for  *)
(* the first time.                                                         *)
(***************************************************************************)
THEOREM PipelineImplementsLedger == PipelineSpec => ImplementsLedger
<1>1. PipeInv /\ [PipelineNext]_pipeline => [AdmittedNext]_vars
  BY PipeInvNext DEF StepKeeps
<1>2. PipelineInit => Init
  BY DEF PipelineInit
<1> QED BY <1>1, <1>2, PipeInvHolds, PTL DEF PipelineSpec, ImplementsLedger, AdmittedSpec

(***************************************************************************)
(* What Ledger promises behind CheckTx, the node keeps: no balance below   *)
(* zero, and no transaction applied twice, whether by commit or by gossip, *)
(* as long as every peer that decides blocks has checked them as well.     *)
(***************************************************************************)
THEOREM PipelineSafe == PipelineSpec => [](Solvent /\ NoReplay)
<1>1. PipeInv => Solvent /\ NoReplay
  BY NeverReset DEF PipeInv, LedgerInv, AdmittedInv
<1> QED BY <1>1, PipeInvHolds, PTL
-----------------------------------------------------------------------------
\* A sequence that holds nothing twice does so after one more.
LEMMA InjectiveAppend ==
    ASSUME NEW S, NEW s \in Seq(S), NEW t \in S, IsInjective(s), t \notin ToSet(s)
    PROVE  IsInjective(Append(s, t)) /\ ToSet(Append(s, t)) = ToSet(s) \cup {t}
<1> DEFINE r == Append(s, t)
<1>1. /\ Len(s) \in Nat /\ DOMAIN s = 1..Len(s) /\ DOMAIN r = 1..(Len(s) + 1)
      /\ \A i \in 1..Len(s) : r[i] = s[i]
      /\ r[Len(s) + 1] = t
  OBVIOUS
<1> HIDE DEF r
<1>2. \A i \in 1..Len(s) : s[i] # t
  BY <1>1 DEF ToSet
<1>3. IsInjective(r)
  BY <1>1, <1>2 DEF IsInjective
<1>4. ToSet(r) = ToSet(s) \cup {t}
  <2>1. \A i \in DOMAIN r : r[i] \in ToSet(s) \cup {t}
    BY <1>1 DEF ToSet
  <2>2. t \in ToSet(r)
    BY <1>1 DEF ToSet
  <2>3. \A i \in DOMAIN s : s[i] \in ToSet(r)
    BY <1>1 DEF ToSet
  <2> QED BY <2>1, <2>2, <2>3 DEF ToSet
<1> QED BY <1>3, <1>4 DEF r

\* A part of a sequence that holds nothing twice does so too.
LEMMA InjectiveSubSeq ==
    ASSUME NEW S, NEW s \in Seq(S), NEW m \in Nat, m > 0, NEW n \in Int, n <= Len(s), IsInjective(s)
    PROVE  /\ IsInjective(SubSeq(s, m, n))
           /\ ToSet(SubSeq(s, m, n)) = {s[i] : i \in m..n}
           /\ Len(SubSeq(s, m, n)) = IF m <= n THEN n - m + 1 ELSE 0
<1> DEFINE r == SubSeq(s, m, n)
<1>0. Len(s) \in Nat /\ DOMAIN s = 1..Len(s) /\ m \in Int
  OBVIOUS
<1>1. \A i \in m..n : s[i] \in S /\ i \in DOMAIN s
  BY <1>0
<1>2. /\ r \in Seq(S) /\ Len(r) = IF m <= n THEN n - m + 1 ELSE 0
      /\ \A i \in 1..(n - m + 1) : r[i] = s[m + i - 1]
  BY <1>0, <1>1, SubSeqProperties
<1> HIDE DEF r
<1>3. \A i \in DOMAIN r : i \in 1..(n - m + 1) /\ m + i - 1 \in m..n /\ r[i] = s[m + i - 1]
  <2>1. \A i \in DOMAIN r : i \in 1..(n - m + 1)
    BY <1>2
  <2> QED BY <1>2, <2>1
<1>4. IsInjective(r)
  <2> SUFFICES ASSUME NEW i \in DOMAIN r, NEW j \in DOMAIN r, r[i] = r[j] PROVE i = j
    BY DEF IsInjective
  <2>1. s[m + i - 1] = s[m + j - 1] /\ m + i - 1 \in DOMAIN s /\ m + j - 1 \in DOMAIN s
    BY <1>1, <1>3
  <2>2. m + i - 1 = m + j - 1
    BY <2>1 DEF IsInjective
  <2>3. i \in Int /\ j \in Int
    BY <1>3
  <2> QED BY <2>2, <2>3
<1>5. ToSet(r) = {s[i] : i \in m..n}
  <2>1. \A i \in DOMAIN r : r[i] \in {s[k] : k \in m..n}
    BY <1>3
  <2>2. ASSUME NEW k \in m..n PROVE \E i \in DOMAIN r : r[i] = s[k]
    <3>1. k - m + 1 \in DOMAIN r /\ m + (k - m + 1) - 1 = k
      BY <1>2
    <3> QED BY <1>3, <3>1
  <2> QED BY <2>1, <2>2 DEF ToSet
<1> QED BY <1>2, <1>4, <1>5 DEF r

\* Add's critical section keeps the containers equal and within their limits.
LEMMA InsertConsistent ==
    ASSUME PoolType, PoolConsistent, NEW t \in Admitted, Insert(t)
    PROVE  PoolConsistent'
<1>0. order \in Seq(Admitted) /\ seen \in Seq(Txs) /\ t \in Txs /\ byHash \subseteq Txs
  BY DEF PoolType, Admitted
<1>1. CASE ~Admits(t)
  BY <1>1 DEF Insert, PoolConsistent
<1>2. CASE Admits(t)
  <2>1. /\ order' = Append(order, t) /\ byHash' = byHash \cup {t} /\ seen' = PruneSeen(Append(seen, t))
        /\ t \notin byHash /\ t \notin ToSet(seen) /\ Cardinality(byHash) < MaxTxs
    BY <1>2 DEF Insert, Admits
  <2>2. IsInjective(order') /\ ToSet(order') = byHash'
    BY <1>0, <2>1, InjectiveAppend DEF PoolConsistent
  <2>3. Len(order) <= Cardinality(byHash) /\ Cardinality(byHash) \in Nat
    <3>1. IsFiniteSet(byHash)
      BY <1>0, TxsType, FS_Subset
    <3>2. order \in Injection(1..Len(order), byHash)
      <4>1. order \in [1..Len(order) -> byHash]
        BY <1>0 DEF PoolConsistent, ToSet
      <4> QED BY <4>1 DEF Injection, PoolConsistent
    <3>3. Cardinality(1..Len(order)) <= Cardinality(byHash)
      BY <3>1, <3>2, FS_Injection
    <3>4. Len(order) \in Nat
      BY <1>0
    <3>5. Cardinality(1..Len(order)) = Len(order)
      <4>1. 1 \in Int /\ Len(order) \in Int
        BY <3>4
      <4>2. Cardinality(1..Len(order)) = IF 1 > Len(order) THEN 0 ELSE Len(order) - 1 + 1
        BY <4>1, FS_Interval
      <4> QED BY <3>4, <4>2
    <3> QED BY <3>1, <3>3, <3>5, FS_CardinalityType
  <2>4. Len(order') <= MaxTxs
    BY <1>0, <2>1, <2>3, Sizes
  <2>5. IsInjective(seen') /\ Len(seen') <= CacheSize
    <3> DEFINE s == Append(seen, t)
               m == Len(s) - (CacheSize * 3) \div 4 + 1
    <3>1. s \in Seq(Txs) /\ IsInjective(s) /\ Len(s) \in Nat
      BY <1>0, <2>1, InjectiveAppend DEF PoolConsistent
    <3> HIDE DEF s
    <3>2. CASE Len(s) <= CacheSize
      BY <2>1, <3>1, <3>2 DEF PruneSeen, s
    <3>3. CASE ~(Len(s) <= CacheSize)
      <4>1. m \in Nat /\ m > 0 /\ Len(s) - m + 1 = (CacheSize * 3) \div 4 /\ (CacheSize * 3) \div 4 <= CacheSize
        BY <3>1, <3>3, Sizes
      <4>2. seen' = SubSeq(s, m, Len(s))
        BY <2>1, <3>3 DEF PruneSeen, s
      <4> HIDE DEF m
      <4>3. /\ IsInjective(SubSeq(s, m, Len(s)))
            /\ Len(SubSeq(s, m, Len(s))) = IF m <= Len(s) THEN Len(s) - m + 1 ELSE 0
        BY <3>1, <4>1, InjectiveSubSeq
      <4> QED BY <4>1, <4>2, <4>3, Sizes
    <3> QED BY <3>2, <3>3
  <2> QED BY <2>2, <2>4, <2>5 DEF PoolConsistent
<1> QED BY <1>1, <1>2

\* Take removes the same transactions from both containers.
LEMMA ProposeConsistent ==
    ASSUME PoolType, PoolConsistent, Propose
    PROVE  PoolConsistent'
<1> DEFINE n == IF Len(order) < MaxBlockTxs THEN Len(order) ELSE MaxBlockTxs
<1>0. order \in Seq(Admitted) /\ Len(order) \in Nat /\ DOMAIN order = 1..Len(order)
  BY DEF PoolType
<1>1. n \in Nat /\ n <= Len(order)
  BY <1>0, Sizes
<1>2. /\ order' = SubSeq(order, n + 1, Len(order)) /\ byHash' = byHash \ ToSet(SubSeq(order, 1, n))
      /\ seen' = seen
  BY DEF Propose
<1> HIDE DEF n
<1>3. ToSet(SubSeq(order, 1, n)) = {order[i] : i \in 1..n}
  BY <1>0, <1>1, InjectiveSubSeq DEF PoolConsistent
<1>4. /\ IsInjective(order') /\ ToSet(order') = {order[i] : i \in (n + 1)..Len(order)}
      /\ Len(order') = IF n + 1 <= Len(order) THEN Len(order) - (n + 1) + 1 ELSE 0
  <2>1. n + 1 \in Nat /\ n + 1 > 0 /\ Len(order) \in Int
    BY <1>0, <1>1
  <2> QED BY <1>0, <1>2, <2>1, InjectiveSubSeq DEF PoolConsistent
<1>5. Len(order') <= MaxTxs
  <2>1. Len(order) <= MaxTxs /\ MaxTxs \in Nat
    BY Sizes DEF PoolConsistent
  <2>2. Len(order') = IF n + 1 <= Len(order) THEN Len(order) - (n + 1) + 1 ELSE 0
    BY <1>4
  <2>3. Len(order) - (n + 1) + 1 = Len(order) - n
    BY <1>0, <1>1
  <2> HIDE DEF n
  <2>4. CASE n + 1 <= Len(order)
    BY <1>0, <1>1, <2>1, <2>2, <2>3, <2>4
  <2>5. CASE ~(n + 1 <= Len(order))
    BY <2>1, <2>2, <2>5
  <2> QED BY <2>4, <2>5
<1>6. ToSet(order') = byHash'
  <2>1. byHash = {order[i] : i \in 1..Len(order)}
    BY <1>0 DEF PoolConsistent, ToSet
  <2>2. \A i \in 1..Len(order) : i \in 1..n \/ i \in (n + 1)..Len(order)
    BY <1>0, <1>1
  <2>3. \A i \in 1..n, j \in (n + 1)..Len(order) : order[i] # order[j]
    <3> SUFFICES ASSUME NEW i \in 1..n, NEW j \in (n + 1)..Len(order), order[i] = order[j] PROVE FALSE
      OBVIOUS
    <3>1. i \in DOMAIN order /\ j \in DOMAIN order /\ i # j
      BY <1>0, <1>1
    <3> QED BY <3>1 DEF PoolConsistent, IsInjective
  <2>4. \A i \in (n + 1)..Len(order) : i \in 1..Len(order)
    BY <1>0, <1>1
  <2> QED BY <1>2, <1>3, <1>4, <2>1, <2>2, <2>3, <2>4
<1> QED BY <1>2, <1>4, <1>5, <1>6 DEF PoolConsistent

(***************************************************************************)
(* Through concurrent submissions, proposals, transactions put back and    *)
(* restarts the mempool's queue and index hold the same transactions, each *)
(* once and within MaxTxs, and the seen cache stays within CacheSize.      *)
(***************************************************************************)
THEOREM PoolConsistentHolds == PipelineSpec => []PoolConsistent
<1>1. PipelineInit => PoolConsistent
  BY Sizes DEF PipelineInit, PoolConsistent, IsInjective, ToSet
<1>2. PipeInv /\ PoolConsistent /\ [PipelineNext]_pipeline => PoolConsistent'
  <2> SUFFICES ASSUME PipeInv, PoolConsistent, [PipelineNext]_pipeline PROVE PoolConsistent'
    OBVIOUS
  <2>1. ASSUME UNCHANGED <<order, byHash, seen>> PROVE PoolConsistent'
    BY <2>1 DEF PoolConsistent
  <2>2. ASSUME NEW c \in Clients, FinishAdd(c) PROVE PoolConsistent'
    <3>1. request[c] \in Admitted /\ Insert(request[c]) /\ PoolType
      BY <2>2 DEF FinishAdd, PipeInv, PoolType
    <3> QED BY <3>1, InsertConsistent
  <2>3. ASSUME ReturnTx PROVE PoolConsistent'
    <3>1. engine.todo \in Seq(Admitted) /\ engine.todo # <<>> /\ PoolType
      BY <2>3 DEF ReturnTx, PipeInv, EngineState
    <3>2. Head(engine.todo) \in Admitted
      BY <3>1, TailOK
    <3>3. CASE Insert(Head(engine.todo))
      BY <3>1, <3>2, <3>3, InsertConsistent
    <3> QED BY <2>1, <2>3, <3>3 DEF ReturnTx
  <2>4. ASSUME Propose PROVE PoolConsistent'
    BY <2>4, ProposeConsistent DEF PipeInv
  <2>5. ASSUME Restart PROVE PoolConsistent'
    BY <2>5, Sizes DEF Restart, PoolConsistent, IsInjective, ToSet
  <2>6. CASE UNCHANGED pipeline
    BY <2>1, <2>6 DEF pipeline
  <2>7. CASE PipelineNext
    BY <2>1, <2>2, <2>3, <2>4, <2>5, <2>7 DEF PipelineNext, Submit, SigningFails, ReturnedAll, Accept,
       RoundFails, Commit, CommitUnseen, ApplyNext, Seal, PeersDecide, GossipBegins, GossipApplies,
       GossipSaves, pool
  <2> QED BY <2>6, <2>7
<1> QED BY <1>1, <1>2, PipeInvHolds, PTL DEF PipelineSpec
-----------------------------------------------------------------------------
(***************************************************************************)
(* The ledger follows the decided blocks.  Its place is a pair (H, n): the *)
(* first H blocks have been run, and the first n transactions of the next. *)
(* Engine and gossip handler each have a cursor into a block of their own. *)
(* A block in which no transaction fails (Whole) may be run by both, even  *)
(* when it is over: what has been applied of it has its nonce used up, so  *)
(* that the engine skips it and the gossip handler gives up.  A block with *)
(* failing transactions is run by the engine alone, whose heights only     *)
(* grow, hence once, and its cursor is then exactly at n.                  *)
(***************************************************************************)

\* The recursion of After has a solution.
IsAfter(f, L, b, k) == f = [n \in 0..k |-> IF n = 0 THEN L ELSE ApplyOrSkip(f[n - 1], b[n])]

LEMMA AfterExists ==
    ASSUME NEW L, NEW b, NEW N \in Nat
    PROVE  \E f : IsAfter(f, L, b, N)
<1> DEFINE Bad == {k \in 0..N : ~\E f : IsAfter(f, L, b, k)}
<1> SUFFICES ASSUME Bad # {} PROVE FALSE OBVIOUS
<1>1. PICK k \in Bad : \A j \in Bad : ~(j < k)
  <2>1. Bad \subseteq Nat OBVIOUS
  <2> HIDE DEF Bad
  <2> QED BY <2>1, LeastOf
<1>2. k \in Nat /\ k <= N /\ ~\E f : IsAfter(f, L, b, k) BY <1>1
<1>3. CASE k = 0
  <2> DEFINE f == [n \in 0..0 |-> L]
  <2>1. IsAfter(f, L, b, 0) BY DEF IsAfter
  <2> QED BY <1>2, <1>3, <2>1
<1>4. CASE k # 0
  <2>1. k - 1 \in 0..N /\ k - 1 < k BY <1>2, <1>4
  <2>2. k - 1 \notin Bad BY <1>1, <2>1
  <2>3. PICK g : IsAfter(g, L, b, k - 1) BY <2>1, <2>2
  <2>4. \A n \in 0..(k - 1) : g[n] = IF n = 0 THEN L ELSE ApplyOrSkip(g[n - 1], b[n])
    BY <2>3 DEF IsAfter
  <2> DEFINE f == [n \in 0..k |-> IF n = k THEN ApplyOrSkip(g[k - 1], b[k]) ELSE g[n]]
  <2>5. f[k] = ApplyOrSkip(g[k - 1], b[k]) /\ \A n \in 0..(k - 1) : f[n] = g[n] BY <1>2
  <2>6. f = [n \in 0..k |-> f[n]] OBVIOUS
  <2> HIDE DEF f, Bad
  <2>7. ASSUME NEW n \in 0..k PROVE f[n] = IF n = 0 THEN L ELSE ApplyOrSkip(f[n - 1], b[n])
    <3>1. CASE n = k
      <4>1. k - 1 \in 0..(k - 1) BY <1>2, <1>4
      <4>2. f[k - 1] = g[k - 1] BY <2>5, <4>1
      <4> QED BY <1>2, <1>4, <2>5, <3>1, <4>2
    <3>2. CASE n # k
      <4>1. n \in 0..(k - 1) /\ (n # 0 => n - 1 \in 0..(k - 1)) BY <1>2, <3>2
      <4>2. f[n] = g[n] /\ (n # 0 => f[n - 1] = g[n - 1]) BY <2>5, <4>1
      <4> QED BY <2>4, <4>1, <4>2
    <3> QED BY <3>1, <3>2
  <2>8. IsAfter(f, L, b, k) BY <2>6, <2>7 DEF IsAfter
  <2> QED BY <1>2, <2>8
<1> QED BY <1>3, <1>4

\* A block starts from the ledger before it, and each transaction is applied or skipped.
LEMMA AfterIs ==
    ASSUME NEW L, NEW b, Len(b) \in Nat
    PROVE  /\ After(L, b)[0] = L
           /\ \A i \in 1..Len(b) : After(L, b)[i] = ApplyOrSkip(After(L, b)[i - 1], b[i])
<1> DEFINE a == After(L, b)
<1>1. \E f : IsAfter(f, L, b, Len(b)) BY AfterExists
<1>2. IsAfter(a, L, b, Len(b)) BY <1>1 DEF After, IsAfter
<1> HIDE DEF a
<1>3. \A n \in 0..Len(b) : a[n] = IF n = 0 THEN L ELSE ApplyOrSkip(a[n - 1], b[n])
  BY <1>2 DEF IsAfter
<1>4. a[0] = L BY <1>3
<1>5. \A i \in 1..Len(b) : a[i] = ApplyOrSkip(a[i - 1], b[i])
  <2> TAKE i \in 1..Len(b)
  <2>1. i \in 0..Len(b) /\ i # 0 OBVIOUS
  <2> QED BY <1>3, <2>1
<1> QED BY <1>4, <1>5 DEF a

Body(h) == decided[h].txs
At(h, n) == After(decided[h].before, Body(h))[n]
Whole(h) == AllApply(decided[h].before, Body(h))

\* The transaction's nonce is used up.
Used(t) == t.nonce <= ledger.acc[t.from].nonce

\* todo is what is left of block h from its transaction i on.
IsRest(todo, h, i) ==
    /\ i \in 1..(Len(Body(h)) + 1) /\ Len(todo) = (Len(Body(h)) + 1) - i
    /\ \A k \in 1..Len(todo) : todo[k] = Body(h)[(i + k) - 1]

\* Every block starts where the one before it ends.
ChainInv == \A h \in 1..(Len(decided) - 1) :
    decided[h + 1].before = ApplyAll(decided[h].before, Body(h))

Place(H, n) ==
    /\ tip <= H
    /\ H = Len(decided) => n = 0 /\ ledger = Network
    /\ H < Len(decided) => n <= Len(Body(H + 1)) /\ ledger = At(H + 1, n)

\* The place lies beyond transaction i of block h.
Passed(H, n, h, i) == h <= H \/ (h = H + 1 /\ i <= n)

UsedInv(H, n) == \A h \in 1..Len(decided) : Whole(h) =>
    \A i \in 1..Len(Body(h)) : Passed(H, n, h, i) => Used(Body(h)[i])

\* Only the engine has begun a block with failing transactions, and never again.
OnceInv(H, n) == \A h \in 1..Len(decided) :
    ~Whole(h) /\ Passed(H, n, h, 1) => h < engine.height \/ (h = engine.height /\ engine.pc = "apply")

\* The engine at transaction i of block h, with the rest still to do.
EngineAt(H, n, h, i, todo) ==
    /\ IsRest(todo, h, i)
    /\ \/ h = H + 1 /\ (i = n + 1 \/ (Whole(h) /\ i <= n + 1))
       \/ h <= H /\ (Whole(h) \/ todo = <<>>)

EngineInv(H, n) ==
    /\ engine.height > 0
    /\ engine.pc \in {"proposed", "accepted", "apply"} => engine.height <= H + 1
    /\ engine.pc \in {"accepted", "apply"} => engine.height <= Len(decided)
    /\ engine.pc = "accepted" => engine.todo = Body(engine.height)
    /\ engine.pc = "apply" => \E i \in Nat : EngineAt(H, n, engine.height, i, engine.todo)

GossipInv(H, n) == gossip.pc = "apply" =>
    /\ gossip.height \in 1..Len(decided) /\ Whole(gossip.height)
    /\ \E j \in Nat : /\ IsRest(gossip.todo, gossip.height, j)
                      /\ gossip.height <= H \/ (gossip.height = H + 1 /\ j <= n + 1)

Spot(H, n) ==
    Place(H, n) /\ UsedInv(H, n) /\ OnceInv(H, n) /\ EngineInv(H, n) /\ GossipInv(H, n)

\* A block of the sequence and its parts.
LEMMA Bodies ==
    ASSUME PipeInv
    PROVE  /\ Len(decided) \in Nat
           /\ \A h \in 1..Len(decided) : Body(h) \in Seq(Admitted) /\ Len(Body(h)) \in Nat
           /\ engine.height \in Nat /\ engine.todo \in Seq(Admitted)
           /\ gossip.height \in Nat /\ gossip.todo \in Seq(Admitted) /\ tip \in Nat
<1>1. Len(decided) \in Nat
  <2>1. PICK S : decided \in Seq(S) BY DEF PipeInv, DecidedType
  <2> QED BY <2>1
<1>2. \A h \in 1..Len(decided) : Body(h) \in Seq(Admitted) BY DEF PipeInv, DecidedType, Body
<1>3. /\ engine.height \in Nat /\ engine.todo \in Seq(Admitted)
      /\ gossip.height \in Nat /\ gossip.todo \in Seq(Admitted) /\ tip \in Nat
  BY DEF PipeInv, EngineState, GossipState
<1> QED BY <1>1, <1>2, <1>3

\* The first of the rest, and the rest of the rest.
LEMMA RestParts ==
    ASSUME NEW todo \in Seq(Admitted), NEW h, Body(h) \in Seq(Admitted), NEW i \in Nat,
           IsRest(todo, h, i)
    PROVE  /\ todo = <<>> => i = Len(Body(h)) + 1
           /\ todo # <<>> => /\ i \in 1..Len(Body(h)) /\ Head(todo) = Body(h)[i]
                             /\ IsRest(Tail(todo), h, i + 1)
<1> DEFINE b == Body(h)
<1>1. /\ Len(b) \in Nat /\ i \in 1..(Len(b) + 1) /\ Len(todo) = (Len(b) + 1) - i
      /\ \A k \in 1..Len(todo) : todo[k] = b[(i + k) - 1]
  BY DEF IsRest
<1> HIDE DEF b
<1>2. todo = <<>> => i = Len(b) + 1
  <2> SUFFICES ASSUME todo = <<>> PROVE i = Len(b) + 1 OBVIOUS
  <2>1. Len(todo) = 0 OBVIOUS
  <2> QED BY <1>1, <2>1
<1>3. ASSUME todo # <<>>
      PROVE  i \in 1..Len(b) /\ Head(todo) = b[i] /\ IsRest(Tail(todo), h, i + 1)
  <2>1. Len(todo) \in Nat /\ Len(todo) # 0 BY <1>3, EmptySeq
  <2>2. i \in 1..Len(b) /\ i + 1 \in 1..(Len(b) + 1) /\ (i + 1) - 1 = i BY <1>1, <2>1
  <2>3. 1 \in 1..Len(todo) BY <2>1
  <2>4. Head(todo) = todo[1] BY <1>3
  <2>5. todo[1] = b[(i + 1) - 1] BY <1>1, <2>3
  <2>6. Len(Tail(todo)) = Len(todo) - 1 /\ \A k \in 1..(Len(todo) - 1) : Tail(todo)[k] = todo[k + 1]
    BY <1>3
  <2>7. Len(Tail(todo)) = (Len(b) + 1) - (i + 1) BY <1>1, <2>6
  <2>8. \A k \in 1..Len(Tail(todo)) : Tail(todo)[k] = b[((i + 1) + k) - 1]
    <3> TAKE k \in 1..Len(Tail(todo))
    <3>1. k \in 1..(Len(todo) - 1) /\ k + 1 \in 1..Len(todo) BY <2>1, <2>6
    <3>2. todo[k + 1] = b[(i + (k + 1)) - 1] BY <1>1, <3>1
    <3>3. (i + (k + 1)) - 1 = ((i + 1) + k) - 1 BY <1>1, <3>1
    <3> QED BY <2>6, <3>1, <3>2, <3>3
  <2> QED BY <2>2, <2>4, <2>5, <2>7, <2>8 DEF IsRest, b
<1> QED BY <1>2, <1>3 DEF b

\* A whole block is left over at its beginning.
LEMMA RestOfAll ==
    ASSUME NEW h, Body(h) \in Seq(Admitted)
    PROVE  IsRest(Body(h), h, 1)
<1> DEFINE b == Body(h)
<1>1. Len(b) \in Nat /\ b \in Seq(Admitted) OBVIOUS
<1> HIDE DEF b
<1>2. \A k \in 1..Len(b) : (1 + k) - 1 = k OBVIOUS
<1>3. 1 \in 1..(Len(b) + 1) /\ Len(b) = (Len(b) + 1) - 1 BY <1>1
<1> QED BY <1>2, <1>3 DEF IsRest, b

\* What is used up fails, stays used up, and is what ApplyTx leaves behind.
LEMMA UsedFails ==
    ASSUME LedgerInv, NEW t \in Admitted, Used(t)
    PROVE  ~CanApply(ledger, t)
BY DEF Admitted, Used, CanApply, NonceFresh

LEMMA UsedStays ==
    ASSUME LedgerInv, NEW t \in Admitted, CanApply(ledger, t), ledger' = ApplyTx(ledger, t)
    PROVE  Used(t)' /\ \A u \in Admitted : Used(u) => Used(u)'
<1>1. /\ t \in Transaction /\ t \in Txs /\ t.from \in Accounts /\ t.nonce \in Nat /\ t.nonce > 0
      /\ ~SelfTransfer(t)
  BY TxsType, NoSelfTransfers DEF Admitted, Transaction
<1>2. ledger \in [acc : [Accounts -> Account], minted : 0..MiningCap]
  BY DEF LedgerInv, Solvent
<1>3. \A a \in Accounts : ledger'.acc[a].nonce = IF a = t.from THEN t.nonce ELSE ledger.acc[a].nonce
  BY <1>1, <1>2, ApplyNonces
<1>4. \A a \in Accounts : ledger.acc[a].nonce \in Nat BY <1>2 DEF Account
<1>5. ledger.acc[t.from].nonce < t.nonce BY <1>1, <1>4 DEF CanApply, NonceFresh
<1>6. Used(t)' BY <1>1, <1>3 DEF Used
<1>7. ASSUME NEW u \in Admitted, Used(u) PROVE Used(u)'
  <2>1. u.from \in Accounts /\ u.nonce \in Nat BY TxsType DEF Admitted, Transaction
  <2>2. u.nonce <= ledger.acc[u.from].nonce BY <1>7 DEF Used
  <2>3. CASE u.from = t.from BY <1>1, <1>3, <1>4, <1>5, <2>1, <2>2, <2>3 DEF Used
  <2>4. CASE u.from # t.from BY <1>3, <2>1, <2>2, <2>4 DEF Used
  <2> QED BY <2>3, <2>4
<1> QED BY <1>6, <1>7

\* A block that has been run to its end is behind the place.
LEMMA NextBlock ==
    ASSUME PipeInv, ChainInv, NEW H \in 0..Len(decided), NEW n \in Nat, Spot(H, n),
           H < Len(decided), n = Len(Body(H + 1))
    PROVE  Spot(H + 1, 0) /\ H + 1 \in 0..Len(decided)
<1>1. /\ Len(decided) \in Nat /\ engine.height \in Nat /\ engine.todo \in Seq(Admitted)
      /\ gossip.height \in Nat /\ tip \in Nat
      /\ \A h \in 1..Len(decided) : Body(h) \in Seq(Admitted) /\ Len(Body(h)) \in Nat
  BY Bodies
<1>2. H \in Nat /\ H + 1 \in 1..Len(decided) BY <1>1
<1>3. /\ Place(H, n) /\ UsedInv(H, n) /\ OnceInv(H, n) /\ EngineInv(H, n) /\ GossipInv(H, n)
  BY DEF Spot
<1>4. ledger = ApplyAll(decided[H + 1].before, Body(H + 1))
  BY <1>3 DEF Place, At, ApplyAll
<1>5. Place(H + 1, 0)
  <2>1. tip <= H + 1 BY <1>1, <1>2, <1>3 DEF Place
  <2>2. CASE H + 1 = Len(decided)
    <3>1. decided # <<>> /\ Last(decided) = decided[H + 1]
      <4>1. decided # <<>> BY <1>2, <2>2
      <4> QED BY <2>2, <4>1 DEF Last
    <3>2. ledger = Network BY <1>4, <3>1 DEF Network, Body
    <3> QED BY <1>1, <2>1, <2>2, <3>2 DEF Place
  <2>3. CASE H + 1 # Len(decided)
    <3>1. H + 1 \in 1..(Len(decided) - 1) /\ (H + 1) + 1 \in 1..Len(decided) BY <1>1, <1>2, <2>3
    <3>2. ledger = decided[(H + 1) + 1].before BY <1>4, <3>1 DEF ChainInv
    <3>3. At((H + 1) + 1, 0) = decided[(H + 1) + 1].before BY <1>1, <3>1, AfterIs DEF At
    <3>4. 0 <= Len(Body((H + 1) + 1)) BY <1>1, <3>1
    <3> QED BY <2>1, <2>3, <3>2, <3>3, <3>4 DEF Place
  <2> QED BY <2>2, <2>3
<1>6. ASSUME NEW h \in 1..Len(decided), NEW i \in 1..Len(Body(h)), Passed(H + 1, 0, h, i)
      PROVE  Passed(H, n, h, i)
  <2>1. h <= H + 1 BY <1>6 DEF Passed
  <2>2. CASE h <= H BY <2>2 DEF Passed
  <2>3. CASE h = H + 1 BY <1>1, <2>3 DEF Passed
  <2> QED BY <1>2, <2>1, <2>2, <2>3
<1>7. UsedInv(H + 1, 0) BY <1>3, <1>6 DEF UsedInv
<1>8. OnceInv(H + 1, 0)
  <2> SUFFICES ASSUME NEW h \in 1..Len(decided), ~Whole(h), Passed(H + 1, 0, h, 1)
               PROVE  h < engine.height \/ (h = engine.height /\ engine.pc = "apply")
    BY DEF OnceInv
  <2>1. 1 \in 1..Len(Body(h))
    <3>1. Body(h) \in Seq(Admitted) /\ Len(Body(h)) \in Nat BY <1>1
    <3>2. CASE Len(Body(h)) = 0
      <4>1. DOMAIN Body(h) = {} BY <3>1, <3>2
      <4>2. Whole(h) BY <4>1 DEF Whole, AllApply
      <4> QED BY <4>2
    <3> QED BY <3>1, <3>2
  <2>2. Passed(H, n, h, 1) BY <1>6, <2>1
  <2> QED BY <1>3, <2>2 DEF OnceInv
<1>9. EngineInv(H + 1, 0)
  <2>1. engine.height <= H + 1 => engine.height <= (H + 1) + 1 BY <1>1, <1>2
  <2>2. ASSUME engine.pc = "apply"
        PROVE  \E i \in Nat : EngineAt(H + 1, 0, engine.height, i, engine.todo)
    <3> DEFINE h == engine.height
    <3>1. PICK i \in Nat : EngineAt(H, n, h, i, engine.todo) BY <1>3, <2>2 DEF EngineInv
    <3>2. h <= H + 1 /\ h \in 1..Len(decided) BY <1>1, <1>3, <2>2 DEF EngineInv
    <3> HIDE DEF h
    <3>3. IsRest(engine.todo, h, i) BY <3>1 DEF EngineAt
    <3>4. Whole(h) \/ engine.todo = <<>>
      <4> SUFFICES ASSUME ~Whole(h), engine.todo # <<>> PROVE FALSE OBVIOUS
      <4>1. h = H + 1 /\ i = n + 1 BY <3>1 DEF EngineAt
      <4>2. i \in 1..Len(Body(h)) BY <1>1, <3>2, <3>3, RestParts
      <4> QED BY <1>1, <4>1, <4>2
    <3> QED BY <3>2, <3>3, <3>4 DEF EngineAt, h
  <2> QED BY <1>3, <2>1, <2>2 DEF EngineInv
<1>10. GossipInv(H + 1, 0)
  <2> SUFFICES ASSUME gossip.pc = "apply"
               PROVE  /\ gossip.height \in 1..Len(decided) /\ Whole(gossip.height)
                      /\ \E j \in Nat : IsRest(gossip.todo, gossip.height, j) /\ gossip.height <= H + 1
    BY DEF GossipInv
  <2>1. PICK j \in Nat : /\ gossip.height \in 1..Len(decided) /\ Whole(gossip.height)
                         /\ IsRest(gossip.todo, gossip.height, j)
                         /\ gossip.height <= H \/ gossip.height = H + 1
    BY <1>3 DEF GossipInv
  <2>2. gossip.height <= H + 1 BY <1>1, <1>2, <2>1
  <2> QED BY <2>1, <2>2
<1> QED BY <1>1, <1>2, <1>5, <1>7, <1>8, <1>9, <1>10 DEF Spot

\* The place moves on by the transaction that comes next.
LEMMA OneTxOn ==
    ASSUME PipeInv, NEW H \in 0..Len(decided), NEW n \in Nat, Place(H, n), UsedInv(H, n),
           H < Len(decided), n < Len(Body(H + 1)),
           ledger' = ApplyOrSkip(ledger, Body(H + 1)[n + 1]), decided' = decided, tip' = tip
    PROVE  Place(H, n + 1)' /\ UsedInv(H, n + 1)' /\ (Whole(H + 1) => CanApply(ledger, Body(H + 1)[n + 1]))
<1>0. PICK t : t = Body(H + 1)[n + 1] OBVIOUS
<1>1. /\ Len(decided) \in Nat /\ tip \in Nat
      /\ \A h \in 1..Len(decided) : Body(h) \in Seq(Admitted) /\ Len(Body(h)) \in Nat
  BY Bodies
<1>2. H \in Nat /\ H + 1 \in 1..Len(decided) /\ n + 1 \in 1..Len(Body(H + 1)) BY <1>1
<1>3. ledger = At(H + 1, n) /\ (n + 1) - 1 = n BY DEF Place
<1>4. At(H + 1, n + 1) = ApplyOrSkip(At(H + 1, n), t)
  <2> DEFINE L == decided[H + 1].before
             b == Body(H + 1)
  <2>1. Len(b) \in Nat /\ n + 1 \in 1..Len(b) BY <1>1, <1>2
  <2> HIDE DEF b, L
  <2>2. After(L, b)[n + 1] = ApplyOrSkip(After(L, b)[(n + 1) - 1], b[n + 1]) BY <2>1, AfterIs
  <2> QED BY <1>0, <1>3, <2>2 DEF At, b, L
<1>5. t \in Admitted BY <1>0, <1>1, <1>2
<1>6. Place(H, n + 1)'
  <2>1. ledger' = At(H + 1, n + 1)' BY <1>0, <1>3, <1>4 DEF At, Body
  <2>2. (n + 1 <= Len(Body(H + 1)))' BY <1>2 DEF Body
  <2>3. (tip <= H /\ H # Len(decided))' BY <1>1 DEF Place
  <2> QED BY <2>1, <2>2, <2>3 DEF Place
<1>7. Whole(H + 1) => CanApply(ledger, t)
  <2> SUFFICES ASSUME Whole(H + 1) PROVE CanApply(ledger, t) OBVIOUS
  <2>1. n + 1 \in DOMAIN Body(H + 1) BY <1>1, <1>2
  <2>2. CanApply(After(decided[H + 1].before, Body(H + 1))[(n + 1) - 1], t)
    BY <1>0, <2>1 DEF Whole, AllApply
  <2> QED BY <1>3, <2>2 DEF At
<1>8. LedgerInv BY DEF PipeInv
<1>9. ledger' = ApplyOrSkip(ledger, t) BY <1>0
<1>10. \A u \in Admitted : Used(u) => Used(u)'
  <2>1. CASE CanApply(ledger, t)
    <3>1. ledger' = ApplyTx(ledger, t) BY <1>9, <2>1 DEF ApplyOrSkip
    <3> QED BY <1>5, <1>8, <2>1, <3>1, UsedStays
  <2>2. CASE ~CanApply(ledger, t) BY <1>9, <2>2 DEF ApplyOrSkip, Used
  <2> QED BY <2>1, <2>2
<1>11. Whole(H + 1) => Used(t)'
  <2> SUFFICES ASSUME Whole(H + 1) PROVE Used(t)' OBVIOUS
  <2>1. CanApply(ledger, t) BY <1>7
  <2>2. ledger' = ApplyTx(ledger, t) BY <1>9, <2>1 DEF ApplyOrSkip
  <2> QED BY <1>5, <1>8, <2>1, <2>2, UsedStays
<1>12. ASSUME NEW h \in 1..Len(decided), Whole(h), NEW i \in 1..Len(Body(h)), Passed(H, n + 1, h, i)
       PROVE  Used(Body(h)[i])'
  <2>1. Body(h)[i] \in Admitted BY <1>1
  <2>2. CASE Passed(H, n, h, i)
    <3>1. Used(Body(h)[i]) BY <1>12, <2>2 DEF UsedInv
    <3>2. PICK u \in Admitted : u = Body(h)[i] BY <2>1
    <3>3. Used(u)' BY <1>10, <3>1, <3>2
    <3> QED BY <3>2, <3>3 DEF Body, Used
  <2>3. CASE ~Passed(H, n, h, i)
    <3>1. h = H + 1 /\ i = n + 1 BY <1>1, <1>2, <1>12, <2>3 DEF Passed
    <3> QED BY <1>0, <1>11, <1>12, <3>1 DEF Body, Used
  <2> QED BY <2>2, <2>3
<1>13. UsedInv(H, n + 1)'
  <2> SUFFICES ASSUME NEW h \in 1..Len(decided)', Whole(h)', NEW i \in 1..Len(Body(h))',
                      Passed(H, n + 1, h, i)
               PROVE  Used(Body(h)[i])'
    BY DEF UsedInv, Passed
  <2>1. Whole(h) /\ h \in 1..Len(decided) /\ i \in 1..Len(Body(h)) BY DEF Whole, Body
  <2> QED BY <1>12, <2>1
<1> QED BY <1>0, <1>6, <1>7, <1>13

\* Nothing happens to the ledger: place and used nonces are what they were.
LEMMA SamePlace ==
    ASSUME NEW H, NEW n, ledger' = ledger, decided' = decided
    PROVE  /\ (tip' <= H /\ Place(H, n)) => Place(H, n)'
           /\ UsedInv(H, n) => UsedInv(H, n)'
           /\ gossip' = gossip /\ GossipInv(H, n) => GossipInv(H, n)'
           /\ \A h : Whole(h)' <=> Whole(h)
           /\ \A h : Body(h)' = Body(h)
<1>1. (\A h : Whole(h)' <=> Whole(h)) /\ \A h : Body(h)' = Body(h) BY DEF Whole, Body
<1>2. (tip' <= H /\ Place(H, n)) => Place(H, n)' BY DEF Place, Network, At, Body
<1>3. UsedInv(H, n) => UsedInv(H, n)' BY DEF UsedInv, Passed, Used, Whole, Body
<1>4. gossip' = gossip /\ GossipInv(H, n) => GossipInv(H, n)'
  BY DEF GossipInv, IsRest, Whole, Body
<1> QED BY <1>1, <1>2, <1>3, <1>4

\* The engine moves without committing, applying or sealing.
LEMMA EngineWaits ==
    ASSUME PipeInv, NEW H \in 0..Len(decided), NEW n \in Nat, Spot(H, n),
           ledger' = ledger, decided' = decided, tip' = tip, gossip' = gossip,
           engine.pc # "apply", engine'.pc # "apply",
           engine'.height \in Nat, engine'.height >= engine.height,
           engine'.pc \in {"proposed", "accepted"} => engine'.height <= H + 1,
           engine'.pc = "accepted" => /\ engine'.height <= Len(decided)
                                      /\ engine'.todo = Body(engine'.height)
    PROVE  Spot(H, n)'
<1>1. Place(H, n)' /\ UsedInv(H, n)' /\ GossipInv(H, n)' BY SamePlace DEF Spot, Place
<1>2. engine.height \in Nat /\ Len(decided) \in Nat BY Bodies
<1>3. OnceInv(H, n)'
  <2> SUFFICES ASSUME NEW h \in 1..Len(decided)', ~Whole(h)', Passed(H, n, h, 1)
               PROVE  (h < engine.height)'
    BY DEF OnceInv, Passed
  <2>1. h \in 1..Len(decided) /\ ~Whole(h) BY DEF Whole, Body
  <2>2. h < engine.height BY <2>1 DEF Spot, OnceInv
  <2> QED BY <1>2, <2>1, <2>2
<1>4. EngineInv(H, n)'
  <2>1. engine'.height > 0 BY <1>2 DEF Spot, EngineInv
  <2>2. Body(engine'.height) = Body(engine.height)' BY DEF Body
  <2> QED BY <2>1, <2>2 DEF EngineInv
<1> QED BY <1>1, <1>3, <1>4 DEF Spot

\* Consensus decides one more block, on the ledger where the others end.
LEMMA BlockDecided ==
    ASSUME PipeInv, ChainInv, NEW b \in Seq(Admitted), Decide(b)
    PROVE  /\ Len(decided)' = Len(decided) + 1 /\ Len(decided) \in Nat
           /\ \A h \in 1..Len(decided) : decided'[h] = decided[h]
           /\ decided'[Len(decided) + 1] = [before |-> Network, txs |-> b]
           /\ ChainInv'
<1> DEFINE e == [before |-> Network, txs |-> b]
           N == Len(decided)
<1>1. decided' = Append(decided, e) BY DEF Decide
<1>2. PICK S : decided \in Seq(S) BY DEF PipeInv, DecidedType
<1> HIDE DEF e
<1>3. /\ N \in Nat /\ Len(decided)' = N + 1 /\ decided'[N + 1] = e
      /\ \A h \in 1..N : decided'[h] = decided[h]
  <2>1. decided \in Seq(S \cup {e}) /\ e \in S \cup {e} BY <1>2
  <2> QED BY <1>1, <2>1
<1> HIDE DEF N
<1>4. ChainInv'
  <2> SUFFICES ASSUME NEW h \in 1..(Len(decided)' - 1)
               PROVE  decided'[h + 1].before = ApplyAll(decided'[h].before, decided'[h].txs)
    BY DEF ChainInv, Body
  <2>1. h \in 1..N /\ decided'[h] = decided[h] BY <1>3
  <2>2. CASE h = N
    <3>1. decided # <<>> /\ Last(decided) = decided[h]
      <4>1. decided # <<>> BY <1>2, <2>1, <2>2 DEF N
      <4> QED BY <2>2, <4>1 DEF Last, N
    <3>2. Network = ApplyAll(decided[h].before, decided[h].txs) BY <3>1 DEF Network
    <3>3. decided'[h + 1].before = Network BY <1>3, <2>2 DEF e
    <3> QED BY <2>1, <3>2, <3>3
  <2>3. CASE h # N
    <3>1. h \in 1..(N - 1) /\ h + 1 \in 1..N BY <1>3, <2>1, <2>3
    <3>2. decided[h + 1].before = ApplyAll(decided[h].before, decided[h].txs)
      BY <3>1 DEF ChainInv, Body, N
    <3> QED BY <1>3, <2>1, <3>1, <3>2
  <2> QED BY <2>2, <2>3
<1> QED BY <1>3, <1>4 DEF e, N

\* It leaves every place where it was.
LEMMA DecidedPlace ==
    ASSUME PipeInv, ChainInv, NEW b \in Seq(Admitted), Decide(b),
           NEW H \in 0..Len(decided), NEW n \in Nat, Spot(H, n),
           ledger' = ledger, tip' = tip, gossip' = gossip
    PROVE  /\ Place(H, n)' /\ UsedInv(H, n)' /\ GossipInv(H, n)' /\ H \in 0..Len(decided)'
           /\ \A h \in 1..Len(decided) : (Whole(h)' <=> Whole(h)) /\ Body(h)' = Body(h)
           /\ \A h \in 1..Len(decided)', i \in Nat \ {0} : Passed(H, n, h, i) => h \in 1..Len(decided)
<1> DEFINE N == Len(decided)
           e == [before |-> Network, txs |-> b]
<1>1. /\ Len(decided)' = N + 1 /\ N \in Nat /\ decided'[N + 1] = e
      /\ \A h \in 1..N : decided'[h] = decided[h]
  BY BlockDecided
<1>2. /\ \A h \in 1..N : Body(h) \in Seq(Admitted) /\ Len(Body(h)) \in Nat
      /\ tip \in Nat /\ gossip.height \in Nat
  BY Bodies
<1>3. e.before = Network /\ e.txs = b OBVIOUS
<1>4. Place(H, n) /\ UsedInv(H, n) /\ GossipInv(H, n) BY DEF Spot
<1>5. H = N => n = 0 /\ ledger = Network BY <1>4 DEF Place
<1>6. H < N => n <= Len(Body(H + 1)) /\ ledger = At(H + 1, n) BY <1>4 DEF Place
<1> HIDE DEF N, e
<1>7. H \in 0..N /\ H \in Nat BY <1>1 DEF N
<1>8. \A h \in 1..N : (Whole(h)' <=> Whole(h)) /\ Body(h)' = Body(h) BY <1>1 DEF Whole, Body
<1>9. \A h \in 1..(N + 1), i \in Nat \ {0} : Passed(H, n, h, i) => h \in 1..N
  BY <1>1, <1>5, <1>7 DEF Passed
<1>10. Place(H, n)'
  <2>1. tip' <= H BY <1>4 DEF Place
  <2>2. H # N + 1 /\ H < N + 1 BY <1>1, <1>7
  <2>3. n <= Len(Body(H + 1)') /\ ledger = At(H + 1, n)'
    <3>1. CASE H = N
      <4>1. Body(H + 1)' = b /\ decided'[H + 1].before = Network BY <1>1, <1>3, <3>1 DEF Body
      <4>2. At(H + 1, 0)' = Network BY <4>1, AfterIs DEF At
      <4>3. 0 <= Len(b) OBVIOUS
      <4> QED BY <1>5, <3>1, <4>1, <4>2, <4>3
    <3>2. CASE H # N
      <4>1. H + 1 \in 1..N /\ H < N BY <1>1, <1>7, <3>2
      <4>2. decided'[H + 1] = decided[H + 1] BY <1>1, <4>1
      <4> QED BY <1>6, <4>1, <4>2 DEF At, Body
    <3> QED BY <3>1, <3>2
  <2> QED BY <1>1, <2>1, <2>2, <2>3 DEF Place
<1>11. UsedInv(H, n)'
  <2> SUFFICES ASSUME NEW h \in 1..Len(decided)', Whole(h)', NEW i \in 1..Len(Body(h)'),
                      Passed(H, n, h, i)
               PROVE  Used(Body(h)[i])'
    BY DEF UsedInv, Passed
  <2>0. i \in Nat \ {0}
    <3>1. CASE h \in 1..N BY <1>2, <1>8, <3>1
    <3>2. CASE h \notin 1..N
      <4>1. h = N + 1 BY <1>1, <3>2
      <4>2. Body(h)' = b BY <1>1, <1>3, <4>1 DEF Body
      <4> QED BY <4>2
    <3> QED BY <3>1, <3>2
  <2>1. h \in 1..N BY <1>1, <1>9, <2>0
  <2>2. Whole(h) /\ i \in 1..Len(Body(h)) /\ Body(h)' = Body(h) BY <1>8, <2>1
  <2>3. Used(Body(h)[i]) BY <1>4, <2>1, <2>2 DEF UsedInv, N
  <2> QED BY <2>2, <2>3 DEF Used
<1>12. GossipInv(H, n)'
  <2> SUFFICES ASSUME gossip.pc = "apply" PROVE GossipInv(H, n)' BY DEF GossipInv
  <2>1. gossip.height \in 1..N /\ Whole(gossip.height) BY <1>4 DEF GossipInv, N
  <2>2. PICK j \in Nat : /\ IsRest(gossip.todo, gossip.height, j)
                         /\ gossip.height <= H \/ (gossip.height = H + 1 /\ j <= n + 1)
    BY <1>4 DEF GossipInv
  <2>3. Body(gossip.height)' = Body(gossip.height) /\ Whole(gossip.height)'
    <3>1. PICK g \in 1..N : g = gossip.height BY <2>1
    <3>2. Body(g)' = Body(g) /\ (Whole(g)' <=> Whole(g)) BY <1>8, <3>1
    <3> QED BY <2>1, <3>1, <3>2 DEF Body, Whole
  <2>4. IsRest(gossip.todo, gossip.height, j)' BY <2>2, <2>3 DEF IsRest
  <2>5. gossip'.height \in 1..Len(decided)' BY <1>1, <2>1
  <2> QED BY <2>2, <2>3, <2>4, <2>5 DEF GossipInv
<1> QED BY <1>1, <1>7, <1>8, <1>9, <1>10, <1>11, <1>12 DEF N

-----------------------------------------------------------------------------
(* Steps. *)

Somewhere == \E H \in 0..Len(decided), n \in Nat : Spot(H, n)

\* Nothing that the place depends on.
LEMMA Elsewhere ==
    ASSUME Somewhere, UNCHANGED <<ledger, engine, gossip, tip, decided>>
    PROVE  Somewhere'
<1>1. PICK H \in 0..Len(decided), n \in Nat : Spot(H, n) BY DEF Somewhere
<1>2. Place(H, n)' /\ UsedInv(H, n)' /\ GossipInv(H, n)' BY <1>1, SamePlace DEF Spot, Place
<1>3. OnceInv(H, n)' BY <1>1 DEF Spot, OnceInv, Passed, Whole, Body
<1>4. EngineInv(H, n)'
  BY <1>1 DEF Spot, EngineInv, EngineAt, IsRest, Whole, Body
<1>5. Spot(H, n)' BY <1>2, <1>3, <1>4 DEF Spot
<1> QED BY <1>1, <1>5 DEF Somewhere

\* The engine between two commits.
LEMMA EngineBetween ==
    ASSUME PipeInv, Somewhere,
           \/ Propose \/ SigningFails \/ ReturnTx \/ ReturnedAll \/ Accept \/ RoundFails
           \/ CommitUnseen
    PROVE  Somewhere'
<1>1. PICK H \in 0..Len(decided), n \in Nat : Spot(H, n) BY DEF Somewhere
<1>2. ledger' = ledger /\ decided' = decided /\ tip' = tip /\ gossip' = gossip
  BY DEF Propose, SigningFails, ReturnTx, ReturnedAll, Accept, RoundFails, CommitUnseen, books
<1>3. /\ engine \in EngineState /\ engine.height \in Nat /\ tip \in Nat /\ Len(decided) \in Nat
      /\ H \in Nat /\ tip <= H
  BY <1>1, Bodies DEF PipeInv, Spot, Place
<1>4. /\ engine.pc # "apply" /\ engine'.pc # "apply"
      /\ engine'.height \in Nat /\ engine'.height >= engine.height
      /\ engine'.pc \in {"proposed", "accepted"} => engine'.height <= H + 1
      /\ engine'.pc = "accepted" => /\ engine'.height <= Len(decided)
                                    /\ engine'.todo = Body(engine'.height)
  <2>1. CASE Propose
    <3>1. /\ engine.pc = "idle" /\ engine.height = tip + 1
          /\ engine'.pc = "proposed" /\ engine'.height = engine.height
      BY <1>3, <2>1 DEF Propose, EngineState
    <3> QED BY <1>3, <3>1
  <2>2. CASE SigningFails
    <3>1. engine.pc = "proposed" /\ engine'.pc = "return" /\ engine'.height = engine.height
      BY <1>3, <2>2 DEF SigningFails, EngineState
    <3> QED BY <1>3, <3>1
  <2>3. CASE ReturnTx
    <3>1. engine.pc = "return" /\ engine'.pc = "return" /\ engine'.height = engine.height
      BY <1>3, <2>3 DEF ReturnTx, EngineState
    <3> QED BY <1>3, <3>1
  <2>4. CASE ReturnedAll
    <3>1. engine.pc = "return" /\ engine'.pc = "idle" /\ engine'.height = engine.height
      BY <1>3, <2>4 DEF ReturnedAll, EngineState
    <3> QED BY <1>3, <3>1
  <2>5. CASE Accept
    <3>1. /\ engine.pc = "idle" /\ engine.height = tip + 1 /\ engine.height <= Len(decided)
          /\ engine'.pc = "accepted" /\ engine'.height = engine.height
          /\ engine'.todo = Body(engine.height)
      BY <1>3, <2>5 DEF Accept, EngineState, Body
    <3> QED BY <1>3, <3>1
  <2>6. CASE RoundFails
    <3>1. /\ engine.pc \in {"proposed", "accepted"} /\ engine'.pc = "idle"
          /\ engine'.height = engine.height
      BY <1>3, <2>6 DEF RoundFails, EngineState
    <3> QED BY <1>3, <3>1
  <2>7. CASE CommitUnseen
    <3>1. engine.pc # "apply" /\ engine'.pc = "idle" /\ engine'.height = engine.height + 1
      BY <1>3, <2>7 DEF CommitUnseen, EngineState
    <3> QED BY <1>3, <3>1
  <2> QED BY <2>1, <2>2, <2>3, <2>4, <2>5, <2>6, <2>7
<1>5. Spot(H, n)' BY <1>1, <1>2, <1>4, EngineWaits
<1> QED BY <1>1, <1>2, <1>5 DEF Somewhere

\* A commit begins at the first transaction, and at the place itself when some will fail.
LEMMA CommitBegins ==
    ASSUME PipeInv, ChainInv, Somewhere, Commit
    PROVE  Somewhere' /\ ChainInv'
<1>1. PICK H \in 0..Len(decided), n \in Nat : Spot(H, n) BY DEF Somewhere
<1> DEFINE h == engine.height
<1>2. /\ engine \in EngineState /\ h \in Nat /\ Len(decided) \in Nat /\ H \in Nat
      /\ engine.todo \in Seq(Admitted)
      /\ \A k \in 1..Len(decided) : Body(k) \in Seq(Admitted) /\ Len(Body(k)) \in Nat
  BY <1>1, Bodies DEF PipeInv
<1>3. /\ Place(H, n) /\ UsedInv(H, n) /\ OnceInv(H, n) /\ EngineInv(H, n) /\ GossipInv(H, n)
  BY <1>1 DEF Spot
<1>4. /\ ledger' = ledger /\ tip' = tip /\ gossip' = gossip
      /\ engine' = [engine EXCEPT !.pc = "apply"]
  BY DEF Commit, books
<1>5. engine'.pc = "apply" /\ engine'.height = h /\ engine'.todo = engine.todo
  BY <1>2, <1>4 DEF EngineState
<1>6. engine.pc \in {"accepted", "proposed"} /\ engine.pc # "apply" /\ h > 0 /\ h <= H + 1
  BY <1>3 DEF Commit, EngineInv
<1> HIDE DEF h
<1>7. CASE engine.pc = "accepted" /\ UNCHANGED decided
  <2>1. h \in 1..Len(decided) /\ engine.todo = Body(h) BY <1>2, <1>3, <1>6, <1>7 DEF EngineInv, h
  <2>2. IsRest(engine.todo, h, 1) BY <1>2, <2>1, RestOfAll
  <2>3. EngineAt(H, n, h, 1, engine.todo)
    <3>1. CASE Whole(h)
      <4>1. h <= H \/ (h = H + 1 /\ 1 <= n + 1) BY <1>1, <1>2, <1>6
      <4> QED BY <2>2, <3>1, <4>1 DEF EngineAt
    <3>2. CASE ~Whole(h)
      <4>1. ~Passed(H, n, h, 1) BY <1>2, <1>3, <1>6, <2>1, <3>2 DEF OnceInv, h
      <4>2. h = H + 1 /\ n = 0 BY <1>1, <1>2, <1>6, <4>1 DEF Passed
      <4> QED BY <2>2, <4>2 DEF EngineAt
    <3> QED BY <3>1, <3>2
  <2>4. EngineInv(H, n)'
    <3>1. EngineAt(H, n, h, 1, engine.todo)' BY <1>5, <1>7, <2>3 DEF EngineAt, IsRest, Whole, Body, h
    <3> QED BY <1>5, <1>6, <1>7, <2>1, <3>1 DEF EngineInv, h
  <2>5. OnceInv(H, n)'
    <3> SUFFICES ASSUME NEW k \in 1..Len(decided), ~Whole(k), Passed(H, n, k, 1)
                 PROVE  k < h
      BY <1>5, <1>7 DEF OnceInv, Passed, Whole, Body
    <3> QED BY <1>3, <1>6 DEF OnceInv, h
  <2>6. Place(H, n)' /\ UsedInv(H, n)' /\ GossipInv(H, n)'
    BY <1>3, <1>4, <1>7, SamePlace DEF Place
  <2>7. ChainInv' BY <1>7 DEF ChainInv, Body
  <2> QED BY <1>1, <1>7, <2>4, <2>5, <2>6, <2>7 DEF Somewhere, Spot
<1>8. CASE engine.pc = "proposed" /\ Len(decided) = engine.height - 1 /\ Decide(engine.todo)
  <2>1. PICK b \in Seq(Admitted) : b = engine.todo /\ Decide(b) BY <1>2, <1>8
  <2>2. /\ Len(decided)' = Len(decided) + 1 /\ ChainInv'
        /\ decided'[Len(decided) + 1] = [before |-> Network, txs |-> b]
    BY <2>1, BlockDecided
  <2>3. /\ Place(H, n)' /\ UsedInv(H, n)' /\ GossipInv(H, n)' /\ H \in 0..Len(decided)'
        /\ \A k \in 1..Len(decided) : (Whole(k)' <=> Whole(k)) /\ Body(k)' = Body(k)
        /\ \A k \in 1..Len(decided)', i \in Nat \ {0} : Passed(H, n, k, i) => k \in 1..Len(decided)
    BY <1>1, <1>4, <2>1, DecidedPlace
  <2>4. h = Len(decided) + 1 /\ H = Len(decided) /\ h = H + 1 BY <1>1, <1>2, <1>6, <1>8 DEF h
  <2>5. n = 0 BY <1>3, <2>4 DEF Place
  <2>6. Body(h)' = b /\ b \in Seq(Admitted)
    <3>1. h' = Len(decided) + 1 BY <1>5, <2>4 DEF h
    <3>2. decided'[h'].txs = b BY <2>2, <3>1
    <3> QED BY <2>1, <3>2 DEF Body
  <2>7. IsRest(engine.todo, h, 1)'
    <3>1. Len(b) \in Nat /\ 1 \in 1..(Len(b) + 1) /\ Len(b) = (Len(b) + 1) - 1
          /\ \A k \in 1..Len(b) : (1 + k) - 1 = k
      OBVIOUS
    <3>2. Body(h)' = b /\ engine'.todo = b /\ h' = h BY <1>5, <2>1, <2>6 DEF h
    <3> QED BY <3>1, <3>2 DEF IsRest
  <2>8. EngineAt(H, n, h, 1, engine.todo)'
    <3>1. h' = H + 1 /\ 1 = n + 1 BY <1>5, <2>4, <2>5 DEF h
    <3> QED BY <2>7, <3>1 DEF EngineAt
  <2>9. EngineInv(H, n)'
    <3>1. engine'.height > 0 /\ engine'.height <= H + 1 /\ engine'.height <= Len(decided)'
      BY <1>2, <1>5, <1>6, <2>2, <2>4
    <3> QED BY <1>5, <2>8, <3>1 DEF EngineInv, h
  <2>10. OnceInv(H, n)'
    <3> SUFFICES ASSUME NEW k \in 1..Len(decided)', ~Whole(k)', Passed(H, n, k, 1)
                 PROVE  k < h
      BY <1>5 DEF OnceInv, Passed
    <3>1. k \in 1..Len(decided) BY <2>3
    <3> QED BY <1>2, <2>4, <3>1
  <2> QED BY <2>2, <2>3, <2>9, <2>10 DEF Somewhere, Spot
<1> QED BY <1>7, <1>8 DEF Commit

\* A block decided elsewhere.
LEMMA PeersDecideOn ==
    ASSUME PipeInv, ChainInv, Somewhere, NEW b \in BlockTxs, PeersDecide(b)
    PROVE  Somewhere' /\ ChainInv'
<1>1. PICK H \in 0..Len(decided), n \in Nat : Spot(H, n) BY DEF Somewhere
<1>2. /\ ledger' = ledger /\ tip' = tip /\ gossip' = gossip /\ engine' = engine
      /\ Decide(b) /\ \A i \in DOMAIN b : ValidateBasic(b[i]) /\ b[i].nonce > 0
  BY DEF PeersDecide, books
<1>3. b \in Seq(Admitted)
  <2>1. b \in Seq(Txs) BY Sizes DEF BlockTxs, BoundedSeq, SeqOf
  <2>2. \A i \in 1..Len(b) : b[i] \in Admitted BY <1>2, <2>1 DEF Admitted
  <2> QED BY <2>1, <2>2
<1>4. Len(decided)' = Len(decided) + 1 /\ ChainInv' /\ Len(decided) \in Nat
  BY <1>2, <1>3, BlockDecided
<1>5. /\ Place(H, n)' /\ UsedInv(H, n)' /\ GossipInv(H, n)' /\ H \in 0..Len(decided)'
      /\ \A k \in 1..Len(decided) : (Whole(k)' <=> Whole(k)) /\ Body(k)' = Body(k)
      /\ \A k \in 1..Len(decided)', i \in Nat \ {0} : Passed(H, n, k, i) => k \in 1..Len(decided)
  BY <1>1, <1>2, <1>3, DecidedPlace
<1>6. OnceInv(H, n) /\ EngineInv(H, n) BY <1>1 DEF Spot
<1>7. OnceInv(H, n)'
  <2> SUFFICES ASSUME NEW k \in 1..Len(decided)', ~Whole(k)', Passed(H, n, k, 1)
               PROVE  k < engine.height \/ (k = engine.height /\ engine.pc = "apply")
    BY <1>2 DEF OnceInv, Passed
  <2>1. k \in 1..Len(decided) BY <1>5
  <2>2. ~Whole(k) BY <1>5, <2>1
  <2> QED BY <1>6, <2>1, <2>2 DEF OnceInv
<1>8. EngineInv(H, n)'
  <2>1. engine.pc \in {"accepted", "apply"} =>
          /\ engine.height \in 1..Len(decided) /\ engine.height <= Len(decided)'
          /\ Body(engine.height)' = Body(engine.height)
          /\ Whole(engine.height)' <=> Whole(engine.height)
    <3> SUFFICES ASSUME engine.pc \in {"accepted", "apply"}
                 PROVE  /\ engine.height \in 1..Len(decided) /\ engine.height <= Len(decided)'
                        /\ Body(engine.height)' = Body(engine.height)
                        /\ Whole(engine.height)' <=> Whole(engine.height)
      OBVIOUS
    <3>1. PICK h \in 1..Len(decided) : h = engine.height BY <1>4, <1>6, Bodies DEF EngineInv
    <3>2. Body(h)' = Body(h) /\ (Whole(h)' <=> Whole(h)) BY <1>5
    <3> QED BY <1>2, <1>4, <3>1, <3>2 DEF Body, Whole
  <2>2. ASSUME engine.pc = "apply", NEW i \in Nat, EngineAt(H, n, engine.height, i, engine.todo)
        PROVE  EngineAt(H, n, engine.height, i, engine.todo)'
    BY <1>2, <2>1, <2>2 DEF EngineAt, IsRest
  <2>3. engine.pc = "apply" => (\E i \in Nat : EngineAt(H, n, engine.height, i, engine.todo)')
    BY <1>6, <2>2 DEF EngineInv
  <2> QED BY <1>2, <1>6, <2>1, <2>3 DEF EngineInv
<1> QED BY <1>4, <1>5, <1>7, <1>8 DEF Somewhere, Spot

\* The engine's next transaction is the place's next one, or is used up and skipped.
LEMMA ApplyNextOn ==
    ASSUME PipeInv, Somewhere, ApplyNext
    PROVE  Somewhere'
<1>1. PICK H \in 0..Len(decided), n \in Nat : Spot(H, n) BY DEF Somewhere
<1> DEFINE t == Head(engine.todo)
           h == engine.height
<1>2. /\ engine \in EngineState /\ h \in Nat /\ Len(decided) \in Nat /\ H \in Nat
      /\ engine.todo \in Seq(Admitted) /\ LedgerInv
      /\ \A k \in 1..Len(decided) : Body(k) \in Seq(Admitted) /\ Len(Body(k)) \in Nat
  BY <1>1, Bodies DEF PipeInv
<1>3. /\ Place(H, n) /\ UsedInv(H, n) /\ OnceInv(H, n) /\ EngineInv(H, n) /\ GossipInv(H, n)
  BY <1>1 DEF Spot
<1>4. /\ engine.pc = "apply" /\ engine.todo # <<>>
      /\ ledger' = ApplyOrSkip(ledger, t) /\ engine' = [engine EXCEPT !.todo = Tail(@)]
      /\ gossip' = gossip /\ tip' = tip /\ decided' = decided
  BY DEF ApplyNext
<1>5. engine'.pc = "apply" /\ engine'.height = h /\ engine'.todo = Tail(engine.todo)
  BY <1>2, <1>4 DEF EngineState
<1>6. /\ h \in 1..Len(decided) /\ h <= H + 1 BY <1>2, <1>3, <1>4 DEF EngineInv
<1>7. PICK i \in Nat : EngineAt(H, n, h, i, engine.todo) BY <1>3, <1>4 DEF EngineInv
<1>8. /\ i \in 1..Len(Body(h)) /\ t = Body(h)[i] /\ IsRest(Tail(engine.todo), h, i + 1)
  BY <1>2, <1>4, <1>6, <1>7, RestParts DEF EngineAt
<1>9. t \in Admitted BY <1>2, <1>6, <1>8
<1> HIDE DEF t
<1>10. /\ \A k : Whole(k)' <=> Whole(k)
       /\ \A k : Body(k)' = Body(k)
  BY <1>4 DEF Whole, Body
<1>11. h' = h BY <1>5
<1>12. IsRest(engine.todo, h, i + 1)' BY <1>4, <1>5, <1>8 DEF IsRest, Body
<1>13. Whole(h)' <=> Whole(h) BY <1>4, <1>11 DEF Whole, Body
<1>14. ASSUME NEW m \in Nat, OnceInv(H, m),
              \/ h = H + 1 /\ (i + 1 = m + 1 \/ (Whole(h) /\ i + 1 <= m + 1))
              \/ h <= H /\ Whole(h)
       PROVE  OnceInv(H, m)' /\ EngineInv(H, m)'
  <2>1. OnceInv(H, m)' BY <1>4, <1>5, <1>14 DEF OnceInv, Passed, Whole, Body
  <2>2. EngineAt(H, m, h, i + 1, engine.todo)' BY <1>11, <1>12, <1>13, <1>14 DEF EngineAt
  <2>3. i + 1 \in Nat BY <1>7
  <2>4. engine'.height > 0 /\ engine'.height <= H + 1 /\ engine'.height <= Len(decided)'
    BY <1>2, <1>4, <1>5, <1>6
  <2> QED BY <1>5, <2>1, <2>2, <2>3, <2>4 DEF EngineInv
<1>15. CASE h = H + 1 /\ i = n + 1
  <2>1. H < Len(decided) /\ n < Len(Body(H + 1)) /\ t = Body(H + 1)[n + 1]
    BY <1>1, <1>2, <1>6, <1>8, <1>15
  <2>2. ledger' = ApplyOrSkip(ledger, Body(H + 1)[n + 1]) BY <1>4, <2>1
  <2>3. Place(H, n + 1)' /\ UsedInv(H, n + 1)' BY <1>1, <1>3, <1>4, <2>1, <2>2, OneTxOn
  <2>4. OnceInv(H, n + 1)
    <3> SUFFICES ASSUME NEW k \in 1..Len(decided), ~Whole(k), Passed(H, n + 1, k, 1)
                 PROVE  k < engine.height \/ (k = engine.height /\ engine.pc = "apply")
      BY DEF OnceInv
    <3>1. CASE k <= H BY <1>3, <3>1 DEF OnceInv, Passed
    <3>2. CASE ~(k <= H) BY <1>4, <1>15, <3>2 DEF Passed, h
    <3> QED BY <3>1, <3>2
  <2>5. n + 1 \in Nat /\ i + 1 = (n + 1) + 1 BY <1>1, <1>15
  <2>6. OnceInv(H, n + 1)' /\ EngineInv(H, n + 1)' BY <1>14, <1>15, <2>4, <2>5
  <2>7. GossipInv(H, n + 1)'
    <3> SUFFICES ASSUME gossip.pc = "apply" PROVE GossipInv(H, n + 1)' BY <1>4 DEF GossipInv
    <3>1. PICK j \in Nat :
            /\ gossip.height \in 1..Len(decided) /\ Whole(gossip.height)
            /\ IsRest(gossip.todo, gossip.height, j)
            /\ gossip.height <= H \/ (gossip.height = H + 1 /\ j <= n + 1)
      BY <1>3 DEF GossipInv
    <3>2. j <= n + 1 => j <= (n + 1) + 1 BY <1>1
    <3> QED BY <1>4, <3>1, <3>2 DEF GossipInv, IsRest, Whole, Body
  <2> QED BY <1>1, <1>4, <2>3, <2>5, <2>6, <2>7 DEF Somewhere, Spot
<1>16. CASE ~(h = H + 1 /\ i = n + 1)
  <2>1. Whole(h) /\ (h <= H \/ (h = H + 1 /\ i <= n))
    BY <1>1, <1>2, <1>4, <1>7, <1>16 DEF EngineAt
  <2>2. Passed(H, n, h, i) BY <2>1 DEF Passed
  <2>3. Used(Body(h)[i]) BY <1>3, <1>6, <1>8, <2>1, <2>2 DEF UsedInv
  <2>4. Used(t) BY <1>8, <2>3
  <2>5. ~CanApply(ledger, t) BY <1>2, <1>9, <2>4, UsedFails
  <2>6. ledger' = ledger BY <1>4, <2>5 DEF ApplyOrSkip
  <2>7. Place(H, n)' /\ UsedInv(H, n)' /\ GossipInv(H, n)'
    BY <1>3, <1>4, <2>6, SamePlace DEF Place
  <2>8. OnceInv(H, n)' /\ EngineInv(H, n)'
    <3>1. h <= H \/ (h = H + 1 /\ i + 1 <= n + 1) BY <1>1, <1>7, <2>1
    <3> QED BY <1>1, <1>3, <1>14, <2>1, <3>1
  <2> QED BY <1>1, <1>4, <2>7, <2>8 DEF Somewhere, Spot
<1> QED BY <1>15, <1>16

\* The engine ends its block, which is then behind the place, and goes to the next height.
LEMMA SealOn ==
    ASSUME PipeInv, ChainInv, Somewhere, Seal
    PROVE  Somewhere'
<1> DEFINE h == engine.height
<1>1. /\ engine \in EngineState /\ h \in Nat /\ Len(decided) \in Nat /\ tip \in Nat
      /\ engine.todo \in Seq(Admitted)
      /\ \A k \in 1..Len(decided) : Body(k) \in Seq(Admitted) /\ Len(Body(k)) \in Nat
  BY Bodies DEF PipeInv
<1>2. /\ engine.pc = "apply" /\ engine.todo = <<>> /\ (tip' = h \/ tip' = tip)
      /\ engine' = [height |-> h + 1, pc |-> "idle", todo |-> <<>>]
      /\ ledger' = ledger /\ gossip' = gossip /\ decided' = decided
  BY DEF Seal, books
<1>3. PICK H \in 0..Len(decided), n \in Nat : Spot(H, n) /\ h <= H
  <2>1. PICK H \in 0..Len(decided), n \in Nat : Spot(H, n) BY DEF Somewhere
  <2>2. EngineInv(H, n) /\ H \in Nat BY <1>1, <2>1 DEF Spot
  <2>3. PICK i \in Nat : EngineAt(H, n, h, i, engine.todo) BY <1>2, <2>2 DEF EngineInv
  <2>4. h \in 1..Len(decided) BY <1>1, <1>2, <2>2 DEF EngineInv
  <2>5. CASE h <= H BY <2>1, <2>5
  <2>6. CASE ~(h <= H)
    <3>1. h = H + 1 /\ i <= n + 1 BY <2>1, <2>3, <2>6 DEF EngineAt
    <3>2. i = Len(Body(h)) + 1
      <4>1. IsRest(engine.todo, h, i) BY <2>3 DEF EngineAt
      <4>2. Len(engine.todo) = (Len(Body(h)) + 1) - i BY <4>1 DEF IsRest
      <4>3. Len(engine.todo) = 0 /\ Len(Body(h)) \in Nat /\ i \in Nat BY <1>1, <1>2, <2>3, <2>4
      <4> QED BY <4>2, <4>3
    <3>3. H < Len(decided) BY <2>2, <2>4, <3>1
    <3>4. n <= Len(Body(H + 1)) BY <2>1, <3>3 DEF Spot, Place
    <3>5. n = Len(Body(H + 1)) BY <1>1, <2>1, <2>4, <3>1, <3>2, <3>4
    <3>6. Spot(H + 1, 0) /\ H + 1 \in 0..Len(decided) BY <2>1, <3>3, <3>5, NextBlock
    <3> QED BY <2>2, <3>1, <3>6
  <2> QED BY <2>5, <2>6
<1>4. /\ Place(H, n) /\ UsedInv(H, n) /\ OnceInv(H, n) /\ EngineInv(H, n) /\ GossipInv(H, n)
  BY <1>3 DEF Spot
<1>5. tip' <= H BY <1>2, <1>3, <1>4 DEF Place
<1>6. Place(H, n)' /\ UsedInv(H, n)' /\ GossipInv(H, n)' BY <1>2, <1>4, <1>5, SamePlace
<1>7. OnceInv(H, n)'
  <2> SUFFICES ASSUME NEW k \in 1..Len(decided), ~Whole(k), Passed(H, n, k, 1)
               PROVE  k < h + 1
    BY <1>2 DEF OnceInv, Passed, Whole, Body
  <2>1. k < h \/ k = h BY <1>4 DEF OnceInv
  <2> QED BY <1>1, <2>1
<1>8. EngineInv(H, n)'
  <2>1. engine'.height > 0 /\ engine'.pc = "idle" BY <1>1, <1>2
  <2> QED BY <2>1 DEF EngineInv
<1> QED BY <1>2, <1>3, <1>6, <1>7, <1>8 DEF Somewhere, Spot

\* What of the engine does not change when only the gossip handler moves.
LEMMA EngineSame ==
    ASSUME NEW H, NEW n, engine' = engine, decided' = decided
    PROVE  /\ OnceInv(H, n) => OnceInv(H, n)'
           /\ EngineInv(H, n) => EngineInv(H, n)'
<1>1. OnceInv(H, n) => OnceInv(H, n)' BY DEF OnceInv, Passed, Whole, Body
<1>2. EngineInv(H, n) => EngineInv(H, n)' BY DEF EngineInv, EngineAt, IsRest, Whole, Body
<1> QED BY <1>1, <1>2

\* The announced block is the next after the tip, so not beyond the place.
LEMMA GossipBeginsOn ==
    ASSUME PipeInv, Somewhere, GossipBegins
    PROVE  Somewhere'
<1>1. PICK H \in 0..Len(decided), n \in Nat : Spot(H, n) BY DEF Somewhere
<1> DEFINE g == tip + 1
<1>2. /\ Len(decided) \in Nat /\ tip \in Nat /\ H \in Nat
      /\ \A k \in 1..Len(decided) : Body(k) \in Seq(Admitted) /\ Len(Body(k)) \in Nat
  BY <1>1, Bodies
<1>3. /\ tip < Len(decided) /\ AllApply(decided[g].before, decided[g].txs)
      /\ gossip' = [height |-> g, pc |-> "apply", todo |-> decided[g].txs]
      /\ ledger' = ledger /\ engine' = engine /\ tip' = tip /\ decided' = decided
  BY DEF GossipBegins, books
<1>4. tip <= H BY <1>1 DEF Spot, Place
<1>5. g \in 1..Len(decided) /\ (g <= H \/ (g = H + 1 /\ 1 <= n + 1)) BY <1>1, <1>2, <1>3, <1>4
<1>6. PICK k \in 1..Len(decided) : k = g BY <1>5
<1>7. Whole(k) /\ IsRest(Body(k), k, 1) BY <1>2, <1>3, <1>6, RestOfAll DEF Whole, Body
<1>8. gossip'.pc = "apply" /\ gossip'.height = k /\ gossip'.todo = Body(k)
  BY <1>3, <1>6 DEF Body
<1>9. GossipInv(H, n)'
  BY <1>3, <1>5, <1>6, <1>7, <1>8 DEF GossipInv, Whole, IsRest, Body
<1>10. Place(H, n)' /\ UsedInv(H, n)' BY <1>1, <1>3, <1>4, SamePlace DEF Spot
<1>11. OnceInv(H, n)' /\ EngineInv(H, n)' BY <1>1, <1>3, EngineSame DEF Spot
<1> QED BY <1>1, <1>3, <1>9, <1>10, <1>11 DEF Somewhere, Spot

\* The gossip handler's next transaction is the place's next one, or is used up and ends it.
LEMMA GossipAppliesOn ==
    ASSUME PipeInv, Somewhere, GossipApplies
    PROVE  Somewhere'
<1>1. PICK H \in 0..Len(decided), n \in Nat : Spot(H, n) BY DEF Somewhere
<1> DEFINE t == Head(gossip.todo)
           g == gossip.height
<1>2. /\ gossip \in GossipState /\ g \in Nat /\ Len(decided) \in Nat /\ H \in Nat
      /\ gossip.todo \in Seq(Admitted) /\ LedgerInv
      /\ \A k \in 1..Len(decided) : Body(k) \in Seq(Admitted) /\ Len(Body(k)) \in Nat
  BY <1>1, Bodies DEF PipeInv
<1>3. /\ Place(H, n) /\ UsedInv(H, n) /\ OnceInv(H, n) /\ EngineInv(H, n) /\ GossipInv(H, n)
  BY <1>1 DEF Spot
<1>4. /\ gossip.pc = "apply" /\ gossip.todo # <<>>
      /\ engine' = engine /\ tip' = tip /\ decided' = decided
  BY DEF GossipApplies
<1>5. \/ /\ CanApply(ledger, t) /\ ledger' = ApplyTx(ledger, t)
         /\ gossip' = [gossip EXCEPT !.todo = Tail(@)]
      \/ /\ ledger' = ledger /\ gossip' = [height |-> 0, pc |-> "idle", todo |-> <<>>]
  BY DEF GossipApplies, books
<1>6. PICK j \in Nat :
        /\ g \in 1..Len(decided) /\ Whole(g) /\ IsRest(gossip.todo, g, j)
        /\ g <= H \/ (g = H + 1 /\ j <= n + 1)
  BY <1>3, <1>4 DEF GossipInv
<1>7. /\ j \in 1..Len(Body(g)) /\ t = Body(g)[j] /\ IsRest(Tail(gossip.todo), g, j + 1)
  BY <1>2, <1>4, <1>6, RestParts
<1>8. t \in Admitted BY <1>2, <1>6, <1>7
<1> HIDE DEF t
<1>9. CASE ledger' = ledger /\ gossip' = [height |-> 0, pc |-> "idle", todo |-> <<>>]
  <2>1. Place(H, n)' /\ UsedInv(H, n)' BY <1>3, <1>4, <1>9, SamePlace DEF Place
  <2>2. OnceInv(H, n)' /\ EngineInv(H, n)' BY <1>3, <1>4, EngineSame
  <2>3. GossipInv(H, n)' BY <1>9 DEF GossipInv
  <2> QED BY <1>1, <1>4, <2>1, <2>2, <2>3 DEF Somewhere, Spot
<1>10. CASE /\ CanApply(ledger, t) /\ ledger' = ApplyTx(ledger, t)
            /\ gossip' = [gossip EXCEPT !.todo = Tail(@)]
  <2>1. ~Passed(H, n, g, j)
    <3> SUFFICES ASSUME Passed(H, n, g, j) PROVE FALSE OBVIOUS
    <3>1. Used(Body(g)[j]) BY <1>3, <1>6, <1>7 DEF UsedInv
    <3>2. Used(t) BY <1>7, <3>1
    <3> QED BY <1>2, <1>8, <1>10, <3>2, UsedFails
  <2>2. g = H + 1 /\ j = n + 1 BY <1>1, <1>2, <1>6, <2>1 DEF Passed
  <2>3. H < Len(decided) /\ n < Len(Body(H + 1)) /\ t = Body(H + 1)[n + 1]
    BY <1>1, <1>2, <1>6, <1>7, <2>2
  <2>4. ledger' = ApplyOrSkip(ledger, Body(H + 1)[n + 1]) BY <1>10, <2>3 DEF ApplyOrSkip
  <2>5. Place(H, n + 1)' /\ UsedInv(H, n + 1)' BY <1>1, <1>3, <1>4, <2>3, <2>4, OneTxOn
  <2>6. OnceInv(H, n + 1)
    <3> SUFFICES ASSUME NEW k \in 1..Len(decided), ~Whole(k), Passed(H, n + 1, k, 1)
                 PROVE  k < engine.height \/ (k = engine.height /\ engine.pc = "apply")
      BY DEF OnceInv
    <3>1. k <= H BY <1>6, <2>2 DEF Passed
    <3> QED BY <1>3, <3>1 DEF OnceInv, Passed
  <2>7. EngineInv(H, n + 1)
    <3>1. ASSUME engine.pc = "apply"
          PROVE  \E i \in Nat : EngineAt(H, n + 1, engine.height, i, engine.todo)
      <4>1. PICK i \in Nat : EngineAt(H, n, engine.height, i, engine.todo)
        BY <1>3, <3>1 DEF EngineInv
      <4>2. i = n + 1 \/ i <= n + 1 => i <= (n + 1) + 1 BY <1>1, <4>1
      <4>3. EngineAt(H, n + 1, engine.height, i, engine.todo)
        BY <1>6, <2>2, <4>1, <4>2 DEF EngineAt
      <4> QED BY <4>1, <4>3
    <3> QED BY <1>3, <3>1 DEF EngineInv
  <2>8. OnceInv(H, n + 1)' /\ EngineInv(H, n + 1)' BY <1>4, <2>6, <2>7, EngineSame
  <2>9. GossipInv(H, n + 1)'
    <3>1. gossip'.pc = "apply" /\ gossip'.height = g /\ gossip'.todo = Tail(gossip.todo)
      BY <1>2, <1>4, <1>10 DEF GossipState
    <3>2. IsRest(gossip.todo, gossip.height, j + 1)'
      BY <1>4, <1>7, <3>1 DEF IsRest, Body
    <3>3. Whole(gossip.height)' BY <1>4, <1>6, <3>1 DEF Whole, Body
    <3>4. j + 1 <= (n + 1) + 1 /\ j + 1 \in Nat BY <1>1, <1>6, <2>2
    <3> QED BY <1>4, <1>6, <2>2, <3>1, <3>2, <3>3, <3>4 DEF GossipInv
  <2>10. n + 1 \in Nat OBVIOUS
  <2> QED BY <1>1, <1>4, <2>5, <2>8, <2>9, <2>10 DEF Somewhere, Spot
<1> QED BY <1>5, <1>9, <1>10

\* The announced block is saved when all of it has been applied.
LEMMA GossipSavesOn ==
    ASSUME PipeInv, ChainInv, Somewhere, GossipSaves
    PROVE  Somewhere'
<1> DEFINE g == gossip.height
<1>1. /\ Len(decided) \in Nat /\ g \in Nat /\ gossip.todo \in Seq(Admitted)
      /\ \A k \in 1..Len(decided) : Body(k) \in Seq(Admitted) /\ Len(Body(k)) \in Nat
  BY Bodies
<1>2. /\ gossip.pc = "apply" /\ gossip.todo = <<>> /\ tip' = g
      /\ gossip' = [height |-> 0, pc |-> "idle", todo |-> <<>>]
      /\ ledger' = ledger /\ engine' = engine /\ decided' = decided
  BY DEF GossipSaves, books
<1>3. PICK H \in 0..Len(decided), n \in Nat : Spot(H, n) /\ g <= H
  <2>1. PICK H \in 0..Len(decided), n \in Nat : Spot(H, n) BY DEF Somewhere
  <2>2. GossipInv(H, n) /\ H \in Nat BY <1>1, <2>1 DEF Spot
  <2>3. PICK j \in Nat :
          /\ g \in 1..Len(decided) /\ IsRest(gossip.todo, g, j)
          /\ g <= H \/ (g = H + 1 /\ j <= n + 1)
    BY <1>2, <2>2 DEF GossipInv
  <2>4. CASE g <= H BY <2>1, <2>4
  <2>5. CASE ~(g <= H)
    <3>1. g = H + 1 /\ j <= n + 1 BY <2>3, <2>5
    <3>2. j = Len(Body(g)) + 1 BY <1>1, <1>2, <2>3, RestParts
    <3>3. H < Len(decided) BY <2>2, <2>3, <3>1
    <3>4. n <= Len(Body(H + 1)) BY <2>1, <3>3 DEF Spot, Place
    <3>5. n = Len(Body(H + 1)) BY <1>1, <2>1, <2>3, <3>1, <3>2, <3>4
    <3>6. Spot(H + 1, 0) /\ H + 1 \in 0..Len(decided) BY <2>1, <3>3, <3>5, NextBlock
    <3> QED BY <2>2, <3>1, <3>6
  <2> QED BY <2>4, <2>5
<1>4. tip' <= H BY <1>2, <1>3
<1>5. Place(H, n)' /\ UsedInv(H, n)' BY <1>2, <1>3, <1>4, SamePlace DEF Spot
<1>6. OnceInv(H, n)' /\ EngineInv(H, n)' BY <1>2, <1>3, EngineSame DEF Spot
<1>7. GossipInv(H, n)' BY <1>2 DEF GossipInv
<1> QED BY <1>2, <1>3, <1>5, <1>6, <1>7 DEF Somewhere, Spot

\* Nothing is decided at first.
LEMMA PlaceInit == PipelineInit => ChainInv /\ restarts \in Nat /\ Somewhere
<1> SUFFICES ASSUME PipelineInit PROVE ChainInv /\ restarts \in Nat /\ Somewhere OBVIOUS
<1>1. /\ decided = <<>> /\ tip = 0 /\ ledger = StartLedger /\ gossip.pc = "idle"
      /\ engine.pc = "idle" /\ engine.height = 1 /\ restarts = 0 /\ Len(decided) = 0
  BY DEF PipelineInit, Init
<1>2. ChainInv BY <1>1 DEF ChainInv
<1>3. Place(0, 0) BY <1>1 DEF Place, Network
<1>4. UsedInv(0, 0) /\ OnceInv(0, 0) BY <1>1 DEF UsedInv, OnceInv
<1>5. EngineInv(0, 0) /\ GossipInv(0, 0) BY <1>1 DEF EngineInv, GossipInv
<1>6. 0 \in 0..Len(decided) BY <1>1
<1> QED BY <1>1, <1>2, <1>3, <1>4, <1>5, <1>6 DEF Somewhere, Spot

DecidedInv == ChainInv /\ restarts \in Nat /\ (restarts = 0 => Somewhere)

\* Every step of a node that has not stopped.
LEMMA DecidedStep == PipeInv /\ DecidedInv /\ [PipelineNext]_pipeline => DecidedInv'
<1> SUFFICES ASSUME PipeInv, DecidedInv, [PipelineNext]_pipeline PROVE DecidedInv' OBVIOUS
<1>1. ASSUME UNCHANGED decided PROVE ChainInv' BY <1>1 DEF DecidedInv, ChainInv, Body
<1>2. CASE Restart
  <2>1. restarts' = restarts + 1 /\ UNCHANGED decided BY <1>2 DEF Restart
  <2>2. restarts' \in Nat /\ restarts' # 0 BY <2>1 DEF DecidedInv
  <2> QED BY <1>1, <2>1, <2>2 DEF DecidedInv
<1>3. ASSUME restarts' = restarts, ChainInv', Somewhere => Somewhere' PROVE DecidedInv'
  BY <1>3 DEF DecidedInv
<1>4. ASSUME \/ UNCHANGED pipeline \/ \E c \in Clients : FinishAdd(c) \/ \E t \in Txs : Submit(c, t)
      PROVE  DecidedInv'
  <2>1. UNCHANGED <<ledger, engine, gossip, tip, decided>> /\ restarts' = restarts
    BY <1>4 DEF pipeline, FinishAdd, Submit, books
  <2> QED BY <1>1, <1>3, <2>1, Elsewhere
<1>5. ASSUME \/ Propose \/ SigningFails \/ ReturnTx \/ ReturnedAll \/ Accept \/ RoundFails
             \/ CommitUnseen
      PROVE  DecidedInv'
  <2>1. restarts' = restarts /\ UNCHANGED decided
    BY <1>5 DEF Propose, SigningFails, ReturnTx, ReturnedAll, Accept, RoundFails, CommitUnseen
  <2> QED BY <1>1, <1>3, <1>5, <2>1, EngineBetween
<1>6. CASE Commit
  <2>1. restarts' = restarts BY <1>6 DEF Commit
  <2>2. CASE restarts = 0 BY <1>6, <2>1, <2>2, CommitBegins DEF DecidedInv
  <2>3. CASE restarts # 0
    <3>1. ChainInv'
      <4>1. CASE UNCHANGED decided BY <1>1, <4>1
      <4>2. CASE Decide(engine.todo)
        <5>1. PICK b \in Seq(Admitted) : Decide(b) BY <4>2, Bodies
        <5> QED BY <5>1, BlockDecided DEF DecidedInv
      <4> QED BY <1>6, <4>1, <4>2 DEF Commit
    <3> QED BY <2>1, <2>3, <3>1 DEF DecidedInv
  <2> QED BY <2>2, <2>3
<1>7. ASSUME NEW b \in BlockTxs, PeersDecide(b) PROVE DecidedInv'
  <2>1. restarts' = restarts /\ Decide(b) BY <1>7 DEF PeersDecide
  <2>2. b \in Seq(Admitted)
    <3>1. b \in Seq(Txs) BY Sizes DEF BlockTxs, BoundedSeq, SeqOf
    <3>2. \A i \in 1..Len(b) : b[i] \in Admitted BY <1>7, <3>1 DEF Admitted, PeersDecide
    <3> QED BY <3>1, <3>2
  <2>3. ChainInv' BY <2>1, <2>2, BlockDecided DEF DecidedInv
  <2> QED BY <1>3, <1>7, <2>1, <2>3, PeersDecideOn DEF DecidedInv
<1>8. CASE ApplyNext
  <2>1. restarts' = restarts /\ UNCHANGED decided BY <1>8 DEF ApplyNext
  <2> QED BY <1>1, <1>3, <1>8, <2>1, ApplyNextOn
<1>9. CASE Seal
  <2>1. restarts' = restarts /\ UNCHANGED decided BY <1>9 DEF Seal
  <2> QED BY <1>1, <1>3, <1>9, <2>1, SealOn DEF DecidedInv
<1>10. CASE GossipBegins
  <2>1. restarts' = restarts /\ UNCHANGED decided BY <1>10 DEF GossipBegins
  <2> QED BY <1>1, <1>3, <1>10, <2>1, GossipBeginsOn
<1>11. CASE GossipApplies
  <2>1. restarts' = restarts /\ UNCHANGED decided BY <1>11 DEF GossipApplies
  <2> QED BY <1>1, <1>3, <1>11, <2>1, GossipAppliesOn
<1>12. CASE GossipSaves
  <2>1. restarts' = restarts /\ UNCHANGED decided BY <1>12 DEF GossipSaves
  <2> QED BY <1>1, <1>3, <1>12, <2>1, GossipSavesOn DEF DecidedInv
<1> QED BY <1>2, <1>4, <1>5, <1>6, <1>7, <1>8, <1>9, <1>10, <1>11, <1>12 DEF PipelineNext

\* A place is a point of the decided blocks.
LEMMA PlaceIsOnDecided == PipeInv /\ DecidedInv => FollowsDecided
<1> SUFFICES ASSUME PipeInv, DecidedInv, restarts = 0 PROVE OnDecided BY DEF FollowsDecided
<1>1. PICK H \in 0..Len(decided), n \in Nat : Spot(H, n) BY DEF DecidedInv, Somewhere
<1>2. PICK S : decided \in Seq(S) BY DEF PipeInv, DecidedType
<1>3. /\ Len(decided) \in Nat /\ H \in Nat
      /\ \A k \in 1..Len(decided) : Body(k) \in Seq(Admitted) /\ Len(Body(k)) \in Nat
  BY <1>1, Bodies
<1>4. DOMAIN decided = 1..Len(decided) BY <1>2
<1>5. CASE H = Len(decided)
  <2>1. ledger = Network BY <1>1, <1>5 DEF Spot, Place
  <2>2. CASE decided = <<>> BY <2>1, <2>2 DEF Network, OnDecided
  <2>3. CASE decided # <<>>
    <3>1. H \in 1..Len(decided)
      <4>1. Len(decided) # 0 BY <1>2, <2>3, EmptySeq
      <4> QED BY <1>3, <1>5, <4>1
    <3>2. Last(decided) = decided[H] BY <1>5, <2>3 DEF Last
    <3>3. ledger = After(decided[H].before, decided[H].txs)[Len(decided[H].txs)]
      BY <2>1, <2>3, <3>2 DEF Network, ApplyAll
    <3>4. Len(decided[H].txs) \in 0..Len(decided[H].txs) BY <1>3, <3>1 DEF Body
    <3> QED BY <1>4, <3>1, <3>3, <3>4 DEF OnDecided
  <2> QED BY <2>2, <2>3
<1>6. CASE H # Len(decided)
  <2>1. H < Len(decided) /\ H + 1 \in 1..Len(decided) BY <1>1, <1>3, <1>6
  <2>2. n <= Len(Body(H + 1)) /\ ledger = At(H + 1, n) BY <1>1, <2>1 DEF Spot, Place
  <2>3. n \in 0..Len(decided[H + 1].txs) BY <1>1, <1>3, <2>1, <2>2 DEF Body
  <2> QED BY <1>4, <2>1, <2>2, <2>3 DEF OnDecided, At, Body
<1> QED BY <1>5, <1>6

(***************************************************************************)
(* Until it crashes, a node's ledger is at every moment the network's,     *)
(* some number of transactions into some decided block, for any            *)
(* transactions and any number of blocks: however commitLocked and the     *)
(* gossip handler run the same blocks side by side, late, again, or not at *)
(* all, and although the tip may fall behind and headers fail to be saved. *)
(***************************************************************************)
THEOREM FollowsDecidedHolds == PipelineSpec => []FollowsDecided
<1>1. PipelineInit => DecidedInv BY PlaceInit DEF DecidedInv
<1> QED BY <1>1, DecidedStep, PlaceIsOnDecided, PipeInvHolds, PTL DEF PipelineSpec
=============================================================================
