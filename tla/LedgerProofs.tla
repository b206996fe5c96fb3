---------------------------- MODULE LedgerProofs -----------------------------
(***************************************************************************)
(* For every set of accounts and transactions, every start and every cap:  *)
(* the ledger stays solvent, applies no transaction twice, creates money   *)
(* only where the code creates it, and its state root and account proofs   *)
(* tell stores apart.                                                      *)
(*                                                                         *)
(* That no transaction is applied twice follows from NoncesUsed: an        *)
(* applied transaction has used its nonce up, no step but an applied nonce *)
(* 0 lowers a nonce (SeedAccount leaves it alone), and ApplyTx refuses a   *)
(* used one.  Where every transaction has passed CheckTx no nonce 0 is     *)
(* ever applied, and nothing but a transfer to oneself repeats.  The       *)
(* supply needs sums over the accounts and over the transactions: the fold *)
(* of the model is shown to exist and to split at any element, and each    *)
(* step changes it by what it changes one account or two.  The last part   *)
(* is about trees of every size: a path leads from its leaf to the root,   *)
(* from no other digest, and two trees with one root have the same leaves. *)
(***************************************************************************)
EXTENDS Merkle, FiniteSetTheorems, SequenceTheorems, WellFoundedInduction, TLAPS

TimesType == times \in [Txs -> Nat]
LedgerInv == Solvent /\ TimesType /\ NoncesUsed /\ AppliedOnce

\* Accounts are accounts after one of them is replaced.
LEMMA AccountReplaced ==
    ASSUME NEW acc \in [Accounts -> Account], NEW a \in Accounts, NEW new \in Account
    PROVE  [acc EXCEPT ![a] = new] \in [Accounts -> Account]
OBVIOUS

\* An account is an account after any of ApplyTx's assignments of natural numbers.
LEMMA AccountAssigned ==
    ASSUME NEW from \in Account, NEW x \in Nat, NEW y \in Nat, NEW n \in Nat
    PROVE  /\ [from EXCEPT !.balance = x] \in Account
           /\ [from EXCEPT !.balance = x, !.nonce = n] \in Account
           /\ [from EXCEPT !.balance = x, !.staked = y, !.nonce = n] \in Account
           /\ [from EXCEPT !.staked = x, !.pending = y, !.nonce = n] \in Account
           /\ [from EXCEPT !.pending = x, !.balance = y, !.nonce = n] \in Account
           /\ from.balance \in Nat /\ from.staked \in Nat /\ from.pending \in Nat
BY DEF Account

\* One ApplyTx of a funded transaction keeps balances and the bucket in range.
LEMMA ApplyKeepsSolvent ==
    ASSUME NEW L \in [acc : [Accounts -> Account], minted : 0..MiningCap],
           NEW t \in Transaction, Funded(L, t)
    PROVE  ApplyTx(L, t) \in [acc : [Accounts -> Account], minted : 0..MiningCap]
<1>0. L.acc[t.from] \in Account /\ L.acc[t.to] \in Account /\ t.amount \in Nat
      /\ t.nonce \in Nat /\ t.from \in Accounts /\ t.to \in Accounts /\ t.type \in TxTypes
      /\ L.acc \in [Accounts -> Account] /\ L.minted \in 0..MiningCap
  BY DEF Transaction
<1>1. CASE t.type = "transfer"
  <2>1. L.acc[t.from].balance - t.amount \in Nat
    BY <1>0, <1>1 DEF Funded, Account
  <2>2. Transfer(L.acc, t) \in [Accounts -> Account]
    <3> DEFINE from == L.acc[t.from]
               to == L.acc[t.to]
               debited == [from EXCEPT !.balance = from.balance - t.amount, !.nonce = t.nonce]
               credited == [to EXCEPT !.balance = to.balance + t.amount]
    <3>0. /\ from \in Account /\ t.nonce \in Nat /\ from.balance - t.amount \in Nat
          /\ to \in Account /\ to.balance + t.amount \in Nat
      BY <1>0, <2>1 DEF Account
    <3>1. debited \in Account /\ credited \in Account
      <4> HIDE DEF from, to
      <4> QED BY ONLY <3>0, AccountAssigned, Zenon
    <3>2. [L.acc EXCEPT ![t.from] = debited] \in [Accounts -> Account]
      BY <1>0, <3>1, AccountReplaced
    <3> QED BY <1>0, <3>1, <3>2, AccountReplaced DEF Transfer
  <2> QED BY <1>0, <1>1, <2>2 DEF ApplyTx
<1>2. CASE t.type = "stake"
  <2>1. L.acc[t.from].balance - t.amount \in Nat
    BY <1>0, <1>2 DEF Funded, Account
  <2>2. Stake(L.acc, t) \in [Accounts -> Account]
    <3> DEFINE from == L.acc[t.from]
               new == [from EXCEPT !.balance = from.balance - t.amount, !.staked = from.staked + t.amount, !.nonce = t.nonce]
    <3>1. from \in Account /\ t.nonce \in Nat /\ from.balance - t.amount \in Nat /\ from.staked + t.amount \in Nat
      BY <1>0, <2>1 DEF Account
    <3>2. new \in Account
      <4> HIDE DEF from
      <4> QED BY ONLY <3>1, AccountAssigned, Zenon
    <3> QED BY <1>0, <3>2, AccountReplaced DEF Stake
  <2> QED BY <1>0, <1>2, <2>2 DEF ApplyTx
<1>3. CASE t.type = "request_unstake"
  <2>1. L.acc[t.from].staked - t.amount \in Nat
    BY <1>0, <1>3 DEF Funded, Account
  <2>2. RequestUnstake(L.acc, t) \in [Accounts -> Account]
    <3> DEFINE from == L.acc[t.from]
               new == [from EXCEPT !.staked = from.staked - t.amount, !.pending = from.pending + t.amount, !.nonce = t.nonce]
    <3>1. from \in Account /\ t.nonce \in Nat /\ from.staked - t.amount \in Nat /\ from.pending + t.amount \in Nat
      BY <1>0, <2>1 DEF Account
    <3>2. new \in Account
      <4> HIDE DEF from
      <4> QED BY ONLY <3>1, AccountAssigned, Zenon
    <3> QED BY <1>0, <3>2, AccountReplaced DEF RequestUnstake
  <2> QED BY <1>0, <1>3, <2>2 DEF ApplyTx
<1>4. CASE t.type = "claim_unstake"
  <2>1. L.acc[t.from].pending - t.amount \in Nat
    BY <1>0, <1>4 DEF Funded, Account
  <2>2. ClaimUnstake(L.acc, t) \in [Accounts -> Account]
    <3> DEFINE from == L.acc[t.from]
               new == [from EXCEPT !.pending = from.pending - t.amount, !.balance = from.balance + t.amount, !.nonce = t.nonce]
    <3>1. from \in Account /\ t.nonce \in Nat /\ from.pending - t.amount \in Nat /\ from.balance + t.amount \in Nat
      BY <1>0, <2>1 DEF Account
    <3>2. new \in Account
      <4> HIDE DEF from
      <4> QED BY ONLY <3>1, AccountAssigned, Zenon
    <3> QED BY <1>0, <3>2, AccountReplaced DEF ClaimUnstake
  <2> QED BY <1>0, <1>4, <2>2 DEF ApplyTx
<1>5. CASE t.type = "claim_mining"
  <2>1. L.minted + t.amount \in 0..MiningCap
    BY <1>0, <1>5, LedgerBounds DEF Funded, BucketHasRoom
  <2>2. ClaimMining(L.acc, t) \in [Accounts -> Account]
    <3>1. t.amount * Unit \in Nat
      BY <1>0, LedgerBounds
    <3> DEFINE from == L.acc[t.from]
               new == [from EXCEPT !.balance = from.balance + t.amount * Unit, !.nonce = t.nonce]
    <3>2. from \in Account /\ t.nonce \in Nat /\ from.balance + t.amount * Unit \in Nat
      BY <1>0, <3>1 DEF Account
    <3>3. new \in Account
      <4> HIDE DEF from
      <4> QED BY ONLY <3>2, AccountAssigned, Zenon
    <3> QED BY <1>0, <3>3, AccountReplaced DEF ClaimMining
  <2> QED BY <1>0, <1>5, <2>1, <2>2 DEF ApplyTx
<1> QED BY <1>0, <1>1, <1>2, <1>3, <1>4, <1>5 DEF TxTypes

\* What one ApplyTx does to the nonces.
LEMMA ApplyNonces ==
    ASSUME NEW L \in [acc : [Accounts -> Account], minted : 0..MiningCap],
           NEW t \in Transaction, NEW a \in Accounts
    PROVE  ApplyTx(L, t).acc[a].nonce
               = IF a = t.from /\ ~SelfTransfer(t) THEN t.nonce ELSE L.acc[a].nonce
<1> USE DEF Account, Transaction, TxTypes, SelfTransfer
<1>0. L.acc[t.from] \in Account /\ L.acc[t.to] \in Account /\ L.acc[a] \in Account
      /\ t.from \in Accounts /\ t.to \in Accounts /\ t.type \in TxTypes
      /\ L.acc \in [Accounts -> Account]
  OBVIOUS
<1>1. CASE t.type = "transfer"
  BY <1>0, <1>1 DEF ApplyTx, Transfer
<1>2. CASE t.type = "stake"
  BY <1>0, <1>2 DEF ApplyTx, Stake
<1>3. CASE t.type = "request_unstake"
  BY <1>0, <1>3 DEF ApplyTx, RequestUnstake
<1>4. CASE t.type = "claim_unstake"
  BY <1>0, <1>4 DEF ApplyTx, ClaimUnstake
<1>5. CASE t.type = "claim_mining"
  BY <1>0, <1>5 DEF ApplyTx, ClaimMining
<1> QED BY <1>0, <1>1, <1>2, <1>3, <1>4, <1>5
-----------------------------------------------------------------------------
\* The invariant holds at the start.
LEMMA LedgerInvInit == Init => LedgerInv
<1> SUFFICES ASSUME Init PROVE LedgerInv
  OBVIOUS
<1>1. Solvent
  BY StartType, LedgerBounds DEF Init, StartLedger, Solvent
<1>2. TimesType /\ \A t \in Txs : times[t] = 0
  BY DEF Init, TimesType
<1> QED BY <1>1, <1>2 DEF LedgerInv, NoncesUsed, AppliedOnce

\* A reset account stays one; an applied nonce 0 resets its sender's.
LEMMA ResetStays ==
    ASSUME TimesType, NEW t \in Txs, times' = [times EXCEPT ![t] = @ + 1]
    PROVE  /\ \A a \in Accounts : NonceReset(a) => NonceReset(a)'
           /\ ~SelfTransfer(t) /\ t.nonce = 0 => NonceReset(t.from)'
<1>1. \A u \in Txs : times[u] \in Nat /\ (times[u] > 0 => times'[u] > 0)
  BY DEF TimesType
<1>2. times'[t] > 0
  BY DEF TimesType
<1>3. ASSUME NEW a \in Accounts, NonceReset(a) PROVE NonceReset(a)'
  <2>1. PICK u \in Txs : u.from = a /\ u.nonce = 0 /\ ~SelfTransfer(u) /\ times[u] > 0
    BY <1>3 DEF NonceReset
  <2>2. times'[u] > 0
    BY <1>1, <2>1
  <2> QED BY <2>1, <2>2 DEF NonceReset
<1>4. ASSUME ~SelfTransfer(t), t.nonce = 0 PROVE NonceReset(t.from)'
  BY <1>2, <1>4 DEF NonceReset
<1> QED BY <1>3, <1>4

\* One applied transaction preserves it.
LEMMA LedgerInvApply ==
    ASSUME LedgerInv, NEW t \in Txs, Apply(t)
    PROVE  LedgerInv'
<1>0. /\ t \in Transaction /\ t.nonce \in Nat /\ t.from \in Accounts
      /\ ledger \in [acc : [Accounts -> Account], minted : 0..MiningCap]
      /\ ledger' = ApplyTx(ledger, t) /\ times' = [times EXCEPT ![t] = @ + 1]
      /\ times \in [Txs -> Nat]
      /\ Funded(ledger, t) /\ (t.nonce = 0 \/ ledger.acc[t.from].nonce < t.nonce)
  BY TxsType DEF LedgerInv, Solvent, TimesType, Apply, CanApply, NonceFresh, Transaction, Account
<1>1. Solvent'
  BY <1>0, ApplyKeepsSolvent DEF Solvent
<1>2. TimesType'
  BY <1>0 DEF TimesType
<1>3. \A a \in Accounts :
          /\ ledger.acc[a].nonce \in Nat /\ ledger'.acc[a].nonce \in Nat
          /\ a = t.from /\ ~SelfTransfer(t) => ledger'.acc[a].nonce = t.nonce
          /\ a # t.from \/ SelfTransfer(t) => ledger'.acc[a].nonce = ledger.acc[a].nonce
  BY <1>0, <1>1, ApplyNonces DEF Solvent, Account
<1>r. /\ \A a \in Accounts : NonceReset(a) => NonceReset(a)'
      /\ ~SelfTransfer(t) /\ t.nonce = 0 => NonceReset(t.from)'
  BY <1>0, ResetStays DEF LedgerInv
<1>4. NoncesUsed'
  <2> SUFFICES ASSUME NEW u \in Txs, ~SelfTransfer(u), ~NonceReset(u.from)', times'[u] > 0
               PROVE  u.nonce <= ledger'.acc[u.from].nonce
    BY DEF NoncesUsed
  <2>0. u.from \in Accounts /\ u.nonce \in Nat
    BY TxsType DEF Transaction
  <2>1. CASE u = t
    <3>1. ledger'.acc[t.from].nonce = t.nonce
      BY <1>0, <1>3, <2>1
    <3> QED BY <1>0, <2>1, <3>1
  <2>2. CASE u # t
    <3>1. u.nonce <= ledger.acc[u.from].nonce
      BY <1>0, <1>r, <2>0, <2>2 DEF LedgerInv, NoncesUsed
    <3>2. ledger.acc[u.from].nonce <= ledger'.acc[u.from].nonce
      <4>1. CASE u.from = t.from /\ ~SelfTransfer(t)
        <5>1. t.nonce # 0
          BY <1>r, <4>1
        <5> QED BY <1>0, <1>3, <2>0, <4>1, <5>1
      <4>2. CASE u.from # t.from \/ SelfTransfer(t)
        BY <1>3, <2>0, <4>2
      <4> QED BY <4>1, <4>2
    <3>3. ledger.acc[u.from].nonce \in Nat /\ ledger'.acc[u.from].nonce \in Nat
      BY <1>3, <2>0
    <3> QED BY <2>0, <3>1, <3>2, <3>3
  <2> QED BY <2>1, <2>2
<1>5. AppliedOnce'
  <2> SUFFICES ASSUME NEW u \in Txs, ~SelfTransfer(u), ~NonceReset(u.from)'
               PROVE  times'[u] <= 1
    BY DEF AppliedOnce
  <2>0. u.from \in Accounts /\ ~NonceReset(u.from)
    BY <1>r, TxsType DEF Transaction
  <2>1. CASE u = t
    <3>1. ledger.acc[t.from].nonce \in Nat /\ ledger.acc[t.from].nonce < t.nonce
      BY <1>0, <1>3, <1>r, <2>1
    <3>2. times[t] = 0
      BY <1>0, <2>0, <2>1, <3>1 DEF LedgerInv, NoncesUsed
    <3> QED BY <1>0, <2>1, <3>2
  <2>2. CASE u # t
    BY <1>0, <2>0, <2>2 DEF LedgerInv, AppliedOnce
  <2> QED BY <2>1, <2>2
<1> QED BY <1>1, <1>2, <1>4, <1>5 DEF LedgerInv

\* A seeded account is an account and keeps its nonce.
LEMMA SeededAccountKeeps ==
    ASSUME NEW acc \in Account, NEW s \in SeedRequest
    PROVE  SeededAccount(acc, s) \in Account /\ SeededAccount(acc, s).nonce = acc.nonce
<1> USE DEF Account, SeedRequest, SeededAccount, Larger
<1>1. CASE s.mode = "balance_only"
  BY <1>1
<1>2. CASE s.mode = "merge_max"
  BY <1>2
<1>3. CASE s.mode = "overwrite"
  BY <1>3
<1> QED BY <1>1, <1>2, <1>3

\* Seeding an account preserves the invariant.
LEMMA LedgerInvSeed ==
    ASSUME LedgerInv, NEW s \in Seeds, SeedAccount(s)
    PROVE  LedgerInv'
<1> DEFINE new == SeededAccount(ledger.acc[s.addr], s)
<1>0. /\ s \in SeedRequest /\ s.addr \in Accounts
      /\ ledger \in [acc : [Accounts -> Account], minted : 0..MiningCap]
      /\ ledger.acc[s.addr] \in Account
      /\ ledger' = [ledger EXCEPT !.acc[s.addr] = new] /\ times' = times
  BY SeedsType DEF LedgerInv, Solvent, SeedAccount, SeedRequest
<1>1. new \in Account /\ new.nonce = ledger.acc[s.addr].nonce
  BY <1>0, SeededAccountKeeps
<1> HIDE DEF new
<1>2. Solvent'
  BY <1>0, <1>1 DEF Solvent
<1>3. \A a \in Accounts : ledger'.acc[a].nonce = ledger.acc[a].nonce
  BY <1>0, <1>1
<1>4. NoncesUsed'
  BY <1>0, <1>3, TxsType DEF LedgerInv, NoncesUsed, NonceReset, Transaction
<1> QED BY <1>0, <1>2, <1>4 DEF LedgerInv, TimesType, AppliedOnce, NonceReset

\* LedgerInv is an invariant.
THEOREM LedgerInvHolds == Spec => []LedgerInv
<1>1. LedgerInv /\ [Next]_vars => LedgerInv'
  <2> SUFFICES ASSUME LedgerInv, [Next]_vars PROVE LedgerInv'
    OBVIOUS
  <2>1. CASE Next
    BY <2>1, LedgerInvApply, LedgerInvSeed DEF Next
  <2>2. CASE UNCHANGED vars
    BY <2>2 DEF vars, LedgerInv, Solvent, TimesType, NoncesUsed, AppliedOnce, NonceReset
  <2> QED BY <2>1, <2>2
<1> QED BY <1>1, LedgerInvInit, PTL DEF Spec

(***************************************************************************)
(* ApplyTx never drives an account below zero or the mining bucket above   *)
(* its cap.                                                                *)
(***************************************************************************)
THEOREM SolventHolds == Spec => []Solvent
BY LedgerInvHolds, PTL DEF LedgerInv

(***************************************************************************)
(* ApplyTx applies every transaction that is no transfer to oneself at     *)
(* most once, as long as it has applied no nonce 0 of the same sender.     *)
(***************************************************************************)
THEOREM AppliedOnceHolds == Spec => []AppliedOnce
BY LedgerInvHolds, PTL DEF LedgerInv

(***************************************************************************)
(* A transaction that ApplyTx has applied, and that is no transfer to      *)
(* oneself, is covered by its sender's nonce from then on, whatever other  *)
(* transactions and seeds come between, until a nonce 0 of that sender is  *)
(* applied.                                                                *)
(***************************************************************************)
THEOREM NoncesUsedHolds == Spec => []NoncesUsed
BY LedgerInvHolds, PTL DEF LedgerInv

\* Behind CheckTx no nonce 0 is applied.
NoZeroApplied == \A t \in Txs : t.nonce = 0 => times[t] = 0
AdmittedInv == LedgerInv /\ NoZeroApplied

\* Then no account's nonce is ever set back, and nothing is applied again.
LEMMA NeverReset ==
    ASSUME AdmittedInv
    PROVE  NoReplay /\ \A a \in Accounts : ~NonceReset(a)
<1>1. \A a \in Accounts : ~NonceReset(a)
  BY DEF AdmittedInv, NoZeroApplied, NonceReset
<1>2. \A t \in Txs : ~NonceReset(t.from)
  BY <1>1, TxsType DEF Transaction
<1> QED BY <1>1, <1>2 DEF AdmittedInv, LedgerInv, AppliedOnce, NoReplay

\* A step with admitted transactions only is a step of the ledger and keeps both.
LEMMA AdmittedKeeps ==
    ASSUME AdmittedInv, [AdmittedNext]_vars
    PROVE  AdmittedInv'
<1>1. ASSUME NEW t \in Txs, ApplyAdmitted(t) PROVE AdmittedInv'
  <2>1. Apply(t) /\ t.nonce > 0
    BY <1>1 DEF ApplyAdmitted
  <2>2. LedgerInv'
    BY <2>1, LedgerInvApply DEF AdmittedInv
  <2>3. times' = [times EXCEPT ![t] = @ + 1] /\ times \in [Txs -> Nat]
    BY <2>1 DEF Apply, AdmittedInv, LedgerInv, TimesType
  <2> QED BY <2>1, <2>2, <2>3 DEF AdmittedInv, NoZeroApplied
<1>2. ASSUME NEW s \in Seeds, SeedAccount(s) PROVE AdmittedInv'
  <2>1. LedgerInv'
    BY <1>2, LedgerInvSeed DEF AdmittedInv
  <2> QED BY <1>2, <2>1 DEF SeedAccount, AdmittedInv, NoZeroApplied
<1>3. CASE UNCHANGED vars
  BY <1>3 DEF vars, AdmittedInv, NoZeroApplied, LedgerInv, Solvent, TimesType,
              NoncesUsed, AppliedOnce, NonceReset
<1> QED BY <1>1, <1>2, <1>3 DEF AdmittedNext

\* Both hold at the start.
LEMMA AdmittedInit == Init => AdmittedInv
BY LedgerInvInit DEF Init, AdmittedInv, NoZeroApplied

(***************************************************************************)
(* What CheckTx adds to ApplyTx: where every transaction has passed the    *)
(* check of some mempool, which refuses nonce 0, none is applied twice     *)
(* except a transfer to oneself.                                           *)
(***************************************************************************)
THEOREM NoReplayHolds == AdmittedSpec => []NoReplay
<1>1. AdmittedSpec => []AdmittedInv
  BY AdmittedInit, AdmittedKeeps, PTL DEF AdmittedSpec
<1> QED BY <1>1, NeverReset, PTL
-----------------------------------------------------------------------------
(* Sums over finite sets.  MapThenSumSet adds the elements up in the order   *)
(* in which CHOOSE picks them; the sums of two functions over one set are    *)
(* added up in the same order, so that they can be compared term by term.    *)

Pick(T) == CHOOSE x \in T : TRUE
Rest(T) == T \ {Pick(T)}
Term(g, f, T) == IF T = {} THEN 0 ELSE f[Pick(T)] + g[Rest(T)]
AreSums(g, f, S) == g = [T \in SUBSET S |-> Term(g, f, T)]
Sums(f, S) == CHOOSE g : AreSums(g, f, S)

\* SumOf, with its recursion spelled out.
LEMMA SumOfIs == ASSUME NEW f, NEW S PROVE SumOf(f, S) = Sums(f, S)[S]
BY DEF SumOf, MapThenSumSet, MapThenFoldSet, Sums, AreSums, Term, Pick, Rest

\* A set that is not empty loses one element to Rest.
LEMMA RestSmaller ==
    ASSUME NEW T, IsFiniteSet(T), T # {}
    PROVE  /\ Pick(T) \in T /\ Rest(T) \in SUBSET T /\ IsFiniteSet(Rest(T))
           /\ Cardinality(T) \in Nat /\ Cardinality(Rest(T)) = Cardinality(T) - 1
           /\ Cardinality(Rest(T)) \in Nat
<1>1. Pick(T) \in T BY DEF Pick
<1>2. Rest(T) \in SUBSET T BY DEF Rest
<1>3. IsFiniteSet(Rest(T)) /\ Cardinality(Rest(T)) = Cardinality(T) - 1
  BY <1>1, FS_RemoveElement DEF Rest
<1> QED BY <1>1, <1>2, <1>3, FS_CardinalityType

\* Every set of numbers has a least one.
LEMMA LeastOf ==
    ASSUME NEW S \in SUBSET Nat, S # {}
    PROVE  \E m \in S : \A n \in S : m <= n
<1>1. PICK m \in S : \A n \in S : ~(<<n, m>> \in OpToRel(<, Nat))
  BY NatLessThanWellFounded, WFMin
<1>2. \A n \in S : ~(n < m) BY <1>1 DEF OpToRel
<1> QED BY <1>2

\* The subsets of S with at most n elements, and sums over all of them.
Small(S, n) == {T \in SUBSET S : Cardinality(T) <= n}
SumsUpTo(g, f, S, n) == g = [T \in Small(S, n) |-> Term(g, f, T)]

\* Sums over the sets with n elements give those over the sets with one more.
LEMMA SumsExtend ==
    ASSUME NEW f, NEW S, IsFiniteSet(S), NEW n \in Nat, NEW g, SumsUpTo(g, f, S, n)
    PROVE  \E h : SumsUpTo(h, f, S, n + 1)
<1> DEFINE h == [T \in Small(S, n + 1) |-> Term(g, f, T)]
<1>1. ASSUME NEW T \in Small(S, n + 1), T # {} PROVE Rest(T) \in Small(S, n)
  <2>1. T \in SUBSET S /\ IsFiniteSet(T) /\ Cardinality(T) <= n + 1 BY <1>1, FS_Subset DEF Small
  <2>2. Rest(T) \in SUBSET T /\ Cardinality(T) \in Nat /\ Cardinality(Rest(T)) = Cardinality(T) - 1
    BY <1>1, <2>1, RestSmaller
  <2> QED BY <2>1, <2>2 DEF Small
<1>2. Small(S, n) \subseteq Small(S, n + 1)
  <2> SUFFICES ASSUME NEW T \in SUBSET S, Cardinality(T) <= n PROVE Cardinality(T) <= n + 1
    BY DEF Small
  <2>1. Cardinality(T) \in Nat BY FS_Subset, FS_CardinalityType
  <2> QED BY <2>1
<1>3. ASSUME NEW T \in Small(S, n) PROVE h[T] = g[T]
  <2>1. h[T] = Term(g, f, T) BY <1>2
  <2>2. g[T] = Term(g, f, T) BY DEF SumsUpTo
  <2> QED BY <2>1, <2>2
<1>4. ASSUME NEW T \in Small(S, n + 1) PROVE Term(g, f, T) = Term(h, f, T)
  <2>1. CASE T = {} BY <2>1 DEF Term
  <2>2. CASE T # {}
    <3>1. h[Rest(T)] = g[Rest(T)] BY <1>1, <1>3, <2>2
    <3> QED BY <2>2, <3>1 DEF Term
  <2> QED BY <2>1, <2>2
<1>5. h = [T \in Small(S, n + 1) |-> Term(h, f, T)] BY <1>4
<1> QED BY <1>5 DEF SumsUpTo

\* The recursion of MapThenSumSet has a solution, on any finite set.
LEMMA SumsExist ==
    ASSUME NEW f, NEW S, IsFiniteSet(S)
    PROVE  AreSums(Sums(f, S), f, S)
<1> DEFINE Bad == {n \in Nat : ~\E g : SumsUpTo(g, f, S, n)}
<1>1. \E g : SumsUpTo(g, f, S, 0)
  <2> DEFINE g == [T \in Small(S, 0) |-> 0]
  <2>1. ASSUME NEW T \in Small(S, 0) PROVE T = {}
    <3>1. IsFiniteSet(T) /\ Cardinality(T) <= 0 BY <2>1, FS_Subset DEF Small
    <3>2. Cardinality(T) = 0 BY <3>1, FS_CardinalityType
    <3> QED BY <3>1, <3>2, FS_EmptySet
  <2>2. \A T \in Small(S, 0) : Term(g, f, T) = 0 BY <2>1 DEF Term
  <2>3. g = [T \in Small(S, 0) |-> Term(g, f, T)] BY <2>2
  <2> QED BY <2>3 DEF SumsUpTo
<1>2. Bad = {}
  <2> SUFFICES ASSUME Bad # {} PROVE FALSE OBVIOUS
  <2>1. PICK n \in Bad : \A m \in Bad : n <= m BY LeastOf
  <2>2. n \in Nat /\ n # 0 BY <1>1, <2>1
  <2>3. n - 1 \in Nat /\ n - 1 \notin Bad BY <2>1, <2>2
  <2>4. PICK m \in Nat : m = n - 1 /\ m + 1 = n BY <2>2, <2>3
  <2>5. PICK g : SumsUpTo(g, f, S, m) BY <2>3, <2>4
  <2>6. \E h : SumsUpTo(h, f, S, m + 1) BY <2>4, <2>5, SumsExtend
  <2> QED BY <2>1, <2>4, <2>6
<1>3. Cardinality(S) \in Nat BY FS_CardinalityType
<1>4. PICK g : SumsUpTo(g, f, S, Cardinality(S)) BY <1>2, <1>3
<1>5. Small(S, Cardinality(S)) = SUBSET S BY FS_Subset DEF Small
<1>6. AreSums(g, f, S) BY <1>4, <1>5 DEF SumsUpTo, AreSums
<1> QED BY <1>6 DEF Sums

\* Sums of integers that differ in one place differ by the difference there.
LEMMA OneChanged ==
    ASSUME NEW S, IsFiniteSet(S), NEW f \in [S -> Int], NEW g \in [S -> Int], NEW x \in S,
           \A y \in S \ {x} : f[y] = g[y]
    PROVE  SumOf(f, S) \in Int /\ SumOf(g, S) = SumOf(f, S) + (g[x] - f[x])
<1> DEFINE F == Sums(f, S)
           G == Sums(g, S)
           Good(T) == F[T] \in Int /\ G[T] = F[T] + (IF x \in T THEN g[x] - f[x] ELSE 0)
           Bad == {T \in SUBSET S : ~Good(T)}
           Sizes == {Cardinality(T) : T \in Bad}
<1>s. AreSums(F, f, S) /\ AreSums(G, g, S) BY SumsExist
<1> HIDE DEF F, G
<1>0. \A T \in SUBSET S : F[T] = Term(F, f, T) /\ G[T] = Term(G, g, T)
  BY <1>s DEF AreSums
<1>1. \A T \in SUBSET S : IsFiniteSet(T) /\ Cardinality(T) \in Nat BY FS_Subset, FS_CardinalityType
<1>2. Bad = {}
  <2> SUFFICES ASSUME Bad # {} PROVE FALSE OBVIOUS
  <2>1. Sizes \in SUBSET Nat /\ Sizes # {} BY <1>1
  <2>2. PICK m \in Sizes : \A n \in Sizes : m <= n BY <2>1, LeastOf
  <2>3. PICK T \in Bad : Cardinality(T) = m BY <2>2
  <2>4. T \in SUBSET S /\ ~Good(T) BY <2>3
  <2>5. CASE T = {}
    <3>1. F[T] = 0 /\ G[T] = 0 BY <1>0, <2>4, <2>5 DEF Term
    <3>2. x \notin T BY <2>5
    <3> QED BY <2>4, <3>1, <3>2
  <2>6. CASE T # {}
    <3> DEFINE p == Pick(T)
               R == Rest(T)
    <3>1. /\ p \in T /\ R \in SUBSET T /\ Cardinality(T) \in Nat
          /\ Cardinality(R) = Cardinality(T) - 1
      BY <1>1, <2>4, <2>6, RestSmaller
    <3>2. R \in SUBSET S /\ p \in S /\ (x \in T <=> x = p \/ x \in R) /\ p \notin R
      BY <2>4, <3>1 DEF Rest
    <3>3. Good(R)
      <4> SUFFICES ASSUME R \in Bad PROVE FALSE BY <3>2
      <4>1. Cardinality(R) \in Sizes OBVIOUS
      <4>2. m <= Cardinality(R) BY <2>2, <4>1
      <4>3. m \in Nat /\ Cardinality(R) = m - 1 BY <2>3, <3>1
      <4> HIDE DEF Sizes, Bad, R
      <4> QED BY <4>2, <4>3
    <3>4. F[T] = f[p] + F[R] /\ G[T] = g[p] + G[R] BY <1>0, <2>4, <2>6 DEF Term
    <3>5. f[p] \in Int /\ g[p] \in Int /\ f[x] \in Int /\ g[x] \in Int BY <3>2
    <3> HIDE DEF p, R
    <3>6. CASE x = p BY <2>4, <3>2, <3>3, <3>4, <3>5, <3>6
    <3>7. CASE x # p
      <4>1. f[p] = g[p] BY <3>2, <3>7
      <4> QED BY <2>4, <3>2, <3>3, <3>4, <3>5, <3>7, <4>1
    <3> QED BY <3>6, <3>7
  <2> QED BY <2>5, <2>6
<1>3. Good(S) BY <1>2
<1> QED BY <1>3, SumOfIs DEF F, G
\* A sum of zeros is zero.
LEMMA ZeroSum ==
    ASSUME NEW S, IsFiniteSet(S), NEW f \in [S -> {0}]
    PROVE  SumOf(f, S) = 0
<1> DEFINE F == Sums(f, S)
           Bad == {T \in SUBSET S : F[T] # 0}
           Sizes == {Cardinality(T) : T \in Bad}
<1>1. AreSums(F, f, S) BY SumsExist
<1> HIDE DEF F
<1>2. \A T \in SUBSET S : F[T] = Term(F, f, T) BY <1>1 DEF AreSums
<1>3. \A T \in SUBSET S : IsFiniteSet(T) /\ Cardinality(T) \in Nat BY FS_Subset, FS_CardinalityType
<1>4. Bad = {}
  <2> SUFFICES ASSUME Bad # {} PROVE FALSE OBVIOUS
  <2>1. Sizes \in SUBSET Nat /\ Sizes # {} BY <1>3
  <2>2. PICK m \in Sizes : \A n \in Sizes : m <= n BY <2>1, LeastOf
  <2>3. PICK T \in Bad : Cardinality(T) = m BY <2>2
  <2>4. T \in SUBSET S /\ F[T] # 0 BY <2>3
  <2>5. T # {} BY <1>2, <2>4 DEF Term
  <2>6. /\ Pick(T) \in T /\ Rest(T) \in SUBSET T /\ Cardinality(T) \in Nat
        /\ Cardinality(Rest(T)) = Cardinality(T) - 1
    BY <1>3, <2>4, <2>5, RestSmaller
  <2>7. F[Rest(T)] = 0
    <3> SUFFICES ASSUME Rest(T) \in Bad PROVE FALSE BY <2>4, <2>6
    <3>1. Cardinality(Rest(T)) \in Sizes OBVIOUS
    <3>2. m <= Cardinality(Rest(T)) BY <2>2, <3>1
    <3>3. m \in Nat /\ Cardinality(Rest(T)) = m - 1 BY <2>3, <2>6
    <3> HIDE DEF Sizes, Bad
    <3> QED BY <3>2, <3>3
  <2>8. f[Pick(T)] = 0 BY <2>4, <2>6
  <2> QED BY <1>2, <2>4, <2>5, <2>7, <2>8 DEF Term
<1> QED BY <1>4, SumOfIs DEF F

\* Sums of integers are integers.
LEMMA SumType ==
    ASSUME NEW S, IsFiniteSet(S), NEW f \in [S -> Int]
    PROVE  SumOf(f, S) \in Int
<1>1. CASE S = {}
  <2>1. f \in [S -> {0}] BY <1>1
  <2> QED BY <2>1, ZeroSum
<1>2. CASE S # {}
  <2>1. PICK u \in S : TRUE BY <1>2
  <2>2. \A y \in S \ {u} : f[y] = f[y] OBVIOUS
  <2> QED BY <2>1, <2>2, OneChanged
<1> QED BY <1>1, <1>2
-----------------------------------------------------------------------------
(* The supply *)

SupplyInv == seeded \in Int /\ SupplyAccounted

\* What an account holds is a number.
LEMMA HeldType == ASSUME NEW a \in Account PROVE Held(a) \in Nat
BY DEF Account, Held

\* The holdings are a number.
LEMMA HoldingsType == ASSUME NEW acc \in [Accounts -> Account] PROVE Holdings(acc) \in Int
<1> DEFINE f == [a \in Accounts |-> Held(acc[a])]
<1>1. f \in [Accounts -> Int] BY HeldType
<1> HIDE DEF f
<1>2. SumOf(f, Accounts) \in Int BY <1>1, StartType, SumType
<1> QED BY <1>2 DEF Holdings, f

\* Replacing an account changes the holdings by what it held and now holds.
LEMMA HoldingsReplaced ==
    ASSUME NEW acc \in [Accounts -> Account], NEW a \in Accounts, NEW new \in Account
    PROVE  /\ Holdings(acc) \in Int
           /\ Holdings([acc EXCEPT ![a] = new]) = Holdings(acc) + (Held(new) - Held(acc[a]))
<1> DEFINE nacc == [acc EXCEPT ![a] = new]
           f == [b \in Accounts |-> Held(acc[b])]
           g == [b \in Accounts |-> Held(nacc[b])]
<1>1. nacc \in [Accounts -> Account] /\ nacc[a] = new /\ \A b \in Accounts \ {a} : nacc[b] = acc[b]
  OBVIOUS
<1> HIDE DEF nacc
<1>2. f \in [Accounts -> Int] /\ g \in [Accounts -> Int] BY <1>1, HeldType
<1>3. \A b \in Accounts \ {a} : f[b] = g[b] BY <1>1
<1>4. f[a] = Held(acc[a]) /\ g[a] = Held(new) BY <1>1
<1> HIDE DEF f, g
<1>5. SumOf(f, Accounts) \in Int /\ SumOf(g, Accounts) = SumOf(f, Accounts) + (g[a] - f[a])
  BY <1>2, <1>3, StartType, OneChanged
<1> QED BY <1>4, <1>5 DEF Holdings, f, g, nacc

\* What one ApplyTx does to the holdings and to the bucket.
LEMMA ApplyHoldings ==
    ASSUME NEW L \in [acc : [Accounts -> Account], minted : 0..MiningCap],
           NEW t \in Transaction, Funded(L, t)
    PROVE  LET made == IF t.type = "claim_mining" THEN t.amount ELSE 0
               own == IF SelfTransfer(t) THEN t.amount ELSE 0
           IN  /\ Holdings(L.acc) \in Int
               /\ ApplyTx(L, t).minted = L.minted + made
               /\ Holdings(ApplyTx(L, t).acc) = Holdings(L.acc) + made * Unit + own
<1>0. /\ L.acc \in [Accounts -> Account] /\ t.from \in Accounts /\ t.to \in Accounts
      /\ t.amount \in Nat /\ t.nonce \in Nat /\ t.type \in TxTypes /\ L.minted \in Nat
      /\ Unit \in Nat /\ 0 * Unit = 0 /\ t.amount * Unit \in Nat
  BY LedgerBounds DEF Transaction
<1> DEFINE acc == L.acc
           from == L.acc[t.from]
           to == L.acc[t.to]
<1>1. from \in Account /\ to \in Account BY <1>0
<1>2. /\ from.balance \in Nat /\ from.staked \in Nat /\ from.pending \in Nat
      /\ to.balance \in Nat /\ to.staked \in Nat /\ to.pending \in Nat
  BY <1>1 DEF Account
<1>3. Holdings(acc) \in Int BY <1>0, <1>1, HoldingsReplaced
<1>4. CASE t.type = "transfer"
  <2> DEFINE debited == [from EXCEPT !.balance = from.balance - t.amount, !.nonce = t.nonce]
             credited == [to EXCEPT !.balance = to.balance + t.amount]
             mid == [acc EXCEPT ![t.from] = debited]
  <2>1. from.balance - t.amount \in Nat /\ to.balance + t.amount \in Nat
    BY <1>0, <1>2, <1>4 DEF Funded
  <2>2. debited \in Account /\ credited \in Account
    <3> HIDE DEF from, to
    <3> QED BY ONLY <1>0, <1>1, <2>1, AccountAssigned, Zenon
  <2>3. Held(debited) = Held(from) - t.amount /\ Held(credited) = Held(to) + t.amount
    <3>1. /\ debited.balance = from.balance - t.amount /\ debited.staked = from.staked
          /\ debited.pending = from.pending
      BY <1>1 DEF Account
    <3>2. /\ credited.balance = to.balance + t.amount /\ credited.staked = to.staked
          /\ credited.pending = to.pending
      BY <1>1 DEF Account
    <3> HIDE DEF debited, credited, from, to
    <3> QED BY <1>0, <1>2, <3>1, <3>2 DEF Held
  <2>4. ApplyTx(L, t).acc = [mid EXCEPT ![t.to] = credited] /\ ApplyTx(L, t).minted = L.minted
    BY <1>4 DEF ApplyTx, Transfer
  <2>5. mid \in [Accounts -> Account] BY <1>0, <2>2, AccountReplaced
  <2>6. mid[t.to] = IF t.to = t.from THEN debited ELSE to BY <1>0
  <2> HIDE DEF debited, credited, from, to
  <2>7. Holdings(mid) = Holdings(acc) + (Held(debited) - Held(acc[t.from]))
    BY <1>0, <2>2, HoldingsReplaced
  <2> HIDE DEF mid
  <2>8. Holdings([mid EXCEPT ![t.to] = credited]) = Holdings(mid) + (Held(credited) - Held(mid[t.to]))
    BY <1>0, <2>2, <2>5, HoldingsReplaced
  <2>9. Held(from) \in Nat /\ Held(to) \in Nat BY <1>1, HeldType
  <2>10. CASE t.to = t.from
    <3>1. from = to BY <2>10 DEF from, to
    <3>2. Held(mid[t.to]) = Held(from) - t.amount BY <2>3, <2>6, <2>10
    <3>3. Holdings(ApplyTx(L, t).acc) = Holdings(acc) + t.amount
      BY <1>0, <1>3, <2>3, <2>4, <2>7, <2>8, <2>9, <3>1, <3>2 DEF from
    <3> QED BY <1>0, <1>3, <1>4, <2>4, <2>10, <3>3 DEF SelfTransfer
  <2>11. CASE t.to # t.from
    <3>1. Held(mid[t.to]) = Held(to) BY <2>6, <2>11
    <3>2. Holdings(ApplyTx(L, t).acc) = Holdings(acc)
      BY <1>0, <1>3, <2>3, <2>4, <2>7, <2>8, <2>9, <3>1 DEF from
    <3> QED BY <1>0, <1>3, <1>4, <2>4, <2>11, <3>2 DEF SelfTransfer
  <2> QED BY <2>10, <2>11
<1>5. CASE t.type = "stake"
  <2> DEFINE new == [from EXCEPT !.balance = from.balance - t.amount,
                                 !.staked = from.staked + t.amount, !.nonce = t.nonce]
  <2>1. from.balance - t.amount \in Nat /\ from.staked + t.amount \in Nat
    BY <1>0, <1>2, <1>5 DEF Funded
  <2>2. new \in Account
    <3> HIDE DEF from
    <3> QED BY ONLY <1>0, <1>1, <2>1, AccountAssigned, Zenon
  <2>3. Held(new) = Held(from)
    <3>1. /\ new.balance = from.balance - t.amount /\ new.staked = from.staked + t.amount
          /\ new.pending = from.pending
      BY <1>1 DEF Account
    <3> HIDE DEF new, from
    <3> QED BY <1>0, <1>2, <3>1 DEF Held
  <2>4. ApplyTx(L, t).acc = [acc EXCEPT ![t.from] = new] /\ ApplyTx(L, t).minted = L.minted
    BY <1>5 DEF ApplyTx, Stake
  <2>5. Held(from) \in Nat BY <1>1, HeldType
  <2> HIDE DEF new
  <2>6. Holdings([acc EXCEPT ![t.from] = new]) = Holdings(acc) + (Held(new) - Held(from))
    BY <1>0, <2>2, HoldingsReplaced
  <2> QED BY <1>0, <1>3, <1>5, <2>3, <2>4, <2>5, <2>6 DEF SelfTransfer
<1>6. CASE t.type = "request_unstake"
  <2> DEFINE new == [from EXCEPT !.staked = from.staked - t.amount,
                                 !.pending = from.pending + t.amount, !.nonce = t.nonce]
  <2>1. from.staked - t.amount \in Nat /\ from.pending + t.amount \in Nat
    BY <1>0, <1>2, <1>6 DEF Funded
  <2>2. new \in Account
    <3> HIDE DEF from
    <3> QED BY ONLY <1>0, <1>1, <2>1, AccountAssigned, Zenon
  <2>3. Held(new) = Held(from)
    <3>1. /\ new.balance = from.balance /\ new.staked = from.staked - t.amount
          /\ new.pending = from.pending + t.amount
      BY <1>1 DEF Account
    <3> HIDE DEF new, from
    <3> QED BY <1>0, <1>2, <3>1 DEF Held
  <2>4. ApplyTx(L, t).acc = [acc EXCEPT ![t.from] = new] /\ ApplyTx(L, t).minted = L.minted
    BY <1>6 DEF ApplyTx, RequestUnstake
  <2>5. Held(from) \in Nat BY <1>1, HeldType
  <2> HIDE DEF new
  <2>6. Holdings([acc EXCEPT ![t.from] = new]) = Holdings(acc) + (Held(new) - Held(from))
    BY <1>0, <2>2, HoldingsReplaced
  <2> QED BY <1>0, <1>3, <1>6, <2>3, <2>4, <2>5, <2>6 DEF SelfTransfer
<1>7. CASE t.type = "claim_unstake"
  <2> DEFINE new == [from EXCEPT !.pending = from.pending - t.amount,
                                 !.balance = from.balance + t.amount, !.nonce = t.nonce]
  <2>1. from.pending - t.amount \in Nat /\ from.balance + t.amount \in Nat
    BY <1>0, <1>2, <1>7 DEF Funded
  <2>2. new \in Account
    <3> HIDE DEF from
    <3> QED BY ONLY <1>0, <1>1, <2>1, AccountAssigned, Zenon
  <2>3. Held(new) = Held(from)
    <3>1. /\ new.balance = from.balance + t.amount /\ new.staked = from.staked
          /\ new.pending = from.pending - t.amount
      BY <1>1 DEF Account
    <3> HIDE DEF new, from
    <3> QED BY <1>0, <1>2, <3>1 DEF Held
  <2>4. ApplyTx(L, t).acc = [acc EXCEPT ![t.from] = new] /\ ApplyTx(L, t).minted = L.minted
    BY <1>7 DEF ApplyTx, ClaimUnstake
  <2>5. Held(from) \in Nat BY <1>1, HeldType
  <2> HIDE DEF new
  <2>6. Holdings([acc EXCEPT ![t.from] = new]) = Holdings(acc) + (Held(new) - Held(from))
    BY <1>0, <2>2, HoldingsReplaced
  <2> QED BY <1>0, <1>3, <1>7, <2>3, <2>4, <2>5, <2>6 DEF SelfTransfer
<1>8. CASE t.type = "claim_mining"
  <2> DEFINE new == [from EXCEPT !.balance = from.balance + t.amount * Unit, !.nonce = t.nonce]
  <2>1. from.balance + t.amount * Unit \in Nat BY <1>0, <1>2
  <2>2. new \in Account
    <3> HIDE DEF from
    <3> QED BY ONLY <1>0, <1>1, <2>1, AccountAssigned, Zenon
  <2>3. Held(new) = Held(from) + t.amount * Unit
    <3>1. /\ new.balance = from.balance + t.amount * Unit /\ new.staked = from.staked
          /\ new.pending = from.pending
      BY <1>1 DEF Account
    <3> HIDE DEF new, from
    <3> QED BY <1>0, <1>2, <3>1 DEF Held
  <2>4. /\ ApplyTx(L, t).acc = [acc EXCEPT ![t.from] = new]
        /\ ApplyTx(L, t).minted = L.minted + t.amount
    BY <1>8 DEF ApplyTx, ClaimMining
  <2>5. Held(from) \in Nat BY <1>1, HeldType
  <2> HIDE DEF new
  <2>6. Holdings([acc EXCEPT ![t.from] = new]) = Holdings(acc) + (Held(new) - Held(from))
    BY <1>0, <2>2, HoldingsReplaced
  <2> QED BY <1>0, <1>3, <1>8, <2>3, <2>4, <2>5, <2>6 DEF SelfTransfer
<1> QED BY <1>0, <1>4, <1>5, <1>6, <1>7, <1>8 DEF TxTypes

\* What transfers to oneself have added is a number.
LEMMA SelfTransferredType == ASSUME LedgerInv PROVE SelfTransferred \in Int
<1> DEFINE f == [u \in SelfTransfers |-> times[u] * u.amount]
<1>1. \A u \in SelfTransfers : times[u] * u.amount \in Int
  <2> SUFFICES ASSUME NEW u \in SelfTransfers PROVE times[u] * u.amount \in Int OBVIOUS
  <2>1. u \in Txs /\ u.amount \in Nat /\ times[u] \in Nat
    BY TxsType DEF LedgerInv, TimesType, SelfTransfers, Transaction
  <2> QED BY <2>1
<1>2. f \in [SelfTransfers -> Int] BY <1>1
<1>3. IsFiniteSet(SelfTransfers) BY TxsType, FS_Subset DEF SelfTransfers
<1> HIDE DEF f
<1>4. SumOf(f, SelfTransfers) \in Int BY <1>2, <1>3, SumType
<1> QED BY <1>4 DEF SelfTransferred, f

\* Counting one more application of a transfer to oneself.
LEMMA SelfTransferCounted ==
    ASSUME LedgerInv, NEW t \in Txs, times' = [times EXCEPT ![t] = @ + 1]
    PROVE  /\ SelfTransferred \in Int
           /\ SelfTransferred' = SelfTransferred + (IF SelfTransfer(t) THEN t.amount ELSE 0)
<1> DEFINE S == SelfTransfers
           f == [u \in SelfTransfers |-> times[u] * u.amount]
           g == [u \in SelfTransfers |-> times'[u] * u.amount]
<1>0. times \in [Txs -> Nat] /\ times' \in [Txs -> Nat] /\ S \in SUBSET Txs
  BY DEF LedgerInv, TimesType, SelfTransfers
<1>1. IsFiniteSet(S) BY <1>0, TxsType, FS_Subset
<1>2. \A u \in Txs : u.amount \in Nat BY TxsType DEF Transaction
<1>3. f \in [S -> Int] /\ g \in [S -> Int]
  <2>1. \A u \in S : times[u] * u.amount \in Int /\ times'[u] * u.amount \in Int BY <1>0, <1>2
  <2> QED BY <2>1
<1>4. SelfTransferred = SumOf(f, S) /\ SelfTransferred' = SumOf(g, S) BY DEF SelfTransferred, SelfTransfers
<1>5. CASE t \in S
  <2>1. \A u \in S \ {t} : f[u] = g[u] BY <1>0
  <2>2. f[t] = times[t] * t.amount /\ g[t] = (times[t] + 1) * t.amount BY <1>0, <1>5
  <2>3. (times[t] + 1) * t.amount = times[t] * t.amount + t.amount /\ times[t] * t.amount \in Int
    BY <1>0, <1>2
  <2>4. SelfTransfer(t) BY <1>5 DEF SelfTransfers
  <2> HIDE DEF f, g, S
  <2>5. SumOf(f, S) \in Int /\ SumOf(g, S) = SumOf(f, S) + (g[t] - f[t])
    BY <1>1, <1>3, <1>5, <2>1, OneChanged
  <2>6. g[t] - f[t] = t.amount BY <1>2, <2>2, <2>3
  <2> QED BY <1>4, <2>4, <2>5, <2>6
<1>6. CASE t \notin S
  <2>1. f = g
    <3>1. \A u \in S : times'[u] = times[u] BY <1>0, <1>6
    <3> QED BY <3>1
  <2>2. ~SelfTransfer(t) BY <1>6 DEF SelfTransfers
  <2> HIDE DEF f, g, S
  <2>3. SumOf(f, S) \in Int BY <1>1, <1>3, SumType
  <2> QED BY <1>4, <2>1, <2>2, <2>3
<1> QED BY <1>5, <1>6

\* Nothing is seeded, minted or transferred at the start.
LEMMA SupplyInit == Init => SupplyInv
<1> SUFFICES ASSUME Init PROVE SupplyInv OBVIOUS
<1>1. ledger.acc = StartAccounts /\ ledger.minted = 0 /\ seeded = 0 BY DEF Init, StartLedger
<1>2. Unit * 0 = 0 BY LedgerBounds
<1>3. SelfTransferred = 0
  <2> DEFINE f == [t \in SelfTransfers |-> times[t] * t.amount]
  <2>1. \A t \in SelfTransfers : f[t] = 0
    <3> SUFFICES ASSUME NEW t \in SelfTransfers PROVE times[t] * t.amount = 0 OBVIOUS
    <3>1. t \in Txs /\ times[t] = 0 /\ t.amount \in Nat
      BY TxsType DEF Init, SelfTransfers, Transaction
    <3> QED BY <3>1
  <2>2. f \in [SelfTransfers -> {0}] BY <2>1
  <2>3. IsFiniteSet(SelfTransfers) BY TxsType, FS_Subset DEF SelfTransfers
  <2> HIDE DEF f
  <2>4. SumOf(f, SelfTransfers) = 0 BY <2>2, <2>3, ZeroSum
  <2> QED BY <2>4 DEF SelfTransferred, f
<1>4. Holdings(StartAccounts) \in Int BY StartType, HoldingsType
<1> QED BY <1>1, <1>2, <1>3, <1>4 DEF SupplyInv, SupplyAccounted

\* One applied transaction creates what it mints, and what a transfer to oneself
\* adds, and nothing else.
LEMMA SupplyApply ==
    ASSUME LedgerInv, SupplyInv, NEW t \in Txs, Apply(t)
    PROVE  SupplyInv'
<1> DEFINE made == IF t.type = "claim_mining" THEN t.amount ELSE 0
           own == IF SelfTransfer(t) THEN t.amount ELSE 0
           H == Holdings(ledger.acc)
           W == SelfTransferred
<1>0. /\ t \in Transaction /\ t.amount \in Nat
      /\ ledger \in [acc : [Accounts -> Account], minted : 0..MiningCap]
      /\ Funded(ledger, t) /\ ledger' = ApplyTx(ledger, t) /\ seeded' = seeded
      /\ times' = [times EXCEPT ![t] = @ + 1] /\ seeded \in Int
  BY TxsType DEF LedgerInv, SupplyInv, Solvent, Apply, CanApply, Transaction
<1>1. /\ H \in Int /\ ledger'.minted = ledger.minted + made
      /\ Holdings(ledger'.acc) = H + made * Unit + own
  BY <1>0, ApplyHoldings
<1>2. W \in Int /\ SelfTransferred' = W + own BY <1>0, SelfTransferCounted
<1>3. made \in Nat /\ own \in Nat /\ Unit \in Nat /\ ledger.minted \in Nat
  BY <1>0, LedgerBounds
<1>4. H = Holdings(StartAccounts) + seeded + Unit * ledger.minted + W
  BY DEF SupplyInv, SupplyAccounted
<1>5. Holdings(StartAccounts) \in Int BY StartType, HoldingsType
<1> HIDE DEF made, own, H, W
<1>6. Unit * (ledger.minted + made) = Unit * ledger.minted + made * Unit
  BY <1>3
<1>7. PICK x \in Int : x = Unit * ledger.minted BY <1>3
<1>8. PICK y \in Int : y = made * Unit BY <1>3
<1>9. H + y + own = Holdings(StartAccounts) + seeded + (x + y) + (W + own)
  <2>1. H = Holdings(StartAccounts) + seeded + x + W BY <1>4, <1>7
  <2> QED BY <1>0, <1>1, <1>2, <1>3, <1>5, <1>7, <1>8, <2>1
<1>10. Unit * ledger'.minted = x + y BY <1>1, <1>6, <1>7, <1>8
<1>11. Holdings(ledger'.acc)
           = Holdings(StartAccounts) + seeded' + Unit * ledger'.minted + SelfTransferred'
  BY <1>0, <1>1, <1>2, <1>8, <1>9, <1>10
<1>12. Holdings(ledger'.acc) = Holdings(ledger.acc)' BY DEF Holdings
<1> QED BY <1>0, <1>11, <1>12 DEF SupplyInv, SupplyAccounted, Holdings

\* Seeding is accounted for.
LEMMA SupplySeed ==
    ASSUME LedgerInv, SupplyInv, NEW s \in Seeds, SeedAccount(s)
    PROVE  SupplyInv'
<1> DEFINE old == ledger.acc[s.addr]
           new == SeededAccount(old, s)
           H == Holdings(ledger.acc)
<1>0. /\ s \in SeedRequest /\ s.addr \in Accounts
      /\ ledger \in [acc : [Accounts -> Account], minted : 0..MiningCap]
      /\ old \in Account /\ seeded \in Int
      /\ ledger' = [ledger EXCEPT !.acc[s.addr] = new] /\ times' = times
      /\ seeded' = seeded + Held(new) - Held(old)
  BY SeedsType DEF LedgerInv, SupplyInv, Solvent, SeedAccount, SeedRequest
<1>1. new \in Account BY <1>0, SeededAccountKeeps
<1>2. Held(new) \in Nat /\ Held(old) \in Nat BY <1>0, <1>1, HeldType
<1> HIDE DEF new
<1>3. ledger'.acc = [ledger.acc EXCEPT ![s.addr] = new] /\ ledger'.minted = ledger.minted BY <1>0
<1>4. H \in Int /\ Holdings(ledger'.acc) = H + (Held(new) - Held(old))
  BY <1>0, <1>1, <1>3, HoldingsReplaced
<1>5. SelfTransferred' = SelfTransferred BY <1>0 DEF SelfTransferred
<1>6. H = Holdings(StartAccounts) + seeded + Unit * ledger.minted + SelfTransferred
  BY DEF SupplyInv, SupplyAccounted
<1>7. Holdings(StartAccounts) \in Int BY StartType, HoldingsType
<1>8. SelfTransferred \in Int BY SelfTransferredType
<1>9. PICK x \in Int : x = Unit * ledger.minted BY <1>0, LedgerBounds
<1> HIDE DEF old, H
<1>10. H + (Held(new) - Held(old))
           = Holdings(StartAccounts) + (seeded + Held(new) - Held(old)) + x + SelfTransferred
  <2>1. H = Holdings(StartAccounts) + seeded + x + SelfTransferred BY <1>6, <1>9
  <2> QED BY <1>0, <1>2, <1>7, <1>8, <1>9, <2>1
<1>11. Holdings(ledger'.acc)
           = Holdings(StartAccounts) + seeded' + Unit * ledger'.minted + SelfTransferred'
  BY <1>0, <1>3, <1>4, <1>5, <1>9, <1>10
<1>12. Holdings(ledger'.acc) = Holdings(ledger.acc)' BY DEF Holdings
<1>13. seeded' \in Int BY <1>0, <1>2
<1> QED BY <1>11, <1>12, <1>13 DEF SupplyInv, SupplyAccounted, Holdings

(***************************************************************************)
(* Whatever ApplyTx applies and operators seed, the balances, stakes and   *)
(* pending unstakes together are what the store began with, what was       *)
(* seeded, what was minted from the bucket and what transfers to oneself   *)
(* added.                                                                  *)
(***************************************************************************)
THEOREM SupplyAccountedHolds == Spec => []SupplyAccounted
<1>1. LedgerInv /\ SupplyInv /\ [Next]_vars => SupplyInv'
  <2> SUFFICES ASSUME LedgerInv, SupplyInv, [Next]_vars PROVE SupplyInv' OBVIOUS
  <2>1. CASE Next BY <2>1, SupplyApply, SupplySeed DEF Next
  <2>2. CASE UNCHANGED vars
    BY <2>2 DEF vars, SupplyInv, SupplyAccounted, Holdings, SelfTransferred
  <2> QED BY <2>1, <2>2
<1>2. SupplyInv => SupplyAccounted BY DEF SupplyInv
<1> QED BY <1>1, <1>2, SupplyInit, LedgerInvHolds, PTL DEF Spec
-----------------------------------------------------------------------------
(***************************************************************************)
(* The state root and its proofs, for trees of every size.  The levels of  *)
(* a tree, the digests along a path and the indices of a node's ancestors  *)
(* are recursive functions; each is shown to exist, and what is said of    *)
(* all of them follows from the least level at which it could fail.        *)
(***************************************************************************)

\* A sequence, whatever its elements are.
IsList(s) == Len(s) \in Nat /\ s = [i \in 1..Len(s) |-> s[i]]

\* The bottom of a tree.
Bottom(hs) == IF hs = <<>> THEN <<EmptyLeaf>> ELSE hs

\* The recursion of Levels has a solution.
IsLevels(f, hs, n) == f = [k \in 0..n |-> IF k > 0 THEN NextLevel(f[k - 1]) ELSE Bottom(hs)]

LEMMA LevelsExist ==
    ASSUME NEW hs, NEW N \in Nat
    PROVE  \E f : IsLevels(f, hs, N)
<1> DEFINE Bad == {k \in 0..N : ~\E f : IsLevels(f, hs, k)}
<1> SUFFICES ASSUME Bad # {} PROVE FALSE OBVIOUS
<1>1. PICK k \in Bad : \A j \in Bad : k <= j
  <2>1. Bad \in SUBSET Nat OBVIOUS
  <2> HIDE DEF Bad
  <2> QED BY <2>1, LeastOf
<1>2. k \in Nat /\ k <= N /\ ~\E f : IsLevels(f, hs, k) BY <1>1
<1>3. CASE k = 0
  <2> DEFINE f == [i \in 0..0 |-> Bottom(hs)]
  <2>1. IsLevels(f, hs, 0) BY DEF IsLevels
  <2> QED BY <1>2, <1>3, <2>1
<1>4. CASE k # 0
  <2>1. k - 1 \in 0..N /\ ~(k <= k - 1) BY <1>2, <1>4
  <2>2. k - 1 \notin Bad BY <1>1, <2>1
  <2>3. PICK g : IsLevels(g, hs, k - 1) BY <2>1, <2>2
  <2>4. \A i \in 0..(k - 1) : g[i] = IF i > 0 THEN NextLevel(g[i - 1]) ELSE Bottom(hs)
    BY <2>3 DEF IsLevels
  <2> DEFINE f == [i \in 0..k |-> IF i = k THEN NextLevel(g[k - 1]) ELSE g[i]]
  <2>5. f[k] = NextLevel(g[k - 1]) /\ \A i \in 0..(k - 1) : f[i] = g[i] BY <1>2
  <2>6. f = [i \in 0..k |-> f[i]] OBVIOUS
  <2> HIDE DEF f, Bad
  <2>7. ASSUME NEW i \in 0..k PROVE f[i] = IF i > 0 THEN NextLevel(f[i - 1]) ELSE Bottom(hs)
    <3>1. CASE i = k
      <4>1. k - 1 \in 0..(k - 1) /\ k > 0 BY <1>2, <1>4
      <4>2. f[k - 1] = g[k - 1] BY <2>5, <4>1
      <4> QED BY <2>5, <3>1, <4>1, <4>2
    <3>2. CASE i # k
      <4>1. i \in 0..(k - 1) /\ (i > 0 => i - 1 \in 0..(k - 1)) BY <1>2, <3>2
      <4>2. f[i] = g[i] /\ (i > 0 => f[i - 1] = g[i - 1]) BY <2>5, <4>1
      <4> QED BY <2>4, <4>1, <4>2
    <3> QED BY <3>1, <3>2
  <2>8. IsLevels(f, hs, k) BY <2>6, <2>7 DEF IsLevels
  <2> QED BY <1>2, <2>8
<1> QED BY <1>3, <1>4

\* Each level is made of the one below it.
LEMMA LevelsAre ==
    ASSUME NEW hs, Len(hs) \in Nat
    PROVE  /\ Levels(hs)[0] = Bottom(hs)
           /\ \A k \in 1..Len(hs) : Levels(hs)[k] = NextLevel(Levels(hs)[k - 1])
<1> DEFINE a == Levels(hs)
<1>1. \E f : IsLevels(f, hs, Len(hs)) BY LevelsExist
<1>2. IsLevels(a, hs, Len(hs)) BY <1>1 DEF Levels, IsLevels, Bottom
<1> HIDE DEF a
<1>3. \A k \in 0..Len(hs) : a[k] = IF k > 0 THEN NextLevel(a[k - 1]) ELSE Bottom(hs)
  BY <1>2 DEF IsLevels
<1>4. a[0] = Bottom(hs) BY <1>3
<1>5. \A k \in 1..Len(hs) : a[k] = NextLevel(a[k - 1])
  <2> TAKE k \in 1..Len(hs)
  <2>1. k \in 0..Len(hs) /\ k > 0 OBVIOUS
  <2> QED BY <1>3, <2>1
<1> QED BY <1>4, <1>5 DEF a

\* Halves of natural numbers.
LEMMA Halves ==
    ASSUME NEW m \in Nat
    PROVE  /\ m \div 2 \in Nat /\ m % 2 \in {0, 1}
           /\ m = 2 * (m \div 2) + (m % 2)
OBVIOUS

\* The size of a level.
LEMMA NextLevelList ==
    ASSUME NEW l, IsList(l), Len(l) > 0
    PROVE  /\ IsList(NextLevel(l)) /\ Len(NextLevel(l)) = (Len(l) + 1) \div 2
           /\ Len(NextLevel(l)) > 0
           /\ Len(l) > 1 => Len(NextLevel(l)) < Len(l)
           /\ Len(l) = 1 => Len(NextLevel(l)) = 1
           /\ \A i \in 1..Len(NextLevel(l)) : NextLevel(l)[i] = Pair(l, i)
<1>0. PICK m \in Nat : m = Len(l) /\ m > 0 BY DEF IsList
<1>1. PICK n \in Nat : n = (m + 1) \div 2 /\ (m + 1 = 2 * n \/ m + 1 = 2 * n + 1)
  BY Halves
<1>2. n > 0 /\ (m > 1 => n < m) /\ (m = 1 => n = 1)
  <2>1. m \in Nat /\ n \in Nat /\ m > 0 BY <1>0, <1>1
  <2>2. m + 1 = n + n \/ m = n + n BY <1>1, <2>1
  <2> QED BY <2>1, <2>2
<1>3. NextLevel(l) = [i \in 1..n |-> Pair(l, i)] BY <1>0, <1>1 DEF NextLevel
<1>4. Len(NextLevel(l)) = n BY <1>3
<1> QED BY <1>0, <1>1, <1>2, <1>3, <1>4 DEF IsList

\* Levels are not empty and shrink until one node is left.
LEMMA LevelSizes ==
    ASSUME NEW hs, IsList(hs), NEW k \in 0..Len(hs)
    PROVE  /\ IsList(Levels(hs)[k]) /\ Len(Levels(hs)[k]) > 0
           /\ Len(Levels(hs)[k]) = 1 \/ Len(Levels(hs)[k]) <= Len(hs) - k
<1> DEFINE n == Len(hs)
           a == Levels(hs)
           Good(i) == IsList(a[i]) /\ Len(a[i]) > 0 /\ (Len(a[i]) = 1 \/ Len(a[i]) <= n - i)
           Bad == {i \in 0..n : ~Good(i)}
<1>1. n \in Nat BY DEF IsList
<1>2. a[0] = Bottom(hs) /\ \A i \in 1..n : a[i] = NextLevel(a[i - 1]) BY <1>1, LevelsAre
<1> SUFFICES ASSUME Bad # {} PROVE FALSE OBVIOUS
<1>3. PICK i \in Bad : \A j \in Bad : i <= j
  <2>1. Bad \in SUBSET Nat BY <1>1
  <2> HIDE DEF Bad
  <2> QED BY <2>1, LeastOf
<1>4. i \in 0..n /\ ~Good(i) BY <1>3
<1>5. i # 0
  <2>1. CASE hs = <<>>
    <3>1. Bottom(hs) = <<EmptyLeaf>> BY <2>1 DEF Bottom
    <3>2. IsList(<<EmptyLeaf>>) /\ Len(<<EmptyLeaf>>) = 1 BY DEF IsList
    <3>3. Good(0) BY <1>2, <3>1, <3>2
    <3> QED BY <1>4, <3>3
  <2>2. CASE hs # <<>>
    <3>1. Bottom(hs) = hs /\ n # 0 BY <2>2 DEF Bottom, IsList
    <3>2. Good(0) BY <1>1, <1>2, <3>1
    <3> QED BY <1>4, <3>2
  <2> QED BY <2>1, <2>2
<1>6. i - 1 \in 0..n /\ ~(i <= i - 1) /\ i \in 1..n BY <1>1, <1>4, <1>5
<1>7. i - 1 \notin Bad BY <1>3, <1>6
<1>8. Good(i - 1) BY <1>6, <1>7
<1>9. a[i] = NextLevel(a[i - 1]) BY <1>2, <1>6
<1> DEFINE l == a[i - 1]
<1>10. /\ IsList(a[i]) /\ Len(a[i]) > 0 /\ Len(a[i]) \in Nat /\ Len(l) \in Nat
       /\ Len(l) > 1 => Len(a[i]) < Len(l)
       /\ Len(l) = 1 => Len(a[i]) = 1
       /\ Len(l) > 0 /\ (Len(l) = 1 \/ Len(l) <= n - (i - 1))
  <2>1. IsList(l) /\ Len(l) > 0 BY <1>8
  <2> HIDE DEF l, a, n
  <2>2. IsList(NextLevel(l)) /\ Len(NextLevel(l)) > 0
        /\ (Len(l) > 1 => Len(NextLevel(l)) < Len(l)) /\ (Len(l) = 1 => Len(NextLevel(l)) = 1)
    BY <2>1, NextLevelList
  <2> QED BY <1>8, <1>9, <2>1, <2>2 DEF IsList, l
<1>11. Len(a[i]) = 1 \/ Len(a[i]) <= n - i
  <2> HIDE DEF a, n, l
  <2>1. PICK x \in Nat, y \in Nat : x = Len(l) /\ y = Len(a[i]) BY <1>10
  <2>2. /\ x > 1 => y < x
        /\ x = 1 => y = 1
        /\ x > 0 /\ (x = 1 \/ x <= n - (i - 1))
    BY <1>10, <2>1
  <2>3. i \in Nat BY <1>6
  <2>4. y = 1 \/ y <= n - i BY <1>1, <2>1, <2>2, <2>3
  <2> QED BY <2>1, <2>4
<1> QED BY <1>4, <1>10, <1>11


\* Where a tree ends: at the first level of one node.
IsTop(hs, top) ==
    /\ top \in 0..Len(hs) /\ Len(Levels(hs)[top]) = 1
    /\ \A k \in 0..Len(hs) : k < top => Len(Levels(hs)[k]) > 1
    /\ BuildMerkleLayers(hs) = [k \in 1..(top + 1) |-> Levels(hs)[k - 1]]
    /\ Len(BuildMerkleLayers(hs)) = top + 1
    /\ Last(BuildMerkleLayers(hs)) = Levels(hs)[top]

LEMMA TreeEnds ==
    ASSUME NEW hs, IsList(hs)
    PROVE  \E top \in Nat : IsTop(hs, top)
<1> DEFINE n == Len(hs)
           a == Levels(hs)
           Ends == {k \in 0..n : Len(a[k]) = 1}
<1>1. n \in Nat BY DEF IsList
<1>2. \A k \in 0..n : Len(a[k]) \in Nat /\ Len(a[k]) > 0 /\ (Len(a[k]) = 1 \/ Len(a[k]) <= n - k)
  BY LevelSizes DEF IsList
<1>3. n \in Ends
  <2>1. n \in 0..n /\ n - n = 0 BY <1>1
  <2>2. Len(a[n]) = 1 BY <1>2, <2>1
  <2> QED BY <2>1, <2>2
<1> DEFINE top == Min(Ends)
<1>4. top \in Ends /\ \A k \in Ends : top <= k
  <2>1. Ends \in SUBSET Nat BY <1>1
  <2> HIDE DEF Ends
  <2>2. \E m \in Ends : \A k \in Ends : m <= k BY <1>3, <2>1, LeastOf
  <2> QED BY <2>2 DEF Min
<1>5. top \in 0..n /\ top \in Nat /\ Len(a[top]) = 1 BY <1>1, <1>4
<1>6. BuildMerkleLayers(hs) = [k \in 1..(top + 1) |-> a[k - 1]] BY DEF BuildMerkleLayers
<1> HIDE DEF top, a, n
<1>7. \A k \in 0..n : k < top => Len(a[k]) > 1
  <2> SUFFICES ASSUME NEW k \in 0..n, k < top PROVE Len(a[k]) > 1 OBVIOUS
  <2>1. ~(top <= k) BY <1>1, <1>5
  <2>2. Len(a[k]) # 1 BY <1>4, <2>1
  <2>3. PICK m \in Nat : m = Len(a[k]) /\ m > 0 BY <1>2
  <2>4. m \in Nat /\ m > 0 /\ m # 1 BY <2>2, <2>3
  <2>5. m > 1 BY <2>4
  <2> QED BY <2>3, <2>5
<1>8. PICK t \in Nat : t = top + 1 /\ t > 0 /\ t - 1 = top BY <1>5
<1> DEFINE B == [k \in 1..t |-> a[k - 1]]
<1>9. Len(B) = t BY <1>8
<1>10. t \in 1..t BY <1>8
<1>11. B[t] = a[top] BY <1>8, <1>10
<1>12. Last(B) = a[top] BY <1>9, <1>11 DEF Last
<1>13. BuildMerkleLayers(hs) = B BY <1>6, <1>8
<1> HIDE DEF B
<1>14. Len(BuildMerkleLayers(hs)) = top + 1 /\ Last(BuildMerkleLayers(hs)) = a[top]
  BY <1>8, <1>9, <1>12, <1>13
<1>15. IsTop(hs, top) BY <1>5, <1>6, <1>7, <1>14 DEF IsTop, a, n
<1> QED BY <1>5, <1>15

\* A node and its sibling make the node above them.
LEMMA SiblingMakesParent ==
    ASSUME NEW l, IsList(l), NEW i \in Nat, i < Len(l), Len(l) > 1
    PROVE  /\ Sibling(l, i) \in Nat /\ Sibling(l, i) < Len(l)
           /\ i \div 2 \in Nat /\ i \div 2 < Len(NextLevel(l))
           /\ NextLevel(l)[i \div 2 + 1] =
                IF Sibling(l, i) < i THEN ParentHash(l[Sibling(l, i) + 1], l[i + 1])
                                     ELSE ParentHash(l[i + 1], l[Sibling(l, i) + 1])
<1>1. PICK m \in Nat : m = Len(l) BY DEF IsList
<1>2. PICK h \in Nat : h = i \div 2 /\ i = h + h + (i % 2) /\ i % 2 \in {0, 1} BY Halves
<1>3. PICK n \in Nat : n = Len(NextLevel(l)) /\ (m + 1 = n + n \/ m = n + n)
  <2>1. Len(NextLevel(l)) = (m + 1) \div 2 BY <1>1, NextLevelList
  <2>2. PICK n \in Nat : n = (m + 1) \div 2 /\ (m + 1 = 2 * n \/ m + 1 = 2 * n + 1) BY <1>1, Halves
  <2>3. m \in Nat /\ n \in Nat BY <1>1, <2>2
  <2>4. m + 1 = n + n \/ m = n + n BY <2>2, <2>3
  <2> QED BY <2>1, <2>2, <2>4
<1>0. \A j \in 1..Len(NextLevel(l)) : NextLevel(l)[j] = Pair(l, j)
  <2>1. Len(l) > 0 BY <1>1
  <2> QED BY ONLY <2>1, IsList(l), NextLevelList
<1>4. m \in Nat /\ h \in Nat /\ n \in Nat /\ i < m /\ m > 1 BY <1>1, <1>2, <1>3
<1>5. CASE i % 2 = 0
  <2>1. i = h + h /\ h < n /\ h + 1 \in 1..n BY <1>2, <1>3, <1>4, <1>5
  <2>2. NextLevel(l)[h + 1] = Pair(l, h + 1) BY ONLY <1>3, <1>0, <2>1
  <2>3. 2 * (h + 1) - 1 = i + 1 /\ 2 * (h + 1) = i + 2 BY <1>4, <2>1
  <2>4. NextLevel(l)[h + 1] = ParentHash(l[i + 1], IF i + 2 <= m THEN l[i + 2] ELSE l[i + 1])
    BY <1>1, <2>2, <2>3 DEF Pair
  <2>5. CASE i + 2 <= m
    <3>1. Sibling(l, i) = i + 1 BY <1>1, <1>4, <1>5, <2>5 DEF Sibling
    <3>2. i + 1 + 1 = i + 2 /\ ~(i + 1 < i) /\ i + 1 \in Nat /\ i + 1 < m BY <1>4, <2>5
    <3> QED BY <1>1, <1>2, <1>3, <1>4, <2>1, <2>4, <2>5, <3>1, <3>2
  <2>6. CASE ~(i + 2 <= m)
    <3>1. Sibling(l, i) = i BY <1>1, <1>4, <1>5, <2>6 DEF Sibling
    <3>2. ~(i < i) OBVIOUS
    <3> QED BY <1>1, <1>2, <1>3, <1>4, <2>1, <2>4, <2>6, <3>1, <3>2
  <2> QED BY <2>5, <2>6
<1>6. CASE i % 2 = 1
  <2>1. i = h + h + 1 /\ h < n /\ h + 1 \in 1..n BY <1>2, <1>3, <1>4, <1>6
  <2>2. NextLevel(l)[h + 1] = Pair(l, h + 1) BY ONLY <1>3, <1>0, <2>1
  <2>3. 2 * (h + 1) - 1 = i /\ 2 * (h + 1) = i + 1 /\ i + 1 <= m BY <1>4, <2>1
  <2>4. NextLevel(l)[h + 1] = ParentHash(l[i], l[i + 1])
    BY <1>1, <2>2, <2>3 DEF Pair
  <2>5. Sibling(l, i) = i - 1 BY <1>1, <1>4, <1>6, <2>1 DEF Sibling
  <2>6. i - 1 \in Nat /\ i - 1 < m /\ i - 1 < i /\ i - 1 + 1 = i BY <1>4, <2>1
  <2> QED BY <1>1, <1>2, <1>3, <1>4, <2>1, <2>4, <2>5, <2>6
<1> QED BY <1>2, <1>5, <1>6


\* The recursion of IndexAt has a solution.
IsIndexAt(f, i, n) == f = [k \in 1..n |-> IF k = 1 THEN i ELSE f[k - 1] \div 2]

LEMMA IndexAtExists ==
    ASSUME NEW i, NEW N \in Nat
    PROVE  \E f : IsIndexAt(f, i, N)
<1> DEFINE Bad == {k \in 0..N : ~\E f : IsIndexAt(f, i, k)}
<1> SUFFICES ASSUME Bad # {} PROVE FALSE OBVIOUS
<1>1. PICK k \in Bad : \A j \in Bad : k <= j
  <2>1. Bad \in SUBSET Nat OBVIOUS
  <2> HIDE DEF Bad
  <2> QED BY <2>1, LeastOf
<1>2. k \in Nat /\ k <= N /\ ~\E f : IsIndexAt(f, i, k) BY <1>1
<1>3. CASE k = 0
  <2> DEFINE f == [j \in 1..0 |-> i]
  <2>1. IsIndexAt(f, i, 0) BY DEF IsIndexAt
  <2> QED BY <1>2, <1>3, <2>1
<1>4. CASE k # 0
  <2>1. k - 1 \in 0..N /\ ~(k <= k - 1) BY <1>2, <1>4
  <2>2. k - 1 \notin Bad BY <1>1, <2>1
  <2>3. PICK g : IsIndexAt(g, i, k - 1) BY <2>1, <2>2
  <2>4. \A j \in 1..(k - 1) : g[j] = IF j = 1 THEN i ELSE g[j - 1] \div 2
    BY <2>3 DEF IsIndexAt
  <2> DEFINE new == IF k = 1 THEN i ELSE g[k - 1] \div 2
             f == [j \in 1..k |-> IF j = k THEN new ELSE g[j]]
  <2>5. f[k] = new /\ \A j \in 1..(k - 1) : f[j] = g[j] BY <1>2, <1>4
  <2>6. f = [j \in 1..k |-> f[j]] OBVIOUS
  <2> HIDE DEF f, Bad
  <2>7. ASSUME NEW j \in 1..k PROVE f[j] = IF j = 1 THEN i ELSE f[j - 1] \div 2
    <3>1. CASE j = k
      <4>1. k # 1 => k - 1 \in 1..(k - 1) BY <1>2, <1>4
      <4>2. k # 1 => f[k - 1] = g[k - 1] BY <2>5, <4>1
      <4> QED BY <2>5, <3>1, <4>2
    <3>2. CASE j # k
      <4>1. j \in 1..(k - 1) /\ (j # 1 => j - 1 \in 1..(k - 1)) BY <1>2, <3>2
      <4>2. f[j] = g[j] /\ (j # 1 => f[j - 1] = g[j - 1]) BY <2>5, <4>1
      <4> QED BY <2>4, <4>1, <4>2
    <3> QED BY <3>1, <3>2
  <2>8. IsIndexAt(f, i, k) BY <2>6, <2>7 DEF IsIndexAt
  <2> QED BY <1>2, <2>8
<1> QED BY <1>3, <1>4

\* Each index is half of the one below it.
LEMMA IndexAtIs ==
    ASSUME NEW i, NEW n \in Nat
    PROVE  \A k \in 1..n : IndexAt(i, n)[k] = IF k = 1 THEN i ELSE IndexAt(i, n)[k - 1] \div 2
<1> DEFINE a == IndexAt(i, n)
<1>1. \E f : IsIndexAt(f, i, n) BY IndexAtExists
<1>2. IsIndexAt(a, i, n) BY <1>1 DEF IndexAt, IsIndexAt
<1> HIDE DEF a
<1>3. \A k \in 1..n : a[k] = IF k = 1 THEN i ELSE a[k - 1] \div 2 BY <1>2 DEF IsIndexAt
<1> QED BY <1>3 DEF a

\* One digest on a path.
Hop(h, s, side) == IF side = "L" THEN ParentHash(s, h) ELSE ParentHash(h, s)

\* The recursion of Digests has a solution.
IsDigests(f, leaf, path, sides, n) ==
    f = [k \in 0..n |-> IF k = 0 THEN leaf ELSE Hop(f[k - 1], path[k], sides[k])]

LEMMA DigestsExist ==
    ASSUME NEW leaf, NEW path, NEW sides, NEW N \in Nat
    PROVE  \E f : IsDigests(f, leaf, path, sides, N)
<1> DEFINE Bad == {k \in 0..N : ~\E f : IsDigests(f, leaf, path, sides, k)}
<1> SUFFICES ASSUME Bad # {} PROVE FALSE OBVIOUS
<1>1. PICK k \in Bad : \A j \in Bad : k <= j
  <2>1. Bad \in SUBSET Nat OBVIOUS
  <2> HIDE DEF Bad
  <2> QED BY <2>1, LeastOf
<1>2. k \in Nat /\ k <= N /\ ~\E f : IsDigests(f, leaf, path, sides, k) BY <1>1
<1>3. CASE k = 0
  <2> DEFINE f == [j \in 0..0 |-> leaf]
  <2>1. IsDigests(f, leaf, path, sides, 0) BY DEF IsDigests
  <2> QED BY <1>2, <1>3, <2>1
<1>4. CASE k # 0
  <2>1. k - 1 \in 0..N /\ ~(k <= k - 1) BY <1>2, <1>4
  <2>2. k - 1 \notin Bad BY <1>1, <2>1
  <2>3. PICK g : IsDigests(g, leaf, path, sides, k - 1) BY <2>1, <2>2
  <2>4. \A j \in 0..(k - 1) : g[j] = IF j = 0 THEN leaf ELSE Hop(g[j - 1], path[j], sides[j])
    BY <2>3 DEF IsDigests
  <2> DEFINE f == [j \in 0..k |-> IF j = k THEN Hop(g[k - 1], path[k], sides[k]) ELSE g[j]]
  <2>5. f[k] = Hop(g[k - 1], path[k], sides[k]) /\ \A j \in 0..(k - 1) : f[j] = g[j] BY <1>2
  <2>6. f = [j \in 0..k |-> f[j]] OBVIOUS
  <2> HIDE DEF f, Bad
  <2>7. ASSUME NEW j \in 0..k
        PROVE  f[j] = IF j = 0 THEN leaf ELSE Hop(f[j - 1], path[j], sides[j])
    <3>1. CASE j = k
      <4>1. k - 1 \in 0..(k - 1) /\ k # 0 BY <1>2, <1>4
      <4>2. f[k - 1] = g[k - 1] BY <2>5, <4>1
      <4> QED BY <2>5, <3>1, <4>1, <4>2
    <3>2. CASE j # k
      <4>1. j \in 0..(k - 1) /\ (j # 0 => j - 1 \in 0..(k - 1)) BY <1>2, <3>2
      <4>2. f[j] = g[j] /\ (j # 0 => f[j - 1] = g[j - 1]) BY <2>5, <4>1
      <4> QED BY <2>4, <4>1, <4>2
    <3> QED BY <3>1, <3>2
  <2>8. IsDigests(f, leaf, path, sides, k) BY <2>6, <2>7 DEF IsDigests
  <2> QED BY <1>2, <2>8
<1> QED BY <1>3, <1>4

\* Each digest is made of the one before it and a node of the path.
LEMMA DigestsAre ==
    ASSUME NEW leaf, NEW path, NEW sides, Len(path) \in Nat
    PROVE  /\ Digests(leaf, path, sides)[0] = leaf
           /\ \A k \in 1..Len(path) : Digests(leaf, path, sides)[k] =
                Hop(Digests(leaf, path, sides)[k - 1], path[k], sides[k])
<1> DEFINE a == Digests(leaf, path, sides)
<1>1. \E f : IsDigests(f, leaf, path, sides, Len(path)) BY DigestsExist
<1>2. IsDigests(a, leaf, path, sides, Len(path)) BY <1>1 DEF Digests, IsDigests, Hop
<1> HIDE DEF a
<1>3. \A k \in 0..Len(path) : a[k] = IF k = 0 THEN leaf ELSE Hop(a[k - 1], path[k], sides[k])
  BY <1>2 DEF IsDigests
<1>4. a[0] = leaf BY <1>3
<1>5. \A k \in 1..Len(path) : a[k] = Hop(a[k - 1], path[k], sides[k])
  <2> TAKE k \in 1..Len(path)
  <2>1. k \in 0..Len(path) /\ k # 0 OBVIOUS
  <2> QED BY <1>3, <2>1
<1> QED BY <1>4, <1>5 DEF a

\* A hop tells the digests apart that it comes from.
LEMMA HopDetermines ==
    ASSUME NEW g, NEW h, NEW s, NEW side, Hop(g, s, side) = Hop(h, s, side)
    PROVE  g = h
BY DEF Hop, ParentHash

\* So does a walk.
LEMMA WalkDetermines ==
    ASSUME NEW x, NEW y, NEW path, NEW sides, Len(path) \in Nat,
           Walk(x, path, sides) = Walk(y, path, sides)
    PROVE  x = y
<1> DEFINE n == Len(path)
           a == Digests(x, path, sides)
           b == Digests(y, path, sides)
           Same == {k \in 0..n : a[k] = b[k]}
<1>1. /\ a[0] = x /\ b[0] = y /\ a[n] = b[n]
      /\ \A k \in 1..n : a[k] = Hop(a[k - 1], path[k], sides[k])
                         /\ b[k] = Hop(b[k - 1], path[k], sides[k])
  BY DigestsAre DEF Walk
<1>2. n \in Nat /\ n \in Same BY <1>1
<1> HIDE DEF n, a, b
<1>3. PICK k \in Same : \A j \in Same : k <= j
  <2>1. Same \in SUBSET Nat BY <1>2
  <2> HIDE DEF Same
  <2> QED BY <1>2, <2>1, LeastOf
<1>4. CASE k = 0 BY <1>1, <1>3, <1>4
<1>5. CASE k # 0
  <2>1. k \in 1..n /\ k - 1 \in 0..n /\ ~(k <= k - 1) BY <1>2, <1>3, <1>5
  <2>2. Hop(a[k - 1], path[k], sides[k]) = Hop(b[k - 1], path[k], sides[k]) BY <1>1, <1>3, <2>1
  <2>3. a[k - 1] = b[k - 1] BY <2>2, HopDetermines
  <2>4. k - 1 \in Same BY <2>1, <2>3
  <2> QED BY <1>3, <2>1, <2>4
<1> QED BY <1>4, <1>5


\* The siblings of a node and of its ancestors, and the side each is on.
IsPath(hs, top, at, path, sides) ==
    /\ path = [k \in 1..top |-> Levels(hs)[k - 1][Sibling(Levels(hs)[k - 1], at[k]) + 1]]
    /\ sides = [k \in 1..top |->
           IF Sibling(Levels(hs)[k - 1], at[k]) < at[k] THEN "L" ELSE "R"]

\* A leaf and the siblings of its ancestors lead to the root.
LEMMA PathLeads ==
    ASSUME NEW hs, IsList(hs), NEW top \in Nat, IsTop(hs, top),
           NEW i \in Nat, i < Len(hs), NEW at, at = IndexAt(i, top + 1),
           NEW path, NEW sides, IsPath(hs, top, at, path, sides)
    PROVE  /\ Len(path) = top /\ Len(sides) = top /\ Range(sides) \subseteq {"L", "R"}
           /\ Walk(hs[i + 1], path, sides) = Levels(hs)[top][1]
<1> DEFINE n == Len(hs)
           a == Levels(hs)
           d == Digests(hs[i + 1], path, sides)
           OnPath(k) == at[k + 1] \in Nat /\ at[k + 1] < Len(a[k]) /\ d[k] = a[k][at[k + 1] + 1]
           Bad == {k \in 0..top : ~OnPath(k)}
<1>1. Len(path) = top /\ Len(sides) = top /\ Range(sides) \subseteq {"L", "R"}
  BY DEF Range, IsPath
<1>2. n \in Nat /\ top <= n /\ top \in 0..n BY DEF IsList, IsTop
<1>3. /\ d[0] = hs[i + 1]
      /\ \A k \in 1..top : d[k] = Hop(d[k - 1], path[k], sides[k])
  <2>1. Len(path) \in Nat BY <1>1
  <2>2. PICK x : x = hs[i + 1] OBVIOUS
  <2>3. /\ Digests(x, path, sides)[0] = x
        /\ \A k \in 1..Len(path) :
             Digests(x, path, sides)[k] = Hop(Digests(x, path, sides)[k - 1], path[k], sides[k])
    BY <2>1, DigestsAre
  <2> QED BY <1>1, <2>2, <2>3
<1>4. /\ a[0] = Bottom(hs) /\ \A k \in 1..top : a[k] = NextLevel(a[k - 1])
  BY <1>2, LevelsAre
<1>5. \A k \in 1..(top + 1) : at[k] = IF k = 1 THEN i ELSE at[k - 1] \div 2
  <2>1. PICK t \in Nat : t = top + 1 OBVIOUS
  <2>2. \A k \in 1..t : IndexAt(i, t)[k] = IF k = 1 THEN i ELSE IndexAt(i, t)[k - 1] \div 2
    BY IndexAtIs
  <2> QED BY <2>1, <2>2
<1>6. OnPath(0)
  <2>1. hs # <<>> BY <1>2
  <2>2. a[0] = hs BY <1>4, <2>1 DEF Bottom
  <2>3. 0 + 1 \in 1..(top + 1) /\ 0 + 1 = 1 OBVIOUS
  <2>4. at[0 + 1] = i BY <1>5, <2>3
  <2> QED BY <1>3, <2>2, <2>4
<1>7. Bad = {}
  <2> SUFFICES ASSUME Bad # {} PROVE FALSE OBVIOUS
  <2>1. PICK k \in Bad : \A j \in Bad : k <= j
    <3>1. Bad \in SUBSET Nat OBVIOUS
    <3> HIDE DEF Bad
    <3> QED BY <3>1, LeastOf
  <2>2. k \in 0..top /\ ~OnPath(k) BY <2>1
  <2>3. k # 0 BY <1>6, <2>2
  <2>4. PICK j \in Nat : j = k - 1 /\ k = j + 1 /\ j \in 0..top /\ k \in 1..top /\ ~(k <= j)
                         /\ j \in 0..n /\ j < top /\ k + 1 \in 1..(top + 1) /\ k + 1 # 1
    BY <1>2, <2>2, <2>3
  <2>5. OnPath(j) BY <2>1, <2>4
  <2> DEFINE l == a[j]
             s == Sibling(l, at[k])
  <2>6. IsList(l) /\ Len(l) > 1 BY <2>4, LevelSizes DEF IsTop
  <2>7. at[k] \in Nat /\ at[k] < Len(l) /\ d[j] = l[at[k] + 1] BY <2>4, <2>5
  <2>8. a[k] = NextLevel(l) BY <1>4, <2>4
  <2>9. at[k + 1] = at[k] \div 2
    <3>1. (k + 1) - 1 = k BY <2>4
    <3> QED BY <1>5, <2>4, <3>1
  <2>10. path[k] = l[s + 1] /\ sides[k] = IF s < at[k] THEN "L" ELSE "R"
    BY <2>4 DEF IsPath
  <2>11. d[k] = Hop(d[j], path[k], sides[k]) BY <1>3, <2>4
  <2> HIDE DEF l, a, d
  <2>12. /\ at[k] \div 2 \in Nat /\ at[k] \div 2 < Len(NextLevel(l))
         /\ NextLevel(l)[at[k] \div 2 + 1] =
              IF s < at[k] THEN ParentHash(l[s + 1], l[at[k] + 1])
                           ELSE ParentHash(l[at[k] + 1], l[s + 1])
    BY <2>6, <2>7, SiblingMakesParent
  <2> HIDE DEF s
  <2>13. d[k] = NextLevel(l)[at[k] \div 2 + 1]
    <3>1. CASE s < at[k] BY <2>7, <2>10, <2>11, <2>12, <3>1 DEF Hop
    <3>2. CASE ~(s < at[k])
      <4>1. sides[k] = "R" /\ "R" # "L" BY <2>10, <3>2
      <4> QED BY <2>7, <2>10, <2>11, <2>12, <3>2, <4>1 DEF Hop
    <3> QED BY <3>1, <3>2
  <2>14. OnPath(k) BY <2>8, <2>9, <2>12, <2>13
  <2> QED BY <2>2, <2>14
<1>8. OnPath(top)
  <2>1. top \in 0..top OBVIOUS
  <2> HIDE DEF OnPath
  <2> QED BY <1>7, <2>1
<1>9. Len(a[top]) = 1 BY DEF IsTop
<1> HIDE DEF a, d
<1>10. at[top + 1] = 0 BY <1>8, <1>9
<1>11. d[top] = a[top][1] BY <1>8, <1>10
<1> QED BY <1>1, <1>11 DEF Walk, a, d

UpTo(K, i) == {k \in K : k <= i}
Rank(K, i) == Cardinality(UpTo(K, i))

\* Different values in as many places leave none out.
LEMMA InjectiveIsOnto ==
    ASSUME NEW S, NEW T, IsFiniteSet(S), IsFiniteSet(T), Cardinality(S) = Cardinality(T),
           NEW f \in [S -> T], IsInjective(f)
    PROVE  Range(f) = T
<1> SUFFICES ASSUME NEW t \in T, \A s \in S : f[s] # t PROVE FALSE BY DEF Range
<1>1. f \in [S -> T \ {t}] OBVIOUS
<1>2. IsFiniteSet(T \ {t}) /\ Cardinality(T \ {t}) = Cardinality(T) - 1 BY FS_RemoveElement
<1>3. Cardinality(T) \in Nat BY FS_CardinalityType
<1>4. Cardinality(T \ {t}) < Cardinality(S) BY <1>2, <1>3
<1>5. \E x, y \in S : x # y /\ f[x] = f[y] BY <1>1, <1>2, <1>4, FS_PigeonHole
<1> QED BY <1>5 DEF IsInjective

\* Kept takes each place once and leaves none out.
LEMMA KeptOnce ==
    ASSUME NEW K, K \subseteq Nat, IsFiniteSet(K)
    PROVE  /\ Cardinality(K) \in Nat
           /\ \A n \in 1..Cardinality(K) : Nth(K, n) \in K
           /\ \A m, n \in 1..Cardinality(K) : Nth(K, m) = Nth(K, n) => m = n
           /\ \A i \in K : \E n \in 1..Cardinality(K) : Nth(K, n) = i
<1>0. Cardinality(K) \in Nat BY FS_CardinalityType
<1>1. \A i \in K : UpTo(K, i) \in SUBSET K /\ IsFiniteSet(UpTo(K, i)) BY FS_Subset DEF UpTo
<1>2. ASSUME NEW i \in K PROVE Rank(K, i) \in 1..Cardinality(K)
  <2>1. i \in UpTo(K, i) BY DEF UpTo
  <2>2. IsFiniteSet(UpTo(K, i)) /\ UpTo(K, i) \in SUBSET K BY <1>1
  <2>3. Rank(K, i) \in Nat /\ Rank(K, i) <= Cardinality(K) BY <2>2, FS_Subset, FS_CardinalityType DEF Rank
  <2>4. Rank(K, i) # 0 BY <2>1, <2>2, FS_EmptySet DEF Rank
  <2> QED BY <1>0, <2>3, <2>4
<1>3. ASSUME NEW i \in K, NEW j \in K, i < j PROVE Rank(K, i) # Rank(K, j)
  <2>1. UpTo(K, i) \in SUBSET UpTo(K, j)
    <3> SUFFICES ASSUME NEW k \in K, k <= i PROVE k <= j BY DEF UpTo
    <3>1. k \in Nat /\ i \in Nat /\ j \in Nat OBVIOUS
    <3> QED BY <1>3, <3>1
  <2>2. j \in UpTo(K, j) /\ j \notin UpTo(K, i) BY <1>3 DEF UpTo
  <2>3. UpTo(K, j) # UpTo(K, i) BY <2>2
  <2>4. IsFiniteSet(UpTo(K, j)) BY <1>1
  <2>5. Cardinality(UpTo(K, j)) # Cardinality(UpTo(K, i)) BY <2>1, <2>3, <2>4, FS_Subset
  <2> QED BY <2>5 DEF Rank
<1>4. \A i, j \in K : Rank(K, i) = Rank(K, j) => i = j
  <2> SUFFICES ASSUME NEW i \in K, NEW j \in K, Rank(K, i) = Rank(K, j), i # j PROVE FALSE
    OBVIOUS
  <2>1. i < j \/ j < i OBVIOUS
  <2> QED BY <1>3, <2>1
<1>5. ASSUME NEW n \in 1..Cardinality(K) PROVE \E i \in K : Rank(K, i) = n
  <2> DEFINE f == [i \in K |-> Rank(K, i)]
             T == 1..Cardinality(K)
  <2>1. f \in [K -> T] BY <1>2
  <2>2. IsInjective(f) BY <1>4 DEF IsInjective
  <2>3. IsFiniteSet(T) /\ Cardinality(T) = Cardinality(K) BY <1>0, FS_Interval
  <2>4. n \in T OBVIOUS
  <2> HIDE DEF f, T
  <2>5. Range(f) = T BY <2>1, <2>2, <2>3, InjectiveIsOnto
  <2>6. PICK i \in K : f[i] = n BY <2>1, <2>4, <2>5 DEF Range
  <2> QED BY <2>6 DEF f
<1>6. ASSUME NEW n \in 1..Cardinality(K) PROVE Nth(K, n) \in K /\ Rank(K, Nth(K, n)) = n
  <2>1. Nth(K, n) = CHOOSE i \in K : Rank(K, i) = n BY DEF Nth, Rank, UpTo
  <2> QED BY <1>5, <2>1
<1>7. ASSUME NEW i \in K PROVE Nth(K, Rank(K, i)) = i BY <1>2, <1>4, <1>6
<1> QED BY <1>0, <1>2, <1>6, <1>7

\* The leaves are the addresses in the store, each once.
LEMMA LeavesAre ==
    ASSUME NEW store, DOMAIN store \subseteq Accounts
    PROVE  /\ IsList(LoadSortedLeaves(store)) /\ IsInjective(LoadSortedLeaves(store))
           /\ DOMAIN LoadSortedLeaves(store) = 1..Len(LoadSortedLeaves(store))
           /\ Range(LoadSortedLeaves(store)) = DOMAIN store
<1> DEFINE K == {i \in DOMAIN AddressOrder : AddressOrder[i] \in DOMAIN store}
           c == Cardinality(K)
           leaves == [j \in 1..c |-> AddressOrder[Nth(K, j)]]
<1>1. /\ DOMAIN AddressOrder = 1..Len(AddressOrder) /\ Len(AddressOrder) \in Nat
      /\ \A i, j \in DOMAIN AddressOrder : AddressOrder[i] = AddressOrder[j] => i = j
      /\ \A x \in Accounts : \E i \in DOMAIN AddressOrder : AddressOrder[i] = x
  BY AddressesOrdered DEF IsInjective, Range
<1>2. K \in SUBSET DOMAIN AddressOrder /\ K \subseteq Nat BY <1>1
<1>3. IsFiniteSet(K)
  <2>1. PICK n \in Nat : DOMAIN AddressOrder = 1..n BY <1>1
  <2>2. IsFiniteSet(1..n) BY FS_Interval
  <2>3. K \in SUBSET (1..n) BY <1>2, <2>1
  <2> HIDE DEF K
  <2> QED BY <2>2, <2>3, FS_Subset
<1>4. LoadSortedLeaves(store) = leaves BY DEF LoadSortedLeaves, Kept
<1>5. \A i \in K : AddressOrder[i] \in DOMAIN store OBVIOUS
<1>6. \A x \in DOMAIN store : \E i \in K : AddressOrder[i] = x BY <1>1
<1> HIDE DEF K
<1>7. /\ c \in Nat
      /\ \A n \in 1..c : Nth(K, n) \in K
      /\ \A m, n \in 1..c : Nth(K, m) = Nth(K, n) => m = n
      /\ \A i \in K : \E n \in 1..c : Nth(K, n) = i
  BY <1>2, <1>3, KeptOnce
<1> HIDE DEF c
<1>8. IsList(leaves) /\ Len(leaves) = c /\ DOMAIN leaves = 1..c BY <1>7 DEF IsList
<1>9. IsInjective(leaves)
  <2> SUFFICES ASSUME NEW m \in 1..c, NEW n \in 1..c, leaves[m] = leaves[n] PROVE m = n
    BY DEF IsInjective
  <2>1. Nth(K, m) \in DOMAIN AddressOrder /\ Nth(K, n) \in DOMAIN AddressOrder BY <1>2, <1>7
  <2>2. Nth(K, m) = Nth(K, n) BY <1>1, <2>1
  <2> QED BY <1>7, <2>2
<1>10. Range(leaves) \subseteq DOMAIN store BY <1>5, <1>7 DEF Range
<1>11. DOMAIN store \subseteq Range(leaves)
  <2> SUFFICES ASSUME NEW x \in DOMAIN store PROVE \E n \in 1..c : leaves[n] = x BY DEF Range
  <2>1. PICK i \in K : AddressOrder[i] = x BY <1>6
  <2>2. PICK n \in 1..c : Nth(K, n) = i BY <1>7
  <2> QED BY <2>1, <2>2
<1> QED BY <1>4, <1>8, <1>9, <1>10, <1>11


\* A leaf's digest tells addresses and accounts apart.
LEMMA LeafDetermines ==
    ASSUME NEW q, NEW r, NEW a \in Account, NEW b \in Account, LeafHash(q, a) = LeafHash(r, b)
    PROVE  q = r /\ a = b
<1>1. /\ q = r /\ a.balance = b.balance /\ a.staked = b.staked
      /\ a.pending = b.pending /\ a.nonce = b.nonce
  BY DEF LeafHash
<1> QED BY <1>1 DEF Account

\* The three kinds of digest differ.
LEMMA KindsDiffer ==
    ASSUME NEW q, NEW a, NEW l, NEW r
    PROVE  /\ LeafHash(q, a) # EmptyLeaf /\ LeafHash(q, a) # ParentHash(l, r)
           /\ EmptyLeaf # ParentHash(l, r)
<1>1. LeafHash(q, a)[1] = "leaf" /\ EmptyLeaf[1] = "empty" /\ ParentHash(l, r)[1] = "node"
  BY DEF LeafHash, EmptyLeaf, ParentHash
<1> QED BY <1>1

\* A store: what it has a key for are accounts.
IsStore(store) ==
    /\ DOMAIN store \subseteq Accounts /\ store = [x \in DOMAIN store |-> store[x]]
    /\ \A x \in DOMAIN store : store[x] \in Account

Hashes(store) == LeafHashes(store, LoadSortedLeaves(store))

\* The digests of the leaves, each once.
LEMMA HashesAre ==
    ASSUME NEW store, IsStore(store)
    PROVE  /\ IsList(Hashes(store)) /\ Len(Hashes(store)) = Len(LoadSortedLeaves(store))
           /\ IsInjective(Hashes(store))
           /\ \A i \in 1..Len(LoadSortedLeaves(store)) :
                /\ LoadSortedLeaves(store)[i] \in DOMAIN store
                /\ Hashes(store)[i] = LeafHash(LoadSortedLeaves(store)[i],
                                               store[LoadSortedLeaves(store)[i]])
<1> DEFINE leaves == LoadSortedLeaves(store)
           n == Len(leaves)
<1>1. /\ IsList(leaves) /\ DOMAIN leaves = 1..n /\ Range(leaves) = DOMAIN store
      /\ \A i, j \in 1..n : leaves[i] = leaves[j] => i = j
  BY LeavesAre DEF IsStore, IsInjective
<1>2. Hashes(store) = [i \in 1..n |-> LeafHash(leaves[i], store[leaves[i]])]
  BY <1>1 DEF Hashes, LeafHashes, Leaf
<1>3. \A i \in 1..n : leaves[i] \in DOMAIN store BY <1>1 DEF Range
<1> HIDE DEF leaves
<1>4. n \in Nat BY <1>1 DEF IsList
<1> HIDE DEF n
<1> DEFINE hs == [i \in 1..n |-> LeafHash(leaves[i], store[leaves[i]])]
<1>5. Len(hs) = n /\ IsList(hs) BY <1>4 DEF IsList
<1>6. IsInjective(hs)
  <2> SUFFICES ASSUME NEW i \in 1..n, NEW j \in 1..n, hs[i] = hs[j] PROVE i = j
    BY DEF IsInjective
  <2>1. store[leaves[i]] \in Account /\ store[leaves[j]] \in Account BY <1>3 DEF IsStore
  <2>2. LeafHash(leaves[i], store[leaves[i]]) = LeafHash(leaves[j], store[leaves[j]]) OBVIOUS
  <2>3. leaves[i] = leaves[j] BY <2>1, <2>2, LeafDetermines
  <2> QED BY <1>1, <2>3
<1> QED BY <1>2, <1>3, <1>5, <1>6 DEF leaves, n

\* What ProveAccountMerkle hands out for an account in the store.
LEMMA ProofOfPresent ==
    ASSUME NEW store, IsStore(store), NEW addr \in DOMAIN store
    PROVE  \E idx \in Nat : \E n, path, sides, root :
             /\ ProveAccount(store, addr) =
                  [address |-> addr, account |-> store[addr],
                   leafHash |-> LeafHash(addr, store[addr]), leafIndex |-> idx, leafCount |-> n,
                   path |-> path, sides |-> sides, stateRoot |-> root]
             /\ Len(path) \in Nat /\ Len(path) = Len(sides) /\ Range(sides) \subseteq {"L", "R"}
             /\ Walk(LeafHash(addr, store[addr]), path, sides) = root
<1> DEFINE leaves == LoadSortedLeaves(store)
           hs == Hashes(store)
           layers == BuildMerkleLayers(hs)
           place == CHOOSE i \in DOMAIN leaves : leaves[i] = addr
<1>1. /\ DOMAIN leaves = 1..Len(leaves) /\ Range(leaves) = DOMAIN store
  BY LeavesAre DEF IsStore
<1>2. place \in 1..Len(leaves) /\ leaves[place] = addr BY <1>1 DEF Range
<1>3. /\ IsList(hs) /\ Len(hs) = Len(leaves) /\ Len(hs) \in Nat
      /\ hs[place] = LeafHash(addr, store[addr])
  BY <1>2, HashesAre DEF IsList
<1>4. PICK top \in Nat : IsTop(hs, top) BY <1>3, TreeEnds
<1>5. PICK idx \in Nat : idx = place - 1 /\ idx + 1 = place /\ idx < Len(hs)
  <2> HIDE DEF place, hs
  <2> QED BY <1>2, <1>3
<1> DEFINE at == IndexAt(idx, top + 1)
           path == [k \in 1..top |-> Levels(hs)[k - 1][Sibling(Levels(hs)[k - 1], at[k]) + 1]]
           sides == [k \in 1..top |->
               IF Sibling(Levels(hs)[k - 1], at[k]) < at[k] THEN "L" ELSE "R"]
<1>6. IsPath(hs, top, at, path, sides) BY DEF IsPath
<1>7. /\ Len(path) = top /\ Len(sides) = top /\ Range(sides) \subseteq {"L", "R"}
      /\ Walk(hs[idx + 1], path, sides) = Levels(hs)[top][1]
  <2> HIDE DEF at, path, sides, hs
  <2>1. PICK H, A, P, S : H = hs /\ A = at /\ P = path /\ S = sides OBVIOUS
  <2>2. IsList(H) /\ IsTop(H, top) /\ idx < Len(H) /\ IsPath(H, top, A, P, S)
    BY <1>3, <1>4, <1>5, <1>6, <2>1
  <2>3. A = IndexAt(idx, top + 1) BY <2>1 DEF at
  <2>4. /\ Len(P) = top /\ Len(S) = top /\ Range(S) \subseteq {"L", "R"}
        /\ Walk(H[idx + 1], P, S) = Levels(H)[top][1]
    BY <2>2, <2>3, PathLeads
  <2> QED BY <2>1, <2>4
<1>8. Len(layers) = top + 1 /\ Last(layers) = Levels(hs)[top]
      /\ layers = [k \in 1..(top + 1) |-> Levels(hs)[k - 1]]
  BY <1>4 DEF IsTop
<1> DEFINE steps == 1..(Len(layers) - 1)
<1>9. steps = 1..top BY <1>8
<1>10. \A k \in 1..top : layers[k] = Levels(hs)[k - 1] BY <1>8
<1>11. ProveAccount(store, addr) =
         [address |-> addr, account |-> store[addr],
          leafHash |-> LeafHash(addr, store[addr]), leafIndex |-> idx, leafCount |-> Len(leaves),
          path |-> path, sides |-> sides, stateRoot |-> Last(layers)[1]]
  <2> DEFINE at2 == IndexAt(place - 1, Len(layers))
             path2 == [k \in steps |-> layers[k][Sibling(layers[k], at2[k]) + 1]]
             sides2 == [k \in steps |-> IF Sibling(layers[k], at2[k]) < at2[k] THEN "L" ELSE "R"]
  <2>1. ProveAccount(store, addr) =
         [address |-> addr, account |-> store[addr],
          leafHash |-> LeafHash(addr, store[addr]), leafIndex |-> place - 1,
          leafCount |-> Len(leaves),
          path |-> path2, sides |-> sides2, stateRoot |-> Last(layers)[1]]
    BY DEF ProveAccount, GetAccount, Hashes
  <2>2. at2 = at BY <1>5, <1>8
  <2> HIDE DEF at, at2, place, layers, hs, steps
  <2>3. path2 = path BY <1>9, <1>10, <2>2
  <2>4. sides2 = sides BY <1>9, <1>10, <2>2
  <2> HIDE DEF path2, sides2, path, sides
  <2> QED BY <1>5, <2>1, <2>3, <2>4
<1>12. PICK pa, si, m, root : pa = path /\ si = sides /\ m = Len(leaves) /\ root = Last(layers)[1]
  OBVIOUS
<1>13. Walk(LeafHash(addr, store[addr]), pa, si) = root
  <2> HIDE DEF at, path, sides, hs, layers, leaves, place
  <2> QED BY <1>3, <1>5, <1>7, <1>8, <1>12
<1>14. Len(pa) \in Nat /\ Len(pa) = Len(si) /\ Range(si) \subseteq {"L", "R"} BY <1>7, <1>12
<1> HIDE DEF at, path, sides, hs, layers, leaves, place
<1> QED BY <1>11, <1>12, <1>13, <1>14


\* What it hands out for a missing one: the proof of nothing.
LEMMA ProofOfMissing ==
    ASSUME NEW store, IsStore(store), NEW addr, addr \notin DOMAIN store
    PROVE  \E idx \in Int : \E n, path, sides, root :
             /\ ProveAccount(store, addr) =
                  [address |-> addr, account |-> Zero,
                   leafHash |-> LeafHash(addr, Zero), leafIndex |-> idx, leafCount |-> n,
                   path |-> path, sides |-> sides, stateRoot |-> root]
             /\ Len(path) = 0 /\ (idx >= 0 => root = EmptyLeaf)
<1> DEFINE leaves == LoadSortedLeaves(store)
           hs == Hashes(store)
           layers == BuildMerkleLayers(hs)
           at == IndexAt(IF leaves = <<>> THEN 0 ELSE -1, Len(layers))
           path == [k \in {} |-> layers[k][Sibling(layers[k], at[k]) + 1]]
           sides == [k \in {} |-> IF Sibling(layers[k], at[k]) < at[k] THEN "L" ELSE "R"]
<1>1. ProveAccount(store, addr) =
         [address |-> addr, account |-> Zero, leafHash |-> LeafHash(addr, Zero),
          leafIndex |-> IF leaves = <<>> THEN 0 ELSE -1, leafCount |-> Len(leaves),
          path |-> path, sides |-> sides, stateRoot |-> Last(layers)[1]]
  BY DEF ProveAccount, GetAccount, Hashes
<1>2. Len(path) = 0
  <2>1. {} = 1..0 OBVIOUS
  <2>2. DOMAIN path = 1..0 BY <2>1
  <2> QED BY <2>2
<1>3. ASSUME leaves = <<>> PROVE Last(layers)[1] = EmptyLeaf
  <2>1. IsList(hs) /\ Len(hs) = 0 BY <1>3, HashesAre
  <2>2. hs = <<>> BY <2>1 DEF IsList
  <2>3. PICK top \in Nat : IsTop(hs, top) BY <2>1, TreeEnds
  <2>4. top = 0 BY <2>1, <2>3 DEF IsTop
  <2>5. Levels(hs)[0] = <<EmptyLeaf>>
    <3>1. Levels(hs)[0] = Bottom(hs) BY <2>1, LevelsAre
    <3> QED BY <2>2, <3>1 DEF Bottom
  <2>6. Last(layers) = Levels(hs)[0] BY <2>3, <2>4 DEF IsTop
  <2> QED BY <2>5, <2>6
<1>4. PICK idx, m, pa, si, root :
         /\ idx \in Int
         /\ idx = (IF leaves = <<>> THEN 0 ELSE -1) /\ m = Len(leaves)
         /\ pa = path /\ si = sides /\ root = Last(layers)[1]
  <2>1. PICK idx \in Int : idx = IF leaves = <<>> THEN 0 ELSE -1 OBVIOUS
  <2> HIDE DEF leaves, path, sides, layers
  <2> QED BY <2>1
<1>5. idx >= 0 => root = EmptyLeaf
  <2>1. idx >= 0 => leaves = <<>> BY <1>4
  <2> QED BY <1>3, <1>4, <2>1
<1> HIDE DEF leaves, path, sides, layers
<1>6. ProveAccount(store, addr) =
         [address |-> addr, account |-> Zero, leafHash |-> LeafHash(addr, Zero),
          leafIndex |-> idx, leafCount |-> m, path |-> pa, sides |-> si, stateRoot |-> root]
  BY <1>1, <1>4
<1>7. Len(pa) = 0 BY <1>2, <1>4
<1>8. idx \in Int BY <1>4
<1> HIDE DEF at, hs
<1>9. \E n, pth, sds, rt :
        /\ ProveAccount(store, addr) =
             [address |-> addr, account |-> Zero,
              leafHash |-> LeafHash(addr, Zero), leafIndex |-> idx, leafCount |-> n,
              path |-> pth, sides |-> sds, stateRoot |-> rt]
        /\ Len(pth) = 0 /\ (idx >= 0 => rt = EmptyLeaf)
  BY <1>5, <1>6, <1>7
<1> QED BY <1>8, <1>9

\* A walk along no path stays where it is.
LEMMA EmptyWalk == ASSUME NEW x, NEW path, NEW sides, Len(path) = 0 PROVE Walk(x, path, sides) = x
<1>1. Len(path) \in Nat OBVIOUS
<1>2. Digests(x, path, sides)[0] = x BY <1>1, DigestsAre
<1> QED BY <1>2 DEF Walk

\* What a proof claims of an account.
Claim(p, q, acc) == [p EXCEPT !.address = q, !.account = acc, !.leafHash = LeafHash(q, acc)]

LEMMA ClaimIs ==
    ASSUME NEW p, NEW q, NEW acc, NEW r, NEW b, NEW l, NEW idx, NEW n, NEW path, NEW sides, NEW root,
           p = [address |-> r, account |-> b, leafHash |-> l, leafIndex |-> idx, leafCount |-> n,
                path |-> path, sides |-> sides, stateRoot |-> root]
    PROVE  /\ VerifyMerkleProof(Claim(p, q, acc)) <=>
                /\ idx >= 0 /\ Len(path) = Len(sides) /\ Range(sides) \subseteq {"L", "R"}
                /\ Walk(LeafHash(q, acc), path, sides) = root
           /\ l = LeafHash(r, b) =>
                (VerifyMerkleProof(p) <=> VerifyMerkleProof(Claim(p, r, b)))
<1>1. ASSUME NEW x, NEW y
      PROVE  VerifyMerkleProof(Claim(p, x, y)) <=>
               /\ idx >= 0 /\ Len(path) = Len(sides) /\ Range(sides) \subseteq {"L", "R"}
               /\ Walk(LeafHash(x, y), path, sides) = root
  <2>1. PICK z : z = Claim(p, x, y) OBVIOUS
  <2>2. /\ z.address = x /\ z.account = y /\ z.leafHash = LeafHash(x, y)
        /\ z.leafIndex = idx /\ z.path = path /\ z.sides = sides /\ z.stateRoot = root
    BY <2>1 DEF Claim
  <2>3. VerifyMerkleProof(z) <=>
               /\ idx >= 0 /\ Len(path) = Len(sides) /\ Range(sides) \subseteq {"L", "R"}
               /\ Walk(LeafHash(x, y), path, sides) = root
    BY <2>2 DEF VerifyMerkleProof
  <2> QED BY <2>1, <2>3
<1>2. ASSUME l = LeafHash(r, b)
      PROVE  VerifyMerkleProof(p) <=>
               /\ idx >= 0 /\ Len(path) = Len(sides) /\ Range(sides) \subseteq {"L", "R"}
               /\ Walk(LeafHash(r, b), path, sides) = root
  <2>1. /\ p.address = r /\ p.account = b /\ p.leafHash = LeafHash(r, b)
        /\ p.leafIndex = idx /\ p.path = path /\ p.sides = sides /\ p.stateRoot = root
    BY <1>2
  <2> QED BY <2>1 DEF VerifyMerkleProof
<1> QED BY <1>1, <1>2

\* A path of the store vouches for the stored account and no other.
LEMMA OnlyStoredVerifies ==
    ASSUME NEW store, IsStore(store), NEW addr, NEW q, NEW acc \in Account
    PROVE  VerifyMerkleProof(Claim(ProveAccount(store, addr), q, acc)) <=>
             addr \in DOMAIN store /\ q = addr /\ acc = store[addr]
<1> DEFINE p == ProveAccount(store, addr)
<1>1. CASE addr \in DOMAIN store
  <2>1. PICK idx \in Nat : \E n, path, sides, root :
             /\ p = [address |-> addr, account |-> store[addr],
                     leafHash |-> LeafHash(addr, store[addr]), leafIndex |-> idx, leafCount |-> n,
                     path |-> path, sides |-> sides, stateRoot |-> root]
             /\ Len(path) \in Nat /\ Len(path) = Len(sides) /\ Range(sides) \subseteq {"L", "R"}
             /\ Walk(LeafHash(addr, store[addr]), path, sides) = root
    BY <1>1, ProofOfPresent
  <2>2. PICK n, path, sides, root :
             /\ p = [address |-> addr, account |-> store[addr],
                     leafHash |-> LeafHash(addr, store[addr]), leafIndex |-> idx, leafCount |-> n,
                     path |-> path, sides |-> sides, stateRoot |-> root]
             /\ Len(path) \in Nat /\ Len(path) = Len(sides) /\ Range(sides) \subseteq {"L", "R"}
             /\ Walk(LeafHash(addr, store[addr]), path, sides) = root
    BY <2>1
  <2> HIDE DEF p
  <2>3. VerifyMerkleProof(Claim(p, q, acc)) <=> Walk(LeafHash(q, acc), path, sides) = root
    <3>1. idx >= 0 OBVIOUS
    <3>2. VerifyMerkleProof(Claim(p, q, acc)) <=>
             /\ idx >= 0 /\ Len(path) = Len(sides) /\ Range(sides) \subseteq {"L", "R"}
             /\ Walk(LeafHash(q, acc), path, sides) = root
      BY <2>2, ClaimIs
    <3> QED BY <2>2, <3>1, <3>2
  <2>4. ASSUME Walk(LeafHash(q, acc), path, sides) = root
        PROVE  q = addr /\ acc = store[addr]
    <3>1. LeafHash(q, acc) = LeafHash(addr, store[addr])
      <4>1. PICK x, y : x = LeafHash(q, acc) /\ y = LeafHash(addr, store[addr]) OBVIOUS
      <4>2. Walk(x, path, sides) = Walk(y, path, sides) BY <2>2, <2>4, <4>1
      <4>3. x = y BY <2>2, <4>2, WalkDetermines
      <4> QED BY <4>1, <4>3
    <3>2. store[addr] \in Account BY <1>1 DEF IsStore
    <3> QED BY <3>1, <3>2, LeafDetermines
  <2> QED BY <1>1, <2>2, <2>3, <2>4 DEF p
<1>2. CASE addr \notin DOMAIN store
  <2>1. PICK idx \in Int : \E n, path, sides, root :
             /\ p = [address |-> addr, account |-> Zero,
                     leafHash |-> LeafHash(addr, Zero), leafIndex |-> idx, leafCount |-> n,
                     path |-> path, sides |-> sides, stateRoot |-> root]
             /\ Len(path) = 0 /\ (idx >= 0 => root = EmptyLeaf)
    BY <1>2, ProofOfMissing
  <2>2. PICK n, path, sides, root :
             /\ p = [address |-> addr, account |-> Zero,
                     leafHash |-> LeafHash(addr, Zero), leafIndex |-> idx, leafCount |-> n,
                     path |-> path, sides |-> sides, stateRoot |-> root]
             /\ Len(path) = 0 /\ (idx >= 0 => root = EmptyLeaf)
    BY <2>1
  <2> HIDE DEF p
  <2>3. VerifyMerkleProof(Claim(p, q, acc)) =>
          idx >= 0 /\ Walk(LeafHash(q, acc), path, sides) = root
    BY <2>2, ClaimIs
  <2>4. Walk(LeafHash(q, acc), path, sides) = LeafHash(q, acc) BY <2>2, EmptyWalk
  <2>5. LeafHash(q, acc) # EmptyLeaf BY KindsDiffer
  <2> QED BY <1>2, <2>2, <2>3, <2>4, <2>5 DEF p
<1> QED BY <1>1, <1>2

\* Every selection of a ledger's accounts is a store.
LEMMA StoresAre ==
    ASSUME Solvent
    PROVE  \A store \in Stores : IsStore(store)
BY DEF Stores, Restrict, IsStore, Solvent

(***************************************************************************)
(* In whatever state the ledger is, for trees of every size: VerifyMerkle- *)
(* Proof accepts what ProveAccountMerkle hands out for an account in the   *)
(* store, not what it hands out for another, and along no path of a store  *)
(* an account that differs from the stored one.                            *)
(***************************************************************************)
THEOREM ProofsVerifyHolds == Spec => []ProofsVerify
<1>1. Solvent => ProofsVerify
  <2> SUFFICES ASSUME Solvent, NEW store \in Stores, NEW addr \in Accounts
      PROVE  LET p == ProveAccount(store, addr)
                 Claims(q, acc) ==
                   [p EXCEPT !.address = q, !.account = acc, !.leafHash = LeafHash(q, acc)]
             IN /\ VerifyMerkleProof(p) <=> addr \in DOMAIN store
                /\ \A q \in Accounts : \A acc \in {ledger.acc[q], p.account, Zero} :
                     VerifyMerkleProof(Claims(q, acc)) => q \in DOMAIN store /\ store[q] = acc
    BY DEF ProofsVerify
  <2> DEFINE p == ProveAccount(store, addr)
  <2>1. IsStore(store) BY StoresAre
  <2>2. /\ p.account \in Account
        /\ VerifyMerkleProof(p) <=> VerifyMerkleProof(Claim(p, addr, p.account))
        /\ addr \in DOMAIN store => p.account = store[addr]
    <3>0. Zero \in Account BY DEF Zero, Account
    <3>1. CASE addr \in DOMAIN store
      <4>1. \E idx, n, path, sides, root :
              p = [address |-> addr, account |-> store[addr],
                   leafHash |-> LeafHash(addr, store[addr]), leafIndex |-> idx, leafCount |-> n,
                   path |-> path, sides |-> sides, stateRoot |-> root]
        BY <2>1, <3>1, ProofOfPresent
      <4> HIDE DEF p
      <4>2. store[addr] \in Account BY <2>1, <3>1 DEF IsStore
      <4>3. p.account = store[addr] /\ (VerifyMerkleProof(p) <=> VerifyMerkleProof(Claim(p, addr, store[addr])))
        BY <4>1, ClaimIs
      <4> QED BY <4>2, <4>3
    <3>2. CASE addr \notin DOMAIN store
      <4>1. \E idx, n, path, sides, root :
              p = [address |-> addr, account |-> Zero,
                   leafHash |-> LeafHash(addr, Zero), leafIndex |-> idx, leafCount |-> n,
                   path |-> path, sides |-> sides, stateRoot |-> root]
        BY <2>1, <3>2, ProofOfMissing
      <4> HIDE DEF p
      <4>3. p.account = Zero /\ (VerifyMerkleProof(p) <=> VerifyMerkleProof(Claim(p, addr, Zero)))
        BY <4>1, ClaimIs
      <4> QED BY <3>0, <3>2, <4>3
    <3> QED BY <3>1, <3>2
  <2>3. VerifyMerkleProof(p) <=> addr \in DOMAIN store
    <3> HIDE DEF p
    <3>1. VerifyMerkleProof(Claim(p, addr, p.account)) <=>
             addr \in DOMAIN store /\ addr = addr /\ p.account = store[addr]
      BY <2>1, <2>2, OnlyStoredVerifies DEF p
    <3> QED BY <2>2, <3>1
  <2>4. ASSUME NEW q \in Accounts, NEW acc \in {ledger.acc[q], p.account, Zero},
               VerifyMerkleProof(Claim(p, q, acc))
        PROVE  q \in DOMAIN store /\ store[q] = acc
    <3>1. acc \in Account
      <4>1. ledger.acc[q] \in Account /\ Zero \in Account BY DEF Solvent, Zero, Account
      <4> HIDE DEF p
      <4> QED BY <2>2, <4>1
    <3> QED BY <2>1, <2>4, <3>1, OnlyStoredVerifies
  <2> QED BY <2>3, <2>4 DEF Claim
<1> QED BY <1>1, SolventHolds, PTL


(***************************************************************************)
(* Two trees with the same root are the same tree: going down from the     *)
(* root, a level of distinct nodes is all that its parents can be made of. *)
(***************************************************************************)

\* The nodes of a level differ from each other.
Distinct(l) ==
    IsList(l) /\ Len(l) > 0 /\ \A i, j \in 1..Len(l) : l[i] = l[j] => i = j

\* A level of m nodes and the n nodes above it.
IsAbove(l, up, m, n) ==
    /\ m = Len(l) /\ n = Len(up) /\ n > 0 /\ (m + 1 = n + n \/ m = n + n)
    /\ \A i \in 1..n : i + i - 1 \in 1..m
    /\ \A i \in 1..n : up[i] =
         ParentHash(l[i + i - 1], IF i + i <= m THEN l[i + i] ELSE l[i + i - 1])

LEMMA ParentCount ==
    ASSUME NEW l, IsList(l), Len(l) > 0
    PROVE  \E m \in Nat : \E n \in Nat : IsAbove(l, NextLevel(l), m, n)
<1>1. PICK m \in Nat : m = Len(l) BY DEF IsList
<1>2. PICK n \in Nat : n = (m + 1) \div 2 /\ (m + 1 = 2 * n \/ m + 1 = 2 * n + 1) BY Halves
<1>3. Len(NextLevel(l)) = n /\ n > 0 /\ \A i \in 1..n : NextLevel(l)[i] = Pair(l, i)
  BY <1>1, <1>2, NextLevelList
<1>4. m + 1 = n + n \/ m = n + n BY <1>1, <1>2
<1>5. \A i \in 1..n : 2 * i - 1 = i + i - 1 /\ 2 * i = i + i /\ i + i - 1 \in 1..m
  <2> TAKE i \in 1..n
  <2>1. i \in Nat /\ m \in Nat /\ n \in Nat BY <1>1, <1>2
  <2>2. 2 * i - 1 = i + i - 1 /\ 2 * i = i + i BY <2>1
  <2>3. i + i - 1 \in 1..m BY <1>4, <2>1
  <2> QED BY <2>2, <2>3
<1>6. \A i \in 1..n : NextLevel(l)[i] =
        ParentHash(l[i + i - 1], IF i + i <= m THEN l[i + i] ELSE l[i + i - 1])
  BY <1>1, <1>3, <1>5 DEF Pair
<1> QED BY <1>1, <1>3, <1>4, <1>5, <1>6 DEF IsAbove

\* Parents are the same only of the same nodes.
LEMMA ParentHashOnce ==
    ASSUME NEW a, NEW b, NEW c, NEW d, ParentHash(a, b) = ParentHash(c, d)
    PROVE  a = c /\ b = d
BY DEF ParentHash

\* Distinct nodes have distinct parents.
LEMMA ParentsDistinct ==
    ASSUME NEW l, Distinct(l)
    PROVE  Distinct(NextLevel(l))
<1>1. IsList(l) /\ Len(l) > 0 BY DEF Distinct
<1>2. PICK m \in Nat : \E n \in Nat : IsAbove(l, NextLevel(l), m, n) BY <1>1, ParentCount
<1>3. PICK n \in Nat : IsAbove(l, NextLevel(l), m, n) BY <1>2
<1>4. ASSUME NEW i \in 1..n, NEW j \in 1..n, NextLevel(l)[i] = NextLevel(l)[j] PROVE i = j
  <2>1. l[i + i - 1] = l[j + j - 1]
    <3>1. ParentHash(l[i + i - 1], IF i + i <= m THEN l[i + i] ELSE l[i + i - 1])
            = ParentHash(l[j + j - 1], IF j + j <= m THEN l[j + j] ELSE l[j + j - 1])
      BY <1>3, <1>4 DEF IsAbove
    <3> QED BY ONLY <3>1, ParentHashOnce
  <2>2. i + i - 1 = j + j - 1 BY <1>3, <2>1 DEF Distinct, IsAbove
  <2> QED BY <2>2
<1>5. IsList(NextLevel(l)) BY <1>1, NextLevelList
<1> QED BY <1>3, <1>4, <1>5 DEF Distinct, IsAbove

\* Two levels of distinct nodes with the same parents: first that they are of one size.
LEMMA ParentsCount ==
    ASSUME NEW l, NEW k, Distinct(l), Distinct(k), NextLevel(l) = NextLevel(k)
    PROVE  /\ ~(Len(l) < Len(k))
           /\ \A i \in 1..Len(NextLevel(l)) :
                l[i + i - 1] = k[i + i - 1] /\ (i + i <= Len(l) /\ i + i <= Len(k) => l[i + i] = k[i + i])
<1>1. PICK up : up = NextLevel(l) /\ up = NextLevel(k) OBVIOUS
<1>2. IsList(l) /\ Len(l) > 0 /\ IsList(k) /\ Len(k) > 0 BY DEF Distinct
<1>3. PICK m \in Nat : \E n \in Nat : IsAbove(l, NextLevel(l), m, n) BY ONLY <1>2, ParentCount
<1>4. PICK p \in Nat : \E n \in Nat : IsAbove(k, NextLevel(k), p, n) BY ONLY <1>2, ParentCount
<1>5. PICK n \in Nat : IsAbove(l, up, m, n) /\ IsAbove(k, up, p, n)
  <2>1. PICK n \in Nat : IsAbove(l, up, m, n) BY <1>1, <1>3
  <2>2. PICK o \in Nat : IsAbove(k, up, p, o) BY <1>1, <1>4
  <2>3. n = o BY <2>1, <2>2 DEF IsAbove
  <2> QED BY <2>1, <2>2, <2>3
<1>6. ASSUME NEW i \in 1..n
      PROVE  /\ l[i + i - 1] = k[i + i - 1]
             /\ (IF i + i <= m THEN l[i + i] ELSE l[i + i - 1])
                  = (IF i + i <= p THEN k[i + i] ELSE k[i + i - 1])
  <2>1. ParentHash(l[i + i - 1], IF i + i <= m THEN l[i + i] ELSE l[i + i - 1])
          = ParentHash(k[i + i - 1], IF i + i <= p THEN k[i + i] ELSE k[i + i - 1])
    BY <1>5 DEF IsAbove
  <2> QED BY ONLY <2>1, ParentHashOnce
<1>7. ~(m < p)
  <2> SUFFICES ASSUME m < p PROVE FALSE OBVIOUS
  <2>1. m + 1 = n + n /\ p = n + n /\ n \in 1..n BY <1>5 DEF IsAbove
  <2>2. ~(n + n <= m) /\ n + n <= p BY <2>1
  <2>3. l[n + n - 1] = k[n + n - 1] /\ l[n + n - 1] = k[n + n] BY <1>6, <2>1, <2>2
  <2>4. n + n - 1 \in 1..p /\ n + n \in 1..p BY <2>1, <1>5 DEF IsAbove
  <2>5. n + n - 1 = n + n BY <1>5, <2>3, <2>4 DEF Distinct, IsAbove
  <2> QED BY <2>5
<1>8. \A i \in 1..n : l[i + i - 1] = k[i + i - 1] /\ (i + i <= m /\ i + i <= p => l[i + i] = k[i + i])
  BY <1>6
<1> QED BY <1>1, <1>5, <1>7, <1>8 DEF IsAbove

\* Then that they are equal.
LEMMA ParentsDetermine ==
    ASSUME NEW l, NEW k, Distinct(l), Distinct(k), NextLevel(l) = NextLevel(k)
    PROVE  l = k
<1>1. PICK m \in Nat : m = Len(l) /\ m = Len(k)
  <2>1. PICK m \in Nat, p \in Nat : m = Len(l) /\ p = Len(k) BY DEF Distinct, IsList
  <2>2. ~(m < p) BY <2>1, ParentsCount
  <2>3. ~(p < m) BY <2>1, ParentsCount
  <2> QED BY <2>1, <2>2, <2>3
<1>2. PICK n \in Nat : n = Len(NextLevel(l)) /\ (m + 1 = n + n \/ m = n + n)
  <2>1. IsList(l) /\ Len(l) > 0 BY DEF Distinct
  <2>2. PICK c \in Nat : \E n \in Nat : IsAbove(l, NextLevel(l), c, n) BY ONLY <2>1, ParentCount
  <2>3. PICK n \in Nat : IsAbove(l, NextLevel(l), c, n) BY <2>2
  <2> QED BY <1>1, <2>3 DEF IsAbove
<1>3. \A i \in 1..n : l[i + i - 1] = k[i + i - 1] /\ (i + i <= m => l[i + i] = k[i + i])
  BY <1>1, <1>2, ParentsCount
<1>4. ASSUME NEW x \in 1..m PROVE l[x] = k[x]
  <2>1. PICK h \in Nat : x + 1 = h + h \/ x = h + h
    <3>1. PICK h \in Nat : h = (x + 1) \div 2 /\ (x + 1 = 2 * h \/ x + 1 = 2 * h + 1) BY Halves
    <3>2. x + 1 = h + h \/ x = h + h BY <3>1
    <3> QED BY <3>2
  <2>2. h \in 1..n BY <1>2, <2>1
  <2>3. CASE x + 1 = h + h
    <3>1. x = h + h - 1 BY <2>3
    <3> QED BY <1>3, <2>2, <3>1
  <2>4. CASE x = h + h
    <3>1. h + h <= m BY <2>4
    <3> QED BY <1>3, <2>2, <2>4, <3>1
  <2> QED BY <2>1, <2>3, <2>4
<1>5. l = [x \in 1..m |-> l[x]] /\ k = [x \in 1..m |-> k[x]] BY <1>1 DEF Distinct, IsList
<1> HIDE DEF NextLevel
<1>6. [x \in 1..m |-> l[x]] = [x \in 1..m |-> k[x]] BY <1>4
<1> QED BY <1>5, <1>6


\* The digests of leaves, each once.
IsLeaves(hs) ==
    /\ IsList(hs) /\ \A i, j \in 1..Len(hs) : hs[i] = hs[j] => i = j
    /\ \A i \in 1..Len(hs) : hs[i] # EmptyLeaf /\ \A x, y : hs[i] # ParentHash(x, y)

\* Every level of their tree has distinct nodes; those at the bottom are no parents, those
\* above it are.
LEMMA LevelsDistinct ==
    ASSUME NEW hs, IsLeaves(hs), NEW k \in 0..Len(hs)
    PROVE  /\ Distinct(Levels(hs)[k])
           /\ k = 0 => \A x, y : Levels(hs)[k][1] # ParentHash(x, y)
           /\ k > 0 => /\ Levels(hs)[k] = NextLevel(Levels(hs)[k - 1])
                       /\ \E x, y : Levels(hs)[k][1] = ParentHash(x, y)
<1> DEFINE n == Len(hs)
           a == Levels(hs)
           Bad == {i \in 0..n : ~Distinct(a[i])}
<1>1. n \in Nat BY DEF IsLeaves, IsList
<1>2. a[0] = Bottom(hs) /\ \A i \in 1..n : a[i] = NextLevel(a[i - 1]) BY <1>1, LevelsAre
<1>3. Distinct(Bottom(hs)) /\ \A x, y : Bottom(hs)[1] # ParentHash(x, y)
  <2>1. CASE hs = <<>>
    <3>1. Bottom(hs) = <<EmptyLeaf>> BY <2>1 DEF Bottom
    <3>2. Len(<<EmptyLeaf>>) = 1 /\ <<EmptyLeaf>>[1] = EmptyLeaf
          /\ <<EmptyLeaf>> = [i \in 1..1 |-> <<EmptyLeaf>>[i]]
      OBVIOUS
    <3>3. Distinct(<<EmptyLeaf>>) BY <3>2 DEF Distinct, IsList
    <3>4. \A x, y : EmptyLeaf # ParentHash(x, y) BY KindsDiffer
    <3> QED BY <3>1, <3>2, <3>3, <3>4
  <2>2. CASE hs # <<>>
    <3>1. Bottom(hs) = hs /\ n # 0 BY <2>2 DEF Bottom, IsLeaves, IsList
    <3>2. n > 0 /\ 1 \in 1..n BY <1>1, <3>1
    <3> QED BY <3>1, <3>2 DEF IsLeaves, Distinct
  <2> QED BY <2>1, <2>2
<1>4. Bad = {}
  <2> SUFFICES ASSUME Bad # {} PROVE FALSE OBVIOUS
  <2>1. PICK i \in Bad : \A j \in Bad : i <= j
    <3>1. Bad \in SUBSET Nat BY <1>1
    <3> HIDE DEF Bad
    <3> QED BY <3>1, LeastOf
  <2>2. i \in 0..n /\ ~Distinct(a[i]) BY <2>1
  <2>3. i # 0 BY <1>2, <1>3, <2>2
  <2>4. i - 1 \in 0..n /\ ~(i <= i - 1) /\ i \in 1..n BY <1>1, <2>2, <2>3
  <2>5. Distinct(a[i - 1]) BY <2>1, <2>4
  <2>6. a[i] = NextLevel(a[i - 1]) BY <1>2, <2>4
  <2> HIDE DEF a, n, Bad
  <2>7. Distinct(NextLevel(a[i - 1])) BY <2>5, ParentsDistinct
  <2> QED BY <2>2, <2>6, <2>7
<1>5. ASSUME k > 0
      PROVE  a[k] = NextLevel(a[k - 1]) /\ \E x, y : a[k][1] = ParentHash(x, y)
  <2>1. k \in 1..n /\ k - 1 \in 0..n BY <1>1, <1>5
  <2>2. a[k] = NextLevel(a[k - 1]) /\ Distinct(a[k - 1]) BY <1>2, <1>4, <2>1
  <2> HIDE DEF a, n
  <2> DEFINE l == a[k - 1]
  <2>3. IsList(l) /\ Len(l) > 0 BY <2>2 DEF Distinct
  <2> HIDE DEF l
  <2>4. PICK c \in Nat : \E m \in Nat : IsAbove(l, NextLevel(l), c, m) BY ONLY <2>3, ParentCount
  <2>5. PICK m \in Nat : IsAbove(l, NextLevel(l), c, m) BY <2>4
  <2>6. 1 \in 1..m BY <2>5 DEF IsAbove
  <2>7. PICK x, y : NextLevel(l)[1] = ParentHash(x, y) BY <2>5, <2>6 DEF IsAbove
  <2> QED BY <2>2, <2>7 DEF l
<1>6. Distinct(a[k]) BY <1>4
<1> QED BY <1>2, <1>3, <1>5, <1>6

\* Two trees with the same root agree on every level, counted from the root.
LEMMA SameFromTheRoot ==
    ASSUME NEW f, NEW g, IsLeaves(f), IsLeaves(g),
           NEW s \in Nat, NEW t \in Nat, IsTop(f, s), IsTop(g, t),
           Levels(f)[s][1] = Levels(g)[t][1], NEW j \in Nat, j <= s, j <= t
    PROVE  Levels(f)[s - j] = Levels(g)[t - j]
<1> DEFINE a == Levels(f)
           b == Levels(g)
           Bad == {i \in 0..j : a[s - i] # b[t - i]}
<1>1. s \in 0..Len(f) /\ Len(a[s]) = 1 /\ t \in 0..Len(g) /\ Len(b[t]) = 1 BY DEF IsTop
<1>2. Len(f) \in Nat /\ Len(g) \in Nat BY DEF IsLeaves, IsList
<1>3. a[s] = b[t]
  <2>1. Distinct(a[s]) /\ Distinct(b[t]) BY <1>1, LevelsDistinct
  <2>2. a[s] = [i \in 1..1 |-> a[s][i]] /\ b[t] = [i \in 1..1 |-> b[t][i]]
    BY <1>1, <2>1 DEF Distinct, IsList
  <2>3. a[s][1] = b[t][1] OBVIOUS
  <2> HIDE DEF a, b
  <2> QED BY <2>2, <2>3
<1> SUFFICES ASSUME Bad # {} PROVE FALSE
  <2>1. j \in 0..j OBVIOUS
  <2> QED BY <2>1
<1>4. PICK i \in Bad : \A m \in Bad : i <= m
  <2>1. Bad \in SUBSET Nat OBVIOUS
  <2> HIDE DEF Bad
  <2> QED BY <2>1, LeastOf
<1>5. i \in 0..j /\ a[s - i] # b[t - i] BY <1>4
<1>6. i # 0
  <2>1. s - 0 = s /\ t - 0 = t OBVIOUS
  <2> QED BY <1>3, <1>5, <2>1
<1>7. i - 1 \in 0..j /\ ~(i <= i - 1) BY <1>5, <1>6
<1>8. a[s - (i - 1)] = b[t - (i - 1)] BY <1>4, <1>7
<1>9. PICK u \in Nat, v \in Nat : u = s - (i - 1) /\ v = t - (i - 1) /\ u - 1 = s - i /\ v - 1 = t - i
                                 /\ u > 0 /\ v > 0
  BY <1>5, <1>6, <1>7
<1>10. u \in 0..Len(f) /\ v \in 0..Len(g) /\ u - 1 \in 0..Len(f) /\ v - 1 \in 0..Len(g)
  BY <1>1, <1>2, <1>5, <1>6, <1>9
<1>11. a[u] = b[v] /\ a[u - 1] # b[v - 1] BY <1>5, <1>8, <1>9
<1>12. a[u] = NextLevel(a[u - 1]) /\ Distinct(a[u - 1])
       /\ b[v] = NextLevel(b[v - 1]) /\ Distinct(b[v - 1])
  BY <1>9, <1>10, LevelsDistinct
<1> HIDE DEF a, b
<1>13. NextLevel(a[u - 1]) = NextLevel(b[v - 1]) BY <1>11, <1>12
<1> QED BY <1>11, <1>12, <1>13, ParentsDetermine

\* So neither reaches its leaves before the other.
LEMMA NoDeeper ==
    ASSUME NEW f, NEW g, IsLeaves(f), IsLeaves(g),
           NEW s \in Nat, NEW t \in Nat, IsTop(f, s), IsTop(g, t),
           Levels(f)[s][1] = Levels(g)[t][1]
    PROVE  ~(s < t)
<1> SUFFICES ASSUME s < t PROVE FALSE OBVIOUS
<1>1. PICK d \in Nat : d = t - s /\ d > 0 /\ s - s = 0 /\ s <= s /\ s <= t OBVIOUS
<1>2. Levels(f)[s - s] = Levels(g)[t - s] BY <1>1, SameFromTheRoot
<1>3. Levels(f)[0] = Levels(g)[d] BY <1>1, <1>2
<1>4. 0 \in 0..Len(f) /\ d \in 0..Len(g) BY <1>1 DEF IsTop, IsLeaves, IsList
<1>5. \A x, y : Levels(f)[0][1] # ParentHash(x, y) BY <1>4, LevelsDistinct
<1>6. \E x, y : Levels(g)[d][1] = ParentHash(x, y) BY <1>1, <1>4, LevelsDistinct
<1> QED BY <1>3, <1>5, <1>6

\* The root of leaves.
RootOf(hs) == Last(BuildMerkleLayers(hs))[1]

LEMMA RootGivesLeaves ==
    ASSUME NEW f, NEW g, IsLeaves(f), IsLeaves(g), RootOf(f) = RootOf(g)
    PROVE  f = g
<1>1. PICK s \in Nat : IsTop(f, s) BY TreeEnds DEF IsLeaves
<1>2. PICK t \in Nat : IsTop(g, t) BY TreeEnds DEF IsLeaves
<1>3. Levels(f)[s][1] = Levels(g)[t][1] BY <1>1, <1>2 DEF IsTop, RootOf
<1>4. ~(s < t) /\ ~(t < s) BY <1>1, <1>2, <1>3, NoDeeper
<1>5. s = t /\ s - s = 0 /\ t - s = 0 /\ s <= s /\ s <= t BY <1>4
<1>6. Levels(f)[s - s] = Levels(g)[t - s] BY <1>1, <1>2, <1>3, <1>5, SameFromTheRoot
<1>7. Bottom(f) = Bottom(g)
  <2>1. Levels(f)[0] = Bottom(f) /\ Levels(g)[0] = Bottom(g) BY LevelsAre DEF IsLeaves, IsList
  <2> QED BY <1>5, <1>6, <2>1
<1>8. ASSUME NEW h, IsLeaves(h), h # <<>> PROVE h # <<EmptyLeaf>>
  <2>1. PICK n \in Nat : n = Len(h) /\ n # 0 BY <1>8 DEF IsLeaves, IsList
  <2>2. 1 \in 1..n BY <2>1
  <2>3. h[1] # EmptyLeaf BY <1>8, <2>1, <2>2 DEF IsLeaves
  <2>4. <<EmptyLeaf>>[1] = EmptyLeaf OBVIOUS
  <2> QED BY <2>3, <2>4
<1> QED BY <1>7, <1>8 DEF Bottom

\* The accounts of a store have such leaves.
LEMMA StoreLeaves ==
    ASSUME NEW store, IsStore(store)
    PROVE  IsLeaves(Hashes(store)) /\ ComputeMerkleStateRoot(store) = RootOf(Hashes(store))
<1> DEFINE hs == Hashes(store)
           leaves == LoadSortedLeaves(store)
<1>1. /\ IsList(hs) /\ Len(hs) = Len(leaves) /\ IsInjective(hs)
      /\ \A i \in 1..Len(hs) : hs[i] = LeafHash(leaves[i], store[leaves[i]])
  BY HashesAre
<1> HIDE DEF hs, leaves
<1>2. DOMAIN hs = 1..Len(hs) BY <1>1 DEF IsList
<1>3. \A i, j \in 1..Len(hs) : hs[i] = hs[j] => i = j BY <1>1, <1>2 DEF IsInjective
<1>4. \A i \in 1..Len(hs) : hs[i] # EmptyLeaf /\ \A x, y : hs[i] # ParentHash(x, y)
  BY <1>1, KindsDiffer
<1>5. IsLeaves(hs) BY <1>1, <1>3, <1>4 DEF IsLeaves
<1>6. ComputeMerkleStateRoot(store) = RootOf(Hashes(store))
  BY DEF ComputeMerkleStateRoot, RootOf, Hashes
<1> QED BY <1>5, <1>6 DEF hs

\* What one store holds another with the same root holds too.
LEMMA SameAccounts ==
    ASSUME NEW store, NEW other, IsStore(store), IsStore(other),
           ComputeMerkleStateRoot(store) = ComputeMerkleStateRoot(other), NEW x \in DOMAIN store
    PROVE  x \in DOMAIN other /\ other[x] = store[x]
<1> DEFINE hs == Hashes(store)
           leaves == LoadSortedLeaves(store)
           others == LoadSortedLeaves(other)
<1>1. hs = Hashes(other) BY StoreLeaves, RootGivesLeaves
<1>2. /\ Len(hs) = Len(leaves)
      /\ \A i \in 1..Len(leaves) : hs[i] = LeafHash(leaves[i], store[leaves[i]])
  BY HashesAre
<1>3. /\ Len(hs) = Len(others)
      /\ \A i \in 1..Len(others) :
           others[i] \in DOMAIN other /\ hs[i] = LeafHash(others[i], other[others[i]])
  <2>1. /\ Len(Hashes(other)) = Len(others)
        /\ \A i \in 1..Len(others) :
             others[i] \in DOMAIN other /\ Hashes(other)[i] = LeafHash(others[i], other[others[i]])
    BY HashesAre
  <2> HIDE DEF hs, others
  <2> QED BY <1>1, <2>1
<1>4. DOMAIN leaves = 1..Len(leaves) /\ Range(leaves) = DOMAIN store BY LeavesAre DEF IsStore
<1> HIDE DEF hs, leaves, others
<1>5. PICK i \in 1..Len(leaves) : leaves[i] = x BY <1>4 DEF Range
<1>6. others[i] \in DOMAIN other /\ LeafHash(x, store[x]) = LeafHash(others[i], other[others[i]])
  BY <1>2, <1>3, <1>5
<1>7. store[x] \in Account /\ other[others[i]] \in Account BY <1>6 DEF IsStore
<1>8. x = others[i] /\ store[x] = other[others[i]] BY <1>6, <1>7, LeafDetermines
<1> QED BY <1>6, <1>8

\* A root tells stores apart.
LEMMA RootDeterminesStore ==
    ASSUME NEW store, NEW other, IsStore(store), IsStore(other),
           ComputeMerkleStateRoot(store) = ComputeMerkleStateRoot(other)
    PROVE  store = other
<1>1. \A x \in DOMAIN store : x \in DOMAIN other /\ other[x] = store[x] BY SameAccounts
<1>2. \A x \in DOMAIN other : x \in DOMAIN store /\ store[x] = other[x] BY SameAccounts
<1>3. DOMAIN store = DOMAIN other BY <1>1, <1>2
<1>4. store = [x \in DOMAIN store |-> store[x]] /\ other = [x \in DOMAIN other |-> other[x]]
  BY DEF IsStore
<1>5. [x \in DOMAIN store |-> store[x]] = [x \in DOMAIN store |-> other[x]] BY <1>1
<1> QED BY <1>3, <1>4, <1>5

(***************************************************************************)
(* In whatever state the ledger is, for any number of accounts: two        *)
(* selections of its accounts, or one and the accounts at the start, have  *)
(* the same state root only if they are equal.                             *)
(***************************************************************************)
THEOREM RootDeterminesHolds == Spec => []RootDetermines
<1>1. Solvent => RootDetermines
  <2> SUFFICES ASSUME Solvent PROVE RootDetermines OBVIOUS
  <2> DEFINE all == Stores \cup {StartAccounts}
             roots == {ComputeMerkleStateRoot(store) : store \in all}
             root == [store \in all |-> ComputeMerkleStateRoot(store)]
  <2>1. \A store \in all : IsStore(store)
    <3>1. IsStore(StartAccounts) BY StartType DEF IsStore
    <3> QED BY <3>1, StoresAre
  <2>2. IsFiniteSet(all)
    <3> DEFINE pick == [present \in SUBSET Accounts |-> Restrict(ledger.acc, present)]
    <3>1. pick \in Surjection(SUBSET Accounts, Stores) BY DEF Surjection, Stores
    <3>2. IsFiniteSet(SUBSET Accounts) BY StartType, FS_SUBSET
    <3>3. IsFiniteSet(Stores) BY <3>1, <3>2, FS_Surjection
    <3> QED BY <3>3, FS_AddElement
  <2> HIDE DEF all
  <2>3. root \in Surjection(all, roots)
    <3>1. root \in [all -> roots] OBVIOUS
    <3>2. \A r \in roots : \E store \in all : root[store] = r OBVIOUS
    <3> HIDE DEF root, roots
    <3> QED BY <3>1, <3>2 DEF Surjection
  <2>4. root \in Injection(all, roots)
    <3>1. root \in [all -> roots] OBVIOUS
    <3>2. \A x, y \in all : root[x] = root[y] => x = y
      <4> SUFFICES ASSUME NEW x \in all, NEW y \in all, root[x] = root[y] PROVE x = y OBVIOUS
      <4>1. ComputeMerkleStateRoot(x) = ComputeMerkleStateRoot(y) OBVIOUS
      <4> QED BY <2>1, <4>1, RootDeterminesStore
    <3> HIDE DEF root, roots
    <3> QED BY <3>1, <3>2 DEF Injection, IsInjective
  <2> HIDE DEF root, roots
  <2>5. Cardinality(roots) = Cardinality(all) BY <2>2, <2>3, <2>4, FS_Surjection
  <2> QED BY <2>5 DEF RootDetermines, all, roots
<1> QED BY <1>1, SolventHolds, PTL
=============================================================================
