------------------------------- MODULE Ledger --------------------------------
(***************************************************************************)
(* The account ledger of one node: Store.ApplyTx of internal/state/        *)
(* state.go, with the mining bucket it mints from, and the checks of       *)
(* internal/tx and internal/mempool that decide which transactions reach   *)
(* it, and SeedAccount, with which an operator sets an account.  Each of   *)
(* the two is one Badger transaction, hence one step.                      *)
(*                                                                         *)
(* A transaction that is signed and decodes is a record; signatures,       *)
(* timestamps and the case of an address are left out, and so is the       *)
(* width of int64: ValidateBasic caps a claim at a million EAST, so that   *)
(* its conversion to subunits stays far below 2^63.                        *)
(***************************************************************************)
EXTENDS Integers, FiniteSets, FiniteSetsExt

CONSTANTS
    Accounts,       \* addresses
    Txs,            \* the transactions clients may sign
    StartAccounts,  \* the accounts the store begins with
    MiningCap,      \* Cap of the "mining" bucket, in EAST
    Unit,           \* SubunitsPerEAST
    Seeds,          \* what operators may post to /admin/seed
    MaxApplied      \* bound: how often one transaction may be applied

VARIABLES
    ledger,  \* [acc : the accounts, minted : Minted of the mining bucket]
    times,   \* history: how often each transaction was applied
    seeded   \* history: what seeding has added to the holdings

TxTypes == {"transfer", "stake", "request_unstake", "claim_unstake", "claim_mining"}
Transaction == [type : TxTypes, from : Accounts, to : Accounts,
                amount : Nat, nonce : Nat]
Account == [balance : Nat, staked : Nat, pending : Nat, nonce : Nat]
SeedRequest == [addr : Accounts, balance : Nat, staked : Nat, pending : Nat,
                mode : {"overwrite", "merge_max", "balance_only"}]

ASSUME TxsType == IsFiniteSet(Txs) /\ Txs \subseteq Transaction
ASSUME StartType == IsFiniteSet(Accounts) /\ StartAccounts \in [Accounts -> Account]
ASSUME SeedsType == Seeds \subseteq SeedRequest
ASSUME LedgerBounds == MiningCap \in Nat /\ Unit \in Nat \ {0} /\ MaxApplied \in Nat

SelfTransfer(t) == t.type = "transfer" /\ t.from = t.to

\* ValidateBasic of a decoded transaction with a valid signature.
ValidateBasic(t) == t.amount > 0

\* A nonce is rejected only when it lies below the account's.
NonceFreshLoose(L, t) == ~(t.nonce > 0 /\ t.nonce < L.acc[t.from].nonce)

\* ApplyTx's nonce check, which lets nonce 0 through.
NonceFresh(L, t) == ~(t.nonce > 0 /\ t.nonce <= L.acc[t.from].nonce)

\* The bucket may be overdrawn by one claim.
BucketHasRoomBefore(L, t) == L.minted <= MiningCap

\* mintFromBucketTxn accepts the amount.
BucketHasRoom(L, t) == t.amount > 0 /\ L.minted + t.amount <= MiningCap

\* The balance checks that ApplyTx and CheckTx share.
Funded(L, t) ==
    LET from == L.acc[t.from] IN
    CASE t.type \in {"transfer", "stake"} -> from.balance >= t.amount
      [] t.type = "request_unstake"       -> from.staked >= t.amount
      [] t.type = "claim_unstake"         -> from.pending >= t.amount
      [] t.type = "claim_mining"          -> BucketHasRoom(L, t)

CanApply(L, t) == NonceFresh(L, t) /\ Funded(L, t)

\* The recipient's account is read before the sender's is written, and written last.
Transfer(acc, t) ==
    LET from == acc[t.from] to == acc[t.to] IN
    [acc EXCEPT ![t.from] = [from EXCEPT !.balance = from.balance - t.amount, !.nonce = t.nonce],
                ![t.to] = [to EXCEPT !.balance = to.balance + t.amount]]

Stake(acc, t) ==
    LET from == acc[t.from] IN
    [acc EXCEPT ![t.from] =
        [from EXCEPT !.balance = from.balance - t.amount,
                     !.staked = from.staked + t.amount, !.nonce = t.nonce]]

RequestUnstake(acc, t) ==
    LET from == acc[t.from] IN
    [acc EXCEPT ![t.from] =
        [from EXCEPT !.staked = from.staked - t.amount,
                     !.pending = from.pending + t.amount, !.nonce = t.nonce]]

\* The claim is paid out and stays pending.
ClaimUnstakeKeepsPending(acc, t) ==
    LET from == acc[t.from] IN
    [acc EXCEPT ![t.from] =
        [from EXCEPT !.balance = from.balance + t.amount, !.nonce = t.nonce]]

ClaimUnstake(acc, t) ==
    LET from == acc[t.from] IN
    [acc EXCEPT ![t.from] =
        [from EXCEPT !.pending = from.pending - t.amount,
                     !.balance = from.balance + t.amount, !.nonce = t.nonce]]

ClaimMining(acc, t) ==
    LET from == acc[t.from] IN
    [acc EXCEPT ![t.from] =
        [from EXCEPT !.balance = from.balance + t.amount * Unit, !.nonce = t.nonce]]

\* The ledger after a successful ApplyTx.
ApplyTx(L, t) ==
    CASE t.type = "transfer"        -> [L EXCEPT !.acc = Transfer(@, t)]
      [] t.type = "stake"           -> [L EXCEPT !.acc = Stake(@, t)]
      [] t.type = "request_unstake" -> [L EXCEPT !.acc = RequestUnstake(@, t)]
      [] t.type = "claim_unstake"   -> [L EXCEPT !.acc = ClaimUnstake(@, t)]
      [] t.type = "claim_mining"    -> [L EXCEPT !.acc = ClaimMining(@, t),
                                                 !.minted = @ + t.amount]

\* CheckTx without its own nonce rule: what ApplyTx checks, and no more.
CheckTxAsApply(L, t) == ValidateBasic(t) /\ NonceFresh(L, t) /\ Funded(L, t)

\* Mempool.CheckTx: nonce 0 is refused here.
CheckTx(L, t) == ValidateBasic(t) /\ t.nonce > L.acc[t.from].nonce /\ Funded(L, t)

Larger(x, y) == IF x > y THEN x ELSE y

\* The account is written anew, nonce included.
SeededAccountAnew(acc, s) ==
    IF s.mode = "overwrite"
    THEN [balance |-> s.balance, staked |-> s.staked, pending |-> s.pending, nonce |-> 0]
    ELSE [acc EXCEPT !.balance = s.balance]

\* What SeedAccount makes of an account.
SeededAccount(acc, s) ==
    CASE s.mode = "balance_only" -> [acc EXCEPT !.balance = s.balance]
      [] s.mode = "merge_max"    -> [acc EXCEPT !.balance = Larger(@, s.balance),
                                                !.staked = Larger(@, s.staked),
                                                !.pending = Larger(@, s.pending)]
      [] s.mode = "overwrite"    -> [acc EXCEPT !.balance = s.balance, !.staked = s.staked,
                                                !.pending = s.pending]

Held(acc) == acc.balance + acc.staked + acc.pending
-----------------------------------------------------------------------------
StartLedger == [acc |-> StartAccounts, minted |-> 0]

Init == ledger = StartLedger /\ times = [t \in Txs |-> 0] /\ seeded = 0

\* ApplyTx behind ValidateBasic, as the gossip check and handleSubmitTx without a pool
\* call it: nonce 0 is not kept out.
Apply(t) ==
    /\ ValidateBasic(t) /\ CanApply(ledger, t) /\ times[t] < MaxApplied
    /\ ledger' = ApplyTx(ledger, t)
    /\ times' = [times EXCEPT ![t] = @ + 1]
    /\ UNCHANGED seeded

\* handleSeed.
SeedAccount(s) ==
    LET new == SeededAccount(ledger.acc[s.addr], s) IN
    /\ ledger' = [ledger EXCEPT !.acc[s.addr] = new]
    /\ seeded' = seeded + Held(new) - Held(ledger.acc[s.addr])
    /\ UNCHANGED times

vars == <<ledger, times, seeded>>
Next == (\E t \in Txs : Apply(t)) \/ (\E s \in Seeds : SeedAccount(s))
Spec == Init /\ [][Next]_vars

\* A transaction that passed CheckTx in some mempool is applied: its nonce is not 0.
ApplyAdmitted(t) == t.nonce > 0 /\ Apply(t)

AdmittedNext == (\E t \in Txs : ApplyAdmitted(t)) \/ (\E s \in Seeds : SeedAccount(s))
AdmittedSpec == Init /\ [][AdmittedNext]_vars
-----------------------------------------------------------------------------
(***************************************************************************)
(* No balance, stake or pending unstake ever drops below zero, and the     *)
(* mining bucket is never overdrawn, whatever order transactions of        *)
(* several senders are applied in and whatever is seeded in between.       *)
(***************************************************************************)
Solvent == ledger \in [acc : [Accounts -> Account], minted : 0..MiningCap]

\* An applied nonce 0 has set the account's nonce back to 0.
NonceReset(a) == \E t \in Txs :
    t.from = a /\ t.nonce = 0 /\ ~SelfTransfer(t) /\ times[t] > 0

(***************************************************************************)
(* ApplyTx applies a transaction at most once in whatever order blocks     *)
(* bring transactions, and although seeding may refill the sender's        *)
(* account.  There are two exceptions.  A transfer to oneself writes the   *)
(* account as read before the debit, nonce included.  And a nonce of 0     *)
(* passes ApplyTx's check any number of times and is then written to the   *)
(* account, so that all of its sender's used nonces are fresh again.       *)
(***************************************************************************)
AppliedOnce == \A t \in Txs : ~SelfTransfer(t) /\ ~NonceReset(t.from) => times[t] <= 1

(***************************************************************************)
(* What makes AppliedOnce inductive, with the same two exceptions: an      *)
(* applied transaction's nonce is used up, whatever ApplyTx and            *)
(* SeedAccount do to the sender's account afterwards.                      *)
(***************************************************************************)
NoncesUsed == \A t \in Txs :
    ~SelfTransfer(t) /\ ~NonceReset(t.from) /\ times[t] > 0
        => t.nonce <= ledger.acc[t.from].nonce

(***************************************************************************)
(* What CheckTx's comment says of ApplyTx, that "nonce == 0 must NOT       *)
(* bypass this check": no transaction is applied again, nonce 0 included.  *)
(* ApplyTx alone does not keep this; behind CheckTx it holds.              *)
(***************************************************************************)
NoReplay == \A t \in Txs : ~SelfTransfer(t) => times[t] <= 1

SumOf(f, S) == MapThenSumSet(LAMBDA x : f[x], S)
Holdings(acc) == SumOf([a \in Accounts |-> Held(acc[a])], Accounts)
SelfTransfers == {t \in Txs : SelfTransfer(t)}
SelfTransferred == SumOf([t \in SelfTransfers |-> times[t] * t.amount], SelfTransfers)

(***************************************************************************)
(* All that is held was there at the start, was seeded, was minted from    *)
(* the bucket or came from a transfer to oneself: ApplyTx creates or       *)
(* destroys nothing else, across the unit change of claim_mining and the   *)
(* stages of unstaking.                                                    *)
(***************************************************************************)
SupplyAccounted ==
    Holdings(ledger.acc)
        = Holdings(StartAccounts) + seeded + Unit * ledger.minted + SelfTransferred
=============================================================================
