------------------------------ MODULE MCLedger -------------------------------
(* Ledger with two accounts that sign transactions of every type, and three  *)
(* idle ones, which bring the tree of accounts to sizes of up to five.       *)
EXTENDS Merkle, TLC

CONSTANTS a, b, c, d, e

Start == (a :> [Zero EXCEPT !.balance = 3]) @@ (d :> [Zero EXCEPT !.balance = 1])
      @@ [x \in {b, c, e} |-> Zero]

Order == <<c, a, d, b, e>>

Tx(type, from, to, amount, nonce) ==
    [type |-> type, from |-> from, to |-> to, amount |-> amount, nonce |-> nonce]

\* b's claim has nonce 0: it makes b's transfer fresh again.
Signed == {
    Tx("transfer", a, b, 2, 1), Tx("transfer", a, a, 1, 2), Tx("transfer", a, b, 0, 2),
    Tx("transfer", b, a, 1, 1), Tx("stake", a, a, 1, 1), Tx("request_unstake", a, a, 1, 2),
    Tx("claim_unstake", a, a, 1, 3), Tx("claim_mining", a, a, 2, 4), Tx("claim_mining", b, b, 2, 0)}

Seeding == {
    [addr |-> a, balance |-> 2, staked |-> 0, pending |-> 0, mode |-> "overwrite"],
    [addr |-> b, balance |-> 1, staked |-> 1, pending |-> 1, mode |-> "merge_max"],
    [addr |-> b, balance |-> 0, staked |-> 9, pending |-> 9, mode |-> "balance_only"]}
=============================================================================
