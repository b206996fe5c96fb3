----------------------------- MODULE MCPipeline ------------------------------
(* TxPipeline with one client and transfers between two accounts.            *)
EXTENDS TxPipeline

CONSTANTS a, b

Holding(n) == [balance |-> n, staked |-> 0, pending |-> 0, nonce |-> 0]
Start == a :> Holding(1) @@ b :> Holding(1)

Tx(from, to, amount, nonce) ==
    [type |-> "transfer", from |-> from, to |-> to, amount |-> amount, nonce |-> nonce]

\* b's transfer is not funded before a's first one; one has nonce 0.
Signed == {Tx(a, b, 1, 1), Tx(a, b, 1, 2), Tx(b, a, 2, 1), Tx(a, b, 1, 0)}
=============================================================================
