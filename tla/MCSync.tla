------------------------------- MODULE MCSync --------------------------------
(* StateSync with a claim on the mining bucket and a transfer of it.         *)
EXTENDS StateSync, TLC

CONSTANTS a, b

Holding(n) == [balance |-> n, staked |-> 0, pending |-> 0, nonce |-> 0]
Start == a :> Holding(1) @@ b :> Holding(0)

Tx(type, from, to, amount, nonce) ==
    [type |-> type, from |-> from, to |-> to, amount |-> amount, nonce |-> nonce]

\* a cannot send 2 before its claim; b has no account before it receives.
Signed == {Tx("claim_mining", a, a, 1, 1), Tx("transfer", a, b, 2, 2)}
=============================================================================
