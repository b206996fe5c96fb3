------------------------------ MODULE MCWriters ------------------------------
(* StoreWriters with two nodes that take turns.                              *)
EXTENDS StoreWriters

CONSTANTS x, y

Turns == <<x, y>>

\* x finds y jailed, or one of them finds x below the minimum stake.
Views == {<<x, y, "jailed">>, <<y, x, "below">>, <<x, x, "below">>}
=============================================================================
