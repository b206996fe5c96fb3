---------------------------- MODULE MCValidators -----------------------------
(* ValidatorSet with three addresses and two concurrent calls.               *)
EXTENDS ValidatorSet

CONSTANTS u, v, w

Order == <<u, v, w>>
Posted == {{}, {u, v}, {v, w}}
=============================================================================
