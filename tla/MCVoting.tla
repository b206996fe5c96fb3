------------------------------ MODULE MCVoting -------------------------------
(* BFTVoting on four validators, one of which is faulty.                     *)
EXTENDS BFTVoting, TLC

Symmetry == Permutations(Honest) \cup Permutations(Blocks)
=============================================================================
