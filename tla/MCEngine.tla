------------------------------ MODULE MCEngine -------------------------------
(* BFTEngine on two validators.                                              *)
EXTENDS BFTEngine, TLC

CONSTANTS a, b

RosterAB == <<a, b>>

\* Outsiders name round 1, at the first height or at the second.
OutsideFirst == {<<1, 1>>}
OutsideSecond == {<<2, 1>>}
=============================================================================
