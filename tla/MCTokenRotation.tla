-------------------------- MODULE MCTokenRotation --------------------------
(* Two operators, who are alike, and two regions.                           *)
EXTENDS TokenRotation, TLC

CONSTANTS o1, o2

MCOperators == {o1, o2}
MCRegionList == <<"japaneast", "westus2">>
OperatorsAlike == Permutations(MCOperators)
=============================================================================
