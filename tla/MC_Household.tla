---------------------------- MODULE MC_Household ----------------------------
(* A house of nine points, in one room that two may share or in two.      *)
EXTENDS Household, TLC

OneRoomOrTwo == {<<9>>, <<6, 3>>}
Symmetric == Permutations(Txs)
=============================================================================
