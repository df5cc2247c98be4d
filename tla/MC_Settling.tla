----------------------------- MODULE MC_Settling ------------------------------
(* Five cents among three, or seven tenths and three for two.              *)
EXTENDS Settling, TLC

Entered == {[mode |-> "equal", total |-> 5, payer |-> 1, given |-> [u \in 1..3 |-> 0]]}
Edited == {[mode |-> "percent", total |-> 5, payer |-> 2, given |-> (2 :> 7 @@ 3 :> 3)],
           [mode |-> "exact", total |-> 4, payer |-> 2, given |-> (1 :> 1 @@ 2 :> 2)]}
Paid == {[from |-> 1, to |-> 2, cents |-> 2], [from |-> 1, to |-> 3, cents |-> 2]}
Symmetric == Permutations(Txs)
=============================================================================
