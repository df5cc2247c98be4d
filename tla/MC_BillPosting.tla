--------------------------- MODULE MC_BillPosting --------------------------
(* Small instances of BillPosting for TLC. *)
EXTENDS BillPosting

Uneven  == [b \in Bills |-> {0, 2, 3, 5}]
EachOwn == [b \in Bills |-> IF b = 1 THEN {0, 1, 3} ELSE {1, 4}]
=============================================================================
