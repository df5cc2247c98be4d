--------------------------- MODULE MC_HouseLedger --------------------------
(* Small instances of HouseLedger for TLC. *)
EXTENDS HouseLedger
=============================================================================
