----------------------------- MODULE MC_Realtime ------------------------------
(* Two sockets: one that lingers and one that replaces it; one, for the    *)
(* properties that symmetry would not respect.                             *)
EXTENDS Realtime, TLC

Symmetric == Permutations(Sockets)
=============================================================================
