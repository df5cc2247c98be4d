---------------------------- MODULE MC_MoneyForm ---------------------------
(* Small instances of MoneyForm for TLC. *)
EXTENDS MoneyForm, TLC

(* Attempts, keys and bodies are interchangeable. *)
Symmetric == Permutations(Attempts) \cup Permutations(Keys) \cup Permutations(Bodies)
=============================================================================
