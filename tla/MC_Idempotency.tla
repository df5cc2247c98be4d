-------------------------- MODULE MC_Idempotency ---------------------------
(* Small instances of Idempotency for TLC. *)
EXTENDS Idempotency, TLC

(* The attempts and bodies are interchangeable; keys too. *)
Symmetric == Permutations(Attempts) \cup Permutations(Keys) \cup Permutations(Bodies)
=============================================================================
