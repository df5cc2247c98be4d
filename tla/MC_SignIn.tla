----------------------------- MODULE MC_SignIn -----------------------------
(* A small instance of SignIn for TLC. *)
EXTENDS SignIn
=============================================================================
