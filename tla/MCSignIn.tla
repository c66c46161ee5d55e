------------------------------ MODULE MCSignIn ------------------------------
(* Two sessions of one bookmark and two callers. *)
EXTENDS SignIn
==============================================================================
