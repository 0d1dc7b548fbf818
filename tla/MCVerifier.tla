------------------------------ MODULE MCVerifier ------------------------------
(* Instance of Verifier for TLC. *)
EXTENDS Verifier
===============================================================================
