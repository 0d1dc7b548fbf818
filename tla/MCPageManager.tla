----------------------------- MODULE MCPageManager -----------------------------
(* Instance of PageManager for TLC: a comic of two pages, two comics to insert from. *)
EXTENDS PageManager, TLC

CONSTANTS s1, s2

MCPagesOf == s1 :> {1} @@ s2 :> {2}
=================================================================================
