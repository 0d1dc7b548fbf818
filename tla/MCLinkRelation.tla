----------------------------- MODULE MCLinkRelation -----------------------------
(* Instances of LinkRelation: comics that chains are made of. *)
EXTENDS LinkRelation, TLC

\* The properties say nothing of what follows.
Untroubled == trouble = {}

Symmetry == Permutations(CIDs) \cup Permutations(Admins) \cup Permutations(LinkTags \ Unmerged)
================================================================================
