-------------------------------- MODULE Filtering --------------------------------
(***************************************************************************)
(* Array.prototype.filter, as the scripts of the browser use it and as the *)
(* server's loops over slices do: what stays of a list when some elements  *)
(* are taken out.  Stated by places instead of by recursion, so that       *)
(* theorems can be proved about the modules that use it.                   *)
(***************************************************************************)
EXTENDS Naturals, Sequences, FiniteSets

\* The places of s whose elements are not in X, and how many of them are at most i.
Places(s, X) == {i \in DOMAIN s : s[i] \notin X}
UpTo(L, i) == {j \in L : j <= i}

\* The n-th of the places L.
Nth(L, n) == CHOOSE i \in L : Cardinality(UpTo(L, i)) = n

\* s without the elements of X, in the order they had.
Without(s, X) ==
    [n \in 1..Cardinality(Places(s, X)) |-> s[Nth(Places(s, X), n)]]
==================================================================================
