------------------------------- MODULE MCBrowsing --------------------------------
(* Instance of Browsing for TLC. *)
EXTENDS Browsing, TLC

CONSTANTS q1, q2, q3

Symmetry == Permutations(Asks) \cup Permutations(Overlays)

MCCidOf == <<1, 2, 1>>
MCDiffering == [p \in Comics \X Comics |->
    CASE p = <<1, 2>> -> <<"p1", "p2">> [] p = <<1, 3>> -> <<"p3">> [] OTHER -> <<>>]
MCTagsOf == <<<<"a", "b">>, <<"b", "c">>, <<>>>>
MCUrl == <<1, 2, 3>>
MCMatches == [q \in {q1, q2, q3} |->
    CASE q = q1 -> [comics |-> <<"comic">>, tags |-> <<"tag">>]
      [] q = q2 -> [comics |-> <<>>, tags |-> <<"tag", "tag">>]
      [] OTHER -> [comics |-> <<>>, tags |-> <<>>]]
MCAges == {-61, 0, 59, 3605, 90061}

\* Filtering states by places what SelectSeq computes.
ASSUME WithoutSelects ==
    \A n \in 0..4 : \A s \in [1..n -> 1..3] : \A X \in SUBSET (1..3) :
        Without(s, X) = SelectSeq(s, LAMBDA e : e \notin X)
==================================================================================
