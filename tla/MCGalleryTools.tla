----------------------------- MODULE MCGalleryTools ------------------------------
(* Instances of TagDialogs and PageManager for TLC.  The tag tools and the page     *)
(* manager share no state, so that one run follows the one or the other.            *)
EXTENDS TagDialogs, PageManager, TLC

CONSTANTS c1, c2, q1, q2, p1, p2

VARIABLE managing   \* the page manager is used, not a tag tool

ToolsInit ==
    /\ managing \in BOOLEAN /\ Init /\ PagesInit
    /\ managing => visit = "search"

ToolsNext ==
    /\ UNCHANGED managing
    /\ \/ ~managing /\ Next /\ UNCHANGED pagesVars
       \/ managing /\ PagesNext /\ UNCHANGED vars

ToolsSpec == ToolsInit /\ [][ToolsNext]_<<managing, vars, pagesVars>>

Symmetry == Permutations(Dialogs \ {Spare}) \cup Permutations(GroupIds)

MCFound == {[id |-> 1, name |-> "a"], [id |-> 2, name |-> "b"]}
MCNames == {"b"}
MCTyped == {"b", "c"}
MCSource == [id |-> 1, name |-> "a"]
MCComics == <<c1, c2>>
MCResults == [q \in {q1, q2} |-> IF q = q1 THEN <<"a", "b">> ELSE <<"b">>]

\* A comic of two pages, and two comics to insert from.
MCPagesOf == p1 :> {1} @@ p2 :> {2}
==================================================================================
