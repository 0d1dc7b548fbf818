--------------------------------- MODULE Suggest ---------------------------------
(***************************************************************************)
(* A search box with suggestions, as in the tag editor and the relation    *)
(* manager: what is typed is searched after a pause, answers come in any   *)
(* order and each replaces the list, the arrow keys move a highlight.      *)
(***************************************************************************)
EXTENDS Naturals, Sequences

CONSTANTS Queries,   \* what can be typed, besides nothing
          Results,   \* the tags the server finds for each query, a sequence
          Empty      \* nothing typed

VARIABLES
    typed,     \* the text in the input
    timer,     \* the query that waits for the pause to end
    asked,     \* queries whose answer is outstanding
    list,      \* the items of the dropdown
    visible,   \* whether it is displayed
    hot,       \* the item with the class keyboard-selected, 0 for none
    leaving    \* the input lost the focus less than 150 ms ago

suggest == <<typed, timer, asked, list, visible, hot, leaving>>

SuggestInit ==
    /\ typed = Empty /\ timer = Empty /\ asked = {}
    /\ list = <<>> /\ visible = FALSE /\ hot = 0
    /\ leaving = FALSE

Hidden == list' = <<>> /\ visible' = FALSE /\ hot' = 0

\* Typing starts the pause again; an emptied input hides the list.  The editor's input
\* does the same with its text when it gets the focus.
TypeQuery(q) ==
    /\ typed' = q /\ timer' = q
    /\ IF q = Empty THEN Hidden ELSE UNCHANGED <<list, visible, hot>>
    /\ UNCHANGED <<asked, leaving>>

PauseOver ==
    /\ timer # Empty /\ timer' = Empty
    /\ asked' = asked \cup {timer}
    /\ UNCHANGED <<typed, list, visible, hot, leaving>>

RenderList(q) == list' = Results[q] /\ visible' = (Results[q] # <<>>) /\ hot' = 0

\* renderAutocomplete, relRenderDropdown: whatever has been typed or picked since.
ListArrives(q) ==
    /\ q \in asked /\ asked' = asked \ {q}
    /\ RenderList(q)
    /\ UNCHANGED <<typed, timer, leaving>>

SearchFails(q) ==
    /\ q \in asked /\ asked' = asked \ {q}
    /\ UNCHANGED <<typed, timer, list, visible, hot, leaving>>

BlurInput ==
    /\ leaving' = TRUE
    /\ UNCHANGED <<typed, timer, asked, list, visible, hot>>

HideLater ==
    /\ leaving /\ leaving' = FALSE /\ Hidden
    /\ UNCHANGED <<typed, timer, asked>>

\* bindAutocompleteKeys: from no highlight, down goes to the first item and up to the
\* last but one, or to the only one.
Down(i, n) == IF i = n THEN 1 ELSE i + 1
Up(i, n) == ((i + n - 2) % n) + 1

MoveHot(move) ==
    /\ visible
    /\ hot' = move
    /\ UNCHANGED <<typed, timer, asked, list, visible, leaving>>
ArrowDown == MoveHot(Down(hot, Len(list)))
ArrowUp == MoveHot(IF hot = 0 THEN (IF Len(list) = 1 THEN 1 ELSE Len(list) - 1) ELSE Up(hot, Len(list)))

\* The items stay in the hidden list.
HideList ==
    /\ visible /\ visible' = FALSE
    /\ UNCHANGED <<typed, timer, asked, list, hot, leaving>>

\* What is done with the item is AddTag's and PickChip's business.
Pick == typed' = Empty /\ Hidden /\ UNCHANGED <<timer, asked, leaving>>

ClickItem == visible /\ Pick
\* Enter picks the highlighted item of a visible list, the first item of a hidden one.
EnterKey == \/ visible /\ hot > 0 /\ Pick
            \/ ~visible /\ list # <<>> /\ Pick

SuggestNext ==
    \/ \E q \in Queries \cup {Empty} : TypeQuery(q)
    \/ PauseOver \/ BlurInput \/ HideLater \/ ArrowDown \/ ArrowUp \/ HideList
    \/ ClickItem \/ EnterKey
    \/ \E q \in Queries : ListArrives(q) \/ SearchFails(q)
--------------------------------------------------------------------------------

SuggestTypeOK ==
    /\ typed \in Queries \cup {Empty} /\ timer \in Queries \cup {Empty}
    /\ asked \subseteq Queries /\ visible \in BOOLEAN /\ leaving \in BOOLEAN
    /\ list \in {<<>>} \cup {Results[q] : q \in Queries} /\ hot \in Nat

\* The highlight is on an item of the list on display, however late the answers come
\* that replace it: Enter never acts on an item that is not there (bindAutocompleteKeys,
\* renderAutocomplete).
HighlightIsOnTheList ==
    /\ visible => list # <<>>
    /\ hot \in 0..Len(list)
==================================================================================
