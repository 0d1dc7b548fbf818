-------------------------------- MODULE SearchBox --------------------------------
(***************************************************************************)
(* The search box of the navigation bar: a Suggest whose dropdown has two  *)
(* sections, comics and tags, and whose items and form lead to other       *)
(* pages.                                                                  *)
(***************************************************************************)
EXTENDS Naturals, Sequences, SequencesExt

CONSTANTS Queries,   \* texts of two characters and more
          Matches,   \* the comics and the tags the server finds for each, two sequences
          Empty      \* a shorter text: it is not searched

VARIABLES
    typed, timer, asked, list, visible, hot, leaving,   \* Suggest's
    focused,   \* the input has the focus
    went       \* where the page has been left for, "here" if it has not

box == <<typed, timer, asked, list, visible, hot, leaving>>
search == <<box, focused, went>>

\* handleResponse.  Every div of the dropdown is a stop for the arrow keys: a section,
\* its title and its items.
Section(items) == IF items = <<>> THEN <<>> ELSE <<"section", "title">> \o items
Rendered == [q \in Queries |-> Section(Matches[q].comics) \o Section(Matches[q].tags)]

Box == INSTANCE Suggest WITH Results <- Rendered

SearchInit == Box!SuggestInit /\ focused = FALSE /\ went = "here"

Here == went = "here"
Go(target) == went' = target /\ UNCHANGED <<box, focused>>

\* The / key outside inputs, a click, and a pause after the index or the search page
\* has come with an empty input.
Focus == Here /\ focused' = TRUE /\ UNCHANGED <<box, went>>

Blur == Here /\ focused /\ focused' = FALSE /\ Box!BlurInput /\ UNCHANGED went

\* The dropdown is hidden at once, and again after the pause of the blur.
EscapeKey ==
    /\ Here /\ focused
    /\ focused' = FALSE /\ leaving' = TRUE /\ Box!Hidden
    /\ UNCHANGED <<typed, timer, asked, went>>

\* The input's own steps.  An answer shows the list again, whether or not the input
\* has the focus or still holds the query; one that is no JSON is ignored.
Input ==
    /\ Here /\ UNCHANGED <<focused, went>>
    /\ \/ focused /\ \E q \in Queries \cup {Empty} : Box!TypeQuery(q)
       \/ focused /\ (Box!ArrowDown \/ Box!ArrowUp)
       \/ Box!PauseOver \/ Box!HideLater
       \/ \E q \in Queries : Box!ListArrives(q) \/ Box!SearchFails(q)

Leads(item) == IF item \in {"comic", "tag"} THEN item ELSE "here"

ClickOn(i) == Here /\ visible /\ Leads(list[i]) # "here" /\ Go(Leads(list[i]))

\* Enter on a section or a title does nothing; without a highlight the form is sent.
Enter ==
    /\ Here /\ focused
    /\ IF visible /\ hot > 0 THEN Leads(list[hot]) # "here" /\ Go(Leads(list[hot]))
       ELSE Go("search")

SearchNext ==
    \/ Focus \/ Blur \/ EscapeKey \/ Input \/ Enter
    \/ \E i \in DOMAIN list : ClickOn(i)
--------------------------------------------------------------------------------

SearchTypeOK ==
    /\ Box!SuggestTypeOK
    /\ focused \in BOOLEAN /\ went \in {"here", "comic", "tag", "search"}
==================================================================================
