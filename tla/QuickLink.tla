-------------------------------- MODULE QuickLink --------------------------------
(***************************************************************************)
(* Link and compare mode of the index page: cards are clicked to choose a  *)
(* main comic and others, and the choice is posted or taken to the admin   *)
(* page.  A comic that is popular and recent has two cards.                *)
(***************************************************************************)
EXTENDS Naturals, Sequences, SequencesExt, FiniteSets, Filtering

CONSTANTS NCards,    \* cards of the page, numbered in its order
          CidOf,     \* the comic of each card
          Posts,     \* the link requests that can be under way together
          None       \* nothing

ASSUME QuickLinkAssumption == NCards \in Nat /\ DOMAIN CidOf = 1..NCards

Cards == 1..NCards
Cids == {CidOf[c] : c \in Cards}

VARIABLES
    mode, main, subs,    \* state.mode, mainCID, selectedCIDs
    starred, picked,     \* cards with class selected-main, selected-sub
    order,               \* data-order of each card, 0 when it has none
    bound,               \* the cards and their links have the click listeners
    lit,                 \* mode buttons with class active
    acts,                \* the confirm and cancel buttons are displayed
    posts,               \* the requests under way
    newTab,              \* comic_link_target in localStorage, the checkbox
    page                 \* the page shown: index, admin or gallery

selection == <<mode, main, subs>>
marks == <<starred, picked, order, bound, lit, acts>>
quick == <<selection, marks, posts, newTab, page>>

QuickPage ==
    /\ mode = None /\ main = None /\ subs = <<>>
    /\ starred = {} /\ picked = {} /\ order = [c \in Cards |-> 0]
    /\ bound = FALSE /\ lit = {} /\ acts = FALSE

QuickInit ==
    /\ QuickPage
    /\ posts = [k \in Posts |-> None] /\ newTab = TRUE /\ page = "index"

AtIndex == page = "index"

\* updateUI; leaving a mode does not come by it, the whole status is hidden then.
ShownActs(m, mainCID, chosen) == IF m = "link" THEN mainCID # None ELSE Len(chosen) >= 2
updateUI == acts' = ShownActs(mode', main', subs')

\* As if what was chosen in the other mode were taken along.
enterModeKeeps(m) ==
    /\ mode' = m /\ bound' = TRUE /\ lit' = lit \cup {m}
    /\ UNCHANGED <<main, subs>> /\ updateUI
    /\ UNCHANGED <<starred, picked, order, posts, newTab, page>>
\* Cards marked in another mode keep their marks and its button stays lit.
enterMode(m) ==
    /\ mode' = m /\ main' = None /\ subs' = <<>>
    /\ bound' = TRUE /\ lit' = lit \cup {m}
    /\ updateUI
    /\ UNCHANGED <<starred, picked, order, posts, newTab, page>>

exitMode ==
    /\ mode' = None /\ main' = None /\ subs' = <<>>
    /\ starred' = {} /\ picked' = {} /\ bound' = FALSE /\ lit' = {} /\ acts' = FALSE
    /\ UNCHANGED order

--------------------------------------------------------------------------------
\* Clicks on cards.

\* The cards left are numbered again in the order of the page.
Renumbered(left, gone) ==
    [c \in Cards |-> IF c = gone THEN 0
                     ELSE IF c \in left THEN Cardinality({d \in left : d <= c})
                     ELSE order[c]]

Deselect(c) ==
    /\ CidOf[c] \in ToSet(subs)
    /\ subs' = Without(subs, {CidOf[c]})
    /\ picked' = picked \ {c}
    /\ UNCHANGED <<main, starred>>

Select(c) ==
    /\ subs' = Append(subs, CidOf[c])
    /\ picked' = picked \cup {c}
    /\ order' = [order EXCEPT ![c] = Len(subs) + 1]
    /\ UNCHANGED <<main, starred>>

\* As if the others kept their place when the main comic is taken back.
DropMainOnly(c) ==
    /\ CidOf[c] = main
    /\ main' = None /\ starred' = starred \ {c}
    /\ picked' = {} /\ order' = [d \in Cards |-> IF d \in picked THEN 0 ELSE order[d]]
    /\ UNCHANGED subs
DropMain(c) ==
    /\ CidOf[c] = main
    /\ main' = None /\ starred' = starred \ {c}
    /\ subs' = <<>>
    /\ picked' = {} /\ order' = [d \in Cards |-> IF d \in picked THEN 0 ELSE order[d]]

TakeMain(c) ==
    /\ main = None /\ CidOf[c] \notin ToSet(subs)
    /\ main' = CidOf[c] /\ starred' = starred \cup {c}
    /\ UNCHANGED <<subs, picked, order>>

handleLinkClick(c) ==
    \/ DropMain(c)
    \/ CidOf[c] # main /\ Deselect(c) /\ order' = Renumbered(picked \ {c}, c)
    \/ TakeMain(c)
    \/ main # None /\ CidOf[c] \notin ToSet(subs) \cup {main} /\ Select(c)

\* With none left the numbers stay as they are.
handleCompareClick(c) ==
    \/ /\ Deselect(c)
       /\ order' = IF subs' = <<>> THEN [order EXCEPT ![c] = 0] ELSE Renumbered(picked \ {c}, c)
    \/ CidOf[c] \notin ToSet(subs) /\ Select(c)

onCardClick(c) ==
    /\ AtIndex /\ bound /\ UNCHANGED mode
    /\ \/ mode = "link" /\ handleLinkClick(c)
       \/ mode = "compare" /\ handleCompareClick(c)
    /\ updateUI
    /\ UNCHANGED <<bound, lit, posts, newTab, page>>

\* Outside the modes a card's link is followed, whatever the checkbox says: nothing
\* reads what it stores.
FollowLink ==
    /\ AtIndex /\ ~bound
    /\ page' = "gallery"
    /\ UNCHANGED <<selection, marks, posts, newTab>>

--------------------------------------------------------------------------------
\* The mode buttons, their keys, and the buttons of the status.

\* confirm() may be answered no; nothing keeps the user from confirming again.
confirmLinkAction(k) ==
    /\ main # None /\ subs # <<>> /\ posts[k] = None
    /\ posts' = [posts EXCEPT ![k] = [main_cid |-> main, sub_cids |-> subs]]
    /\ UNCHANGED <<selection, marks, newTab, page>>

confirmCompareAction ==
    /\ Len(subs) >= 2
    /\ page' = "admin"
    /\ UNCHANGED <<selection, marks, posts, newTab>>

Leave == exitMode /\ UNCHANGED <<posts, newTab, page>>

toggleLinkMode ==
    /\ AtIndex
    /\ \/ mode = "link" /\ (main # None \/ subs # <<>>) /\ \E k \in Posts : confirmLinkAction(k)
       \/ mode = "link" /\ main = None /\ subs = <<>> /\ Leave
       \/ mode # "link" /\ enterMode("link")

toggleCompareMode ==
    /\ AtIndex
    /\ \/ mode = "compare" /\ subs # <<>> /\ confirmCompareAction
       \/ mode = "compare" /\ subs = <<>> /\ Leave
       \/ mode # "compare" /\ enterMode("compare")

confirmAction ==
    /\ AtIndex /\ acts
    /\ \/ mode = "link" /\ \E k \in Posts : confirmLinkAction(k)
       \/ mode = "compare" /\ confirmCompareAction

cancelAction == AtIndex /\ mode # None /\ Leave     \* Escape as well

\* The page is loaded again, whichever mode the user is in by now.
LinkSucceeds(k) ==
    /\ AtIndex /\ posts[k] # None
    /\ mode' = None /\ main' = None /\ subs' = <<>>
    /\ starred' = {} /\ picked' = {} /\ order' = [c \in Cards |-> 0]
    /\ bound' = FALSE /\ lit' = {} /\ acts' = FALSE
    /\ posts' = [j \in Posts |-> None]
    /\ UNCHANGED <<newTab, page>>

LinkFails(k) ==
    /\ AtIndex /\ posts[k] # None
    /\ posts' = [posts EXCEPT ![k] = None]
    /\ UNCHANGED <<selection, marks, newTab, page>>

\* init's checkbox, kept in localStorage.
SetTarget ==
    /\ AtIndex /\ newTab' = ~newTab
    /\ UNCHANGED <<selection, marks, posts, page>>

QuickNext ==
    \/ \E c \in Cards : onCardClick(c)
    \/ toggleLinkMode \/ toggleCompareMode \/ confirmAction \/ cancelAction \/ FollowLink
    \/ \E k \in Posts : LinkSucceeds(k) \/ LinkFails(k)
    \/ SetTarget

QuickSpec == QuickInit /\ [][QuickNext]_quick
--------------------------------------------------------------------------------

QuickTypeOK ==
    /\ mode \in {None, "link", "compare"} /\ main \in Cids \cup {None} /\ subs \in Seq(Cids)
    /\ starred \subseteq Cards /\ picked \subseteq Cards /\ order \in [Cards -> Nat]
    /\ bound \in BOOLEAN /\ lit \subseteq {"link", "compare"} /\ acts \in BOOLEAN
    /\ posts \in [Posts -> [main_cid : Cids, sub_cids : Seq(Cids)] \cup {None}]
    /\ newTab \in BOOLEAN
    /\ page \in {"index", "admin", "gallery"}

\* Nothing is chosen unseen: some card of every comic chosen carries its mark, through
\* all clicks on either card of a comic and changes of mode, although those leave marks
\* behind (onCardClick, enterMode, exitMode).
ChoiceIsMarked ==
    /\ main # None => \E c \in starred : CidOf[c] = main
    /\ \A cid \in ToSet(subs) : \E c \in picked : CidOf[c] = cid

\* A link request is one the server accepts whole: no comic twice, and none linked to
\* itself, for which LinkComics refuses the request (handleLinkClick, confirmLinkAction).
LinksAreSound ==
    \A k \in Posts : posts[k] # None =>
        /\ IsInjective(posts[k].sub_cids) /\ posts[k].sub_cids # <<>>
        /\ posts[k].main_cid \notin ToSet(posts[k].sub_cids)
==================================================================================
