------------------------------- MODULE GalleryApp --------------------------------
(***************************************************************************)
(* The site's script on a gallery page: the router that sets the gallery   *)
(* up, its comments, its folded pages, the popunder's lock, the upload     *)
(* time and the menu.                                                      *)
(***************************************************************************)
EXTENDS Naturals, Integers, Sequences, SequencesExt

CONSTANTS Heights,       \* heights the thumbnails can have, in the mode they are in
          Fold, Slack,   \* five windows' height, and 600
          Ages,          \* how many seconds ago the comic was uploaded
          MaxVisits,     \* bound: addresses visited in the page, by its fragments
          MaxArms        \* bound: listeners for a click outside the menu

ASSUME AgesAssumption == Ages \subseteq Int

VARIABLES
    path,            \* the form of the page's address
    content,         \* what the comic has: the server's JSON leaves out what is empty
    ready,           \* the document is ready: the application's callbacks have run
    gallery,         \* window.gallery is set
    nearBottom,      \* listeners on scrolling that load the comments
    requests,        \* requests under way, for comments and for the popunder
    headings,        \* "Loading comments..." in #comments
    visits,          \* popstate events so far
    folding,         \* the pages are about to be folded
    maxHeight,       \* of the thumbnails when they are folded, 0 when they are not
    unlocked,        \* the popunder_state in localStorage lets the popunder be asked for
    age, exact,      \* of the upload, and data-exact
    label, shownAt,  \* the text of the time element, how many of each unit, and its age
    menu,            \* #dropdown's menu is open
    arming, armedOut \* listeners for clicks outside: to be added, and added

pageState == <<path, content, ready, gallery, nearBottom, requests, headings, visits>>
fold == <<folding, maxHeight>>
time == <<age, exact, label, shownAt>>
dropdown == <<menu, arming, armedOut>>
app == <<pageState, fold, unlocked, time, dropdown>>

--------------------------------------------------------------------------------
\* RelativeTime.

\* Seconds of a year, a month, a week, a day, an hour, a minute, a second.
Units == <<31536000, 2592000, 604800, 86400, 3600, 60, 1>>
Abs(n) == IF n < 0 THEN -n ELSE n

\* As if the loop were left with the first unit.
UnitAlone(exactly, acc, i) ==
    LET n == IF acc.last THEN 0 ELSE acc.rest \div Units[i] IN
    [rest |-> acc.rest % Units[i], parts |-> [acc.parts EXCEPT ![i] = n],
     last |-> acc.last \/ (n > 0 /\ ~exactly), done |-> acc.done]
\* How often the i-th unit fits; what it fits zero times does not get into the text.  The
\* unit after the first that counts is the last one, unless all are wanted.
Unit(exactly, acc, i) ==
    LET n == acc.rest \div Units[i] IN
    IF acc.done THEN acc
    ELSE [rest |-> acc.rest % Units[i], parts |-> [acc.parts EXCEPT ![i] = n],
          last |-> n > 0 /\ ~exactly, done |-> acc.last]

JustNow == [i \in 1..7 |-> 0]
pretty_delta(seconds, exactly) ==
    LET after[i \in 0..7] ==
            IF i = 0 THEN [rest |-> Abs(seconds), parts |-> JustNow, last |-> FALSE, done |-> FALSE]
            ELSE Unit(exactly, after[i - 1], i)
    IN after[7].parts

\* Updated by its timer: in a second when the text counts seconds, else in a minute.
update_times ==
    /\ ready
    /\ label' = pretty_delta(age, exact) /\ shownAt' = age
    /\ UNCHANGED <<pageState, fold, unlocked, age, exact, dropdown>>

TimePasses(a) ==
    /\ a > age /\ age' = a
    /\ UNCHANGED <<pageState, fold, unlocked, exact, label, shownAt, dropdown>>

--------------------------------------------------------------------------------
\* Requests: a promise calls its callbacks for 200 to 399, else its errbacks.  The
\* server has neither address, so that no callback ever runs, and there are no errbacks.

request(kind, n) == requests' = [requests EXCEPT ![kind] = @ + n]

Rejected(kind) ==
    /\ requests[kind] > 0
    /\ requests' = [requests EXCEPT ![kind] = @ - 1]
    /\ UNCHANGED <<path, content, ready, gallery, nearBottom, headings, visits, fold, unlocked, time, dropdown>>

--------------------------------------------------------------------------------
\* The router, which looks at the address when the page is ready and with every
\* popstate.  The gallery's route sets the gallery up once.  It wants a slash at the end,
\* which a server's redirect may have taken away.

Paths == {"/g/<int:id>/", "/g/<int:id>"}
route == path = "/g/<int:id>/"

\* new Gallery maps what the server sent of its pages and of its tags; where nothing
\* was sent it throws, and the route is left before anything is set up.
pages_from_json == "pages" \in content
tags_from_json == "tags" \in content
Gallery == pages_from_json /\ tags_from_json

\* Gallery.init adds the scroll listener; folding waits for the other listeners.
init == gallery' = TRUE /\ nearBottom' = nearBottom + 1 /\ folding' = TRUE
set_up == IF ~gallery /\ Gallery THEN init ELSE UNCHANGED <<gallery, nearBottom, folding>>

handle_current_url == IF route THEN set_up ELSE UNCHANGED <<gallery, nearBottom, folding>>

\* Popunder.show: a lock of 14 seconds is taken before asking.
get_state == [locked |-> ~unlocked]
update_lock == unlocked' = FALSE
show ==
    IF get_state.locked THEN UNCHANGED <<unlocked, requests>>
    ELSE update_lock /\ request("inventory", 1)

Ready ==
    /\ ~ready /\ ready' = TRUE
    /\ handle_current_url /\ show
    /\ label' = pretty_delta(age, exact) /\ shownAt' = age
    /\ UNCHANGED <<path, content, headings, visits, maxHeight, age, exact, dropdown>>

PopState ==
    /\ ready /\ visits < MaxVisits /\ visits' = visits + 1
    /\ handle_current_url
    /\ UNCHANGED <<path, content, ready, requests, headings, maxHeight, unlocked, time, dropdown>>

\* Time has passed, or the clock has been set back by more than a day.
LockEnds ==
    /\ ~unlocked /\ unlocked' = TRUE
    /\ UNCHANGED <<pageState, fold, time, dropdown>>

\* load_comments by every listener there is; each takes itself away.
ScrollToBottom ==
    /\ nearBottom > 0 /\ nearBottom' = 0
    /\ headings' = headings + nearBottom
    /\ request("comments", nearBottom)
    /\ UNCHANGED <<path, content, ready, gallery, visits, fold, unlocked, time, dropdown>>

--------------------------------------------------------------------------------
\* The pages are folded to five windows; every click shows five more.

FoldPages(height) ==
    /\ folding /\ folding' = FALSE
    /\ maxHeight' = IF height < Fold + Slack THEN 0 ELSE Fold
    /\ UNCHANGED <<pageState, unlocked, time, dropdown>>

ShowMore(height) ==
    /\ maxHeight > 0
    /\ maxHeight' = IF height < maxHeight + Fold THEN 0 ELSE maxHeight + Fold
    /\ UNCHANGED <<pageState, folding, unlocked, time, dropdown>>

ShowAll ==
    /\ maxHeight > 0 /\ maxHeight' = 0
    /\ UNCHANGED <<pageState, folding, unlocked, time, dropdown>>

--------------------------------------------------------------------------------
\* The menu.  Every listener for a click outside serves one click, wherever it goes.

Clicked(opens) ==
    /\ menu' = opens /\ armedOut' = 0
    /\ UNCHANGED <<pageState, fold, unlocked, time>>

ClickDropdown ==
    /\ arming + armedOut < MaxArms
    /\ Clicked(~menu)
    /\ arming' = IF menu THEN arming ELSE arming + 1

Arm ==
    /\ arming > 0 /\ arming' = arming - 1 /\ armedOut' = armedOut + 1
    /\ UNCHANGED <<pageState, fold, unlocked, time, menu>>

ClickMenu == menu /\ Clicked(menu) /\ UNCHANGED arming

\* Each of them toggles: after two quick clicks on the button the menu opens again.
ClickOutside == Clicked(IF armedOut % 2 = 1 THEN ~menu ELSE menu) /\ UNCHANGED arming

--------------------------------------------------------------------------------
AppInit ==
    /\ path \in Paths /\ content \in SUBSET {"pages", "tags"} /\ ready = FALSE
    /\ gallery = FALSE /\ nearBottom = 0 /\ headings = 0 /\ visits = 0
    /\ requests = [kind \in {"comments", "inventory"} |-> 0]
    /\ folding = FALSE /\ maxHeight = 0
    /\ unlocked \in BOOLEAN
    /\ age \in Ages /\ exact \in BOOLEAN /\ label = JustNow /\ shownAt = 0
    /\ menu = FALSE /\ arming = 0 /\ armedOut = 0

AppNext ==
    \/ Ready \/ PopState \/ LockEnds \/ ScrollToBottom \/ ShowAll
    \/ ClickDropdown \/ Arm \/ ClickMenu \/ ClickOutside
    \/ \E kind \in {"comments", "inventory"} : Rejected(kind)
    \/ \E height \in Heights : FoldPages(height) \/ ShowMore(height)
    \/ update_times \/ \E a \in Ages : TimePasses(a)

AppSpec == AppInit /\ [][AppNext]_app
--------------------------------------------------------------------------------

AppTypeOK ==
    /\ path \in Paths /\ content \subseteq {"pages", "tags"} /\ ready \in BOOLEAN /\ gallery \in BOOLEAN
    /\ nearBottom \in Nat /\ headings \in Nat /\ visits \in 0..MaxVisits
    /\ requests \in [{"comments", "inventory"} -> Nat]
    /\ folding \in BOOLEAN /\ maxHeight \in Nat /\ unlocked \in BOOLEAN
    /\ age \in Ages /\ exact \in BOOLEAN /\ shownAt \in Ages \cup {0} /\ label \in [1..7 -> Nat]
    /\ menu \in BOOLEAN /\ arming \in 0..MaxArms /\ armedOut \in 0..MaxArms

\* The text is the age rounded down to the second of its units, or to the second when
\* it is to be exact, and names no smaller unit (pretty_delta).
Told(parts) ==
    parts[1] * Units[1] + parts[2] * Units[2] + parts[3] * Units[3] + parts[4] * Units[4]
        + parts[5] * Units[5] + parts[6] * Units[6] + parts[7] * Units[7]
Named(parts) == {i \in 1..7 : parts[i] > 0}
LastUnit(parts, exactly) ==
    IF exactly \/ Named(parts) = {} THEN 7 ELSE Min({7, Min(Named(parts)) + 1})
LabelFits ==
    LET untold == Abs(shownAt) - Told(label)
        last == LastUnit(label, exact)
    IN untold \in 0..Units[last] - 1 /\ \A i \in Named(label) : i <= last
==================================================================================
