--------------------------------- MODULE Browsing --------------------------------
(***************************************************************************)
(* What the user meets on the other pages, each part by itself: the parts  *)
(* of a page share no state but the messages.  The part watched is chosen  *)
(* with the initial state.                                                 *)
(***************************************************************************)
EXTENDS QuickLink, AdminCompare, SearchBox, Widgets, Thumbnails, Messages, GalleryApp

VARIABLE visit   \* the part that is used

Parts == {"linking", "comparing", "searching", "fetching", "images", "messages", "site"}
vars == <<visit, quick, admin, search, widgets, thumbs, alerts, app>>

\* The state of a part that is not used.
Init ==
    /\ visit \in Parts
    /\ IF visit = "site" THEN AppInit ELSE AppInit /\ age = 0 /\ exact /\ unlocked /\ content = {} /\ ~route
    /\ QuickInit /\ AdminInit /\ SearchInit /\ ThumbsInit
    /\ WidgetsInit /\ (visit = "fetching" \/ likedTag)
    /\ MessagesInit /\ (visit = "messages" \/ onList)

Next ==
    /\ UNCHANGED visit
    /\ \/ visit = "linking" /\ QuickNext /\ UNCHANGED <<admin, search, widgets, thumbs, alerts, app>>
       \/ visit = "comparing" /\ AdminNext /\ UNCHANGED <<quick, search, widgets, thumbs, alerts, app>>
       \/ visit = "searching" /\ SearchNext /\ UNCHANGED <<quick, admin, widgets, thumbs, alerts, app>>
       \/ visit = "fetching" /\ WidgetsNext /\ UNCHANGED <<quick, admin, search, thumbs, alerts, app>>
       \/ visit = "images" /\ ThumbsNext /\ UNCHANGED <<quick, admin, search, widgets, alerts, app>>
       \/ visit = "messages" /\ MessagesNext /\ UNCHANGED <<quick, admin, search, widgets, thumbs, app>>
       \/ visit = "site" /\ AppNext /\ UNCHANGED <<quick, admin, search, widgets, thumbs, alerts>>

Spec == Init /\ [][Next]_vars

TypeOK ==
    /\ visit \in Parts
    /\ QuickTypeOK /\ AdminTypeOK /\ SearchTypeOK /\ WidgetsTypeOK /\ ThumbsTypeOK
    /\ MessagesTypeOK /\ AppTypeOK
==================================================================================
