--------------------------------- MODULE Widgets ---------------------------------
(***************************************************************************)
(* Parts of the pages that fetch their content: the recommendations of a   *)
(* gallery page, and the related tags and the like button of a tag page.   *)
(***************************************************************************)
EXTENDS Naturals, FiniteSets

CONSTANTS Sections,     \* data-recommend-type: artist, group, parody, character, tag
          MaxFetches,   \* bound: requests for one section's recommendations at a time
          Likes,        \* the like requests that can be under way together
          Idle          \* no request

VARIABLES
    grid,           \* what each section's grid shows
    fetching,       \* the requests under way for each section
    related,        \* what #related-tags-content shows
    likedTag,       \* the server's answer to whether the tag is liked
    shownLiked,     \* the button has class btn-primary, the tag's link tag-like
    likeAsks        \* the method of each like request under way

recommend == <<grid, fetching>>
tagPage == <<related, likedTag, shownLiked, likeAsks>>
widgets == <<recommend, tagPage>>

\* The page is ready: every section is being loaded.
WidgetsInit ==
    /\ grid = [s \in Sections |-> "skeleton"] /\ fetching = [s \in Sections |-> 1]
    /\ related = "loading"
    /\ likedTag \in BOOLEAN /\ shownLiked = likedTag
    /\ likeAsks = [k \in Likes |-> Idle]

--------------------------------------------------------------------------------
\* recommend.js: all sections are loaded with the page, each again by its button.

\* The button is not disabled: fetches of one section run side by side.
loadRecommendations(s) ==
    /\ fetching[s] < MaxFetches
    /\ grid' = [grid EXCEPT ![s] = "skeleton"]
    /\ fetching' = [fetching EXCEPT ![s] = @ + 1]

Settled(s, what) ==
    /\ fetching[s] > 0
    /\ fetching' = [fetching EXCEPT ![s] = @ - 1]
    /\ grid' = [grid EXCEPT ![s] = what]

\* renderRecommendGrid.  An answer that comes late replaces what a later one showed.
Recommended(s) == \E what \in {"comics", "none"} : Settled(s, what)

\* As if only an answer were reported, not the lack of one.
LoadFailsQuietly(s) ==
    /\ fetching[s] > 0
    /\ fetching' = [fetching EXCEPT ![s] = @ - 1]
    /\ UNCHANGED grid
\* Another status, no JSON, or no answer at all: all end in the catch.
LoadFails(s) == Settled(s, "failed")

--------------------------------------------------------------------------------
\* related-tags.js, tag-actions.js: the tag page's.

\* An answer with tags, by type; none; another status; no JSON; and no answer.
loadRelatedTags ==
    /\ related = "loading"
    /\ related' \in {"groups", "none", "failed", "unreadable", "unreachable"}
    /\ UNCHANGED <<likedTag, shownLiked, likeAsks>>

toggleLikeTag(k) ==
    /\ likeAsks[k] = Idle
    /\ likeAsks' = [likeAsks EXCEPT ![k] = IF shownLiked THEN "DELETE" ELSE "POST"]
    /\ UNCHANGED <<related, likedTag, shownLiked>>

\* The server refuses every DELETE: it reads the form, and Go parses no form in the
\* body of a DELETE.
LikeTagAnswered(k) ==
    /\ likeAsks[k] = "POST"
    /\ likeAsks' = [likeAsks EXCEPT ![k] = Idle]
    /\ likedTag' = TRUE /\ shownLiked' = TRUE
    /\ UNCHANGED related

\* The answer to a POST can also be lost after the server has stored the like.
LikeTagFails(k) ==
    /\ likeAsks[k] # Idle
    /\ likeAsks' = [likeAsks EXCEPT ![k] = Idle]
    /\ likedTag' \in {likedTag, likedTag \/ likeAsks[k] = "POST"}
    /\ UNCHANGED <<related, shownLiked>>

WidgetsNext ==
    \/ /\ \E s \in Sections : loadRecommendations(s) \/ Recommended(s) \/ LoadFails(s)
       /\ UNCHANGED tagPage
    \/ /\ loadRelatedTags
          \/ \E k \in Likes : toggleLikeTag(k) \/ LikeTagAnswered(k) \/ LikeTagFails(k)
       /\ UNCHANGED recommend

WidgetsSpec == WidgetsInit /\ [][WidgetsNext]_widgets
--------------------------------------------------------------------------------

WidgetsTypeOK ==
    /\ grid \in [Sections -> {"skeleton", "comics", "none", "failed"}]
    /\ fetching \in [Sections -> 0..MaxFetches]
    /\ related \in {"loading", "groups", "none", "failed", "unreadable", "unreachable"}
    /\ likedTag \in BOOLEAN /\ shownLiked \in BOOLEAN
    /\ likeAsks \in [Likes -> {"POST", "DELETE", Idle}]

\* A section that shows that it is loading is: whichever of several fetches of it are
\* answered or fail, and in which order, no skeleton stays when none is left
\* (loadRecommendations and its catch).
SkeletonsAreLoading ==
    \A s \in Sections : grid[s] = "skeleton" => fetching[s] > 0

\* A tag page shows no tag as liked that is not, whatever happens to the requests of
\* several clicks (toggleLikeTag).  The other way round a lost answer leaves it wrong.
ShownLikesAreKept == shownLiked => likedTag
==================================================================================
