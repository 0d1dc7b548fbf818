------------------------------ MODULE BrowsingProofs -----------------------------
(***************************************************************************)
(* What holds of the parts of the pages for every number of images, cards, *)
(* messages, sections and requests, and of linked comics for every number  *)
(* of comics, of requests under way and of pages being viewed.             *)
(***************************************************************************)
EXTENDS Browsing, LinkRelation, FilteringTheorems, TLAPS

--------------------------------------------------------------------------------
(* The images of a gallery page.                                           *)

Kind == IF large THEN "original" ELSE "thumb"

\* In large mode every image remembers its thumbnail, which it goes back to.
ImagesInv ==
    /\ large \in BOOLEAN
    /\ ImagesMatchMode
    /\ dataSrc = [i \in Images |-> Kind]
    /\ DOMAIN src = Images
    /\ thumbSrc \in [Images -> {"", "thumb"}]
    /\ large => thumbSrc = [i \in Images |-> "thumb"]

LEMMA ImagesStart == ThumbsInit => ImagesInv
BY DEF ThumbsInit, ImagesInv, ImagesMatchMode, Placeholders, Kind

LEMMA EnterStep ==
    ASSUME ImagesInv, ~large, EnterLarge
    PROVE  ImagesInv'
BY DEF ImagesInv, ImagesMatchMode, EnterLarge, Loaded, Placeholders, Kind

LEMMA ExitStep ==
    ASSUME ImagesInv, large, ExitLarge
    PROVE  ImagesInv'
BY DEF ImagesInv, ImagesMatchMode, ExitLarge, Loaded, Placeholders, Kind

\* Large mode is entered once by initGalleryPage, and then by the user only.
ImagesIInv == ImagesInv /\ (large => initialised)

LEMMA ImagesStep ==
    ASSUME ImagesIInv, [ThumbsNext]_thumbs
    PROVE  ImagesIInv'
<1> USE DEF ImagesIInv
<1>1. CASE UNCHANGED <<large, dataSrc, thumbSrc, src, initialised>>
    BY <1>1 DEF ImagesInv, ImagesMatchMode, Placeholders, Kind
<1>2. CASE toggleLargeMode
    BY <1>2, EnterStep, ExitStep DEF toggleLargeMode
<1>3. CASE Initialise
    <2>1. CASE storedMode = "true"
        BY <1>3, <2>1, EnterStep DEF Initialise, initLargeModeToggle
    <2>2. CASE storedMode # "true"
        BY <1>3, <2>2 DEF Initialise, initLargeModeToggle, ImagesInv, ImagesMatchMode, Placeholders, Kind
    <2> QED  BY <2>1, <2>2
<1>4. CASE install_lazy_loader
    BY <1>4 DEF install_lazy_loader, start, stored, ImagesInv, ImagesMatchMode, Placeholders, Kind
<1>5. ASSUME NEW i \in Images, Near(i)
      PROVE  ImagesIInv'
    BY <1>5 DEF Near, handle_image_loaded, stored, ImagesInv, ImagesMatchMode, Placeholders, Kind
<1>6. CASE Reload
    BY <1>6 DEF Reload, ImagesInv, ImagesMatchMode, Placeholders, Kind
<1>7. CASE ZoomIn \/ ZoomOut \/ ZoomTo \/ toggleMobileZoom \/ UNCHANGED thumbs
    BY <1>7, <1>1 DEF ZoomIn, ZoomOut, ZoomTo, Zoom, toggleMobileZoom, thumbs, served
<1> QED  BY <1>2, <1>3, <1>4, <1>5, <1>6, <1>7 DEF ThumbsNext

\* Every page of a gallery shows the kind of image of the mode it is in, and what is
\* loaded later is of that kind too (toggleLargeMode, handle_image_loaded).
THEOREM ImagesCorrect == Spec => []ImagesMatchMode
<1>1. Init => ImagesIInv
    BY ImagesStart DEF Init, ImagesIInv, ThumbsInit
<1>2. ImagesIInv /\ [Next]_vars => ImagesIInv'
    BY ImagesStep DEF Next, vars
<1>3. ImagesIInv => ImagesMatchMode
    BY DEF ImagesIInv, ImagesInv
<1> QED  BY <1>1, <1>2, <1>3, PTL DEF Spec

--------------------------------------------------------------------------------
(* What is fetched for a page.                                             *)

FetchingInv ==
    /\ DOMAIN grid = Sections
    /\ fetching \in [Sections -> Nat]
    /\ SkeletonsAreLoading

LEMMA SettledStep ==
    ASSUME FetchingInv, NEW s \in Sections, NEW what, what # "skeleton", Settled(s, what)
    PROVE  FetchingInv'
BY DEF FetchingInv, SkeletonsAreLoading, Settled

LEMMA FetchingStep ==
    ASSUME FetchingInv, [WidgetsNext]_widgets
    PROVE  FetchingInv'
<1>1. CASE UNCHANGED recommend
    BY <1>1 DEF recommend, FetchingInv, SkeletonsAreLoading
<1>2. ASSUME NEW s \in Sections, loadRecommendations(s)
      PROVE  FetchingInv'
    BY <1>2 DEF loadRecommendations, FetchingInv, SkeletonsAreLoading
<1>3. ASSUME NEW s \in Sections, Recommended(s) \/ LoadFails(s)
      PROVE  FetchingInv'
    BY <1>3, SettledStep DEF Recommended, LoadFails
<1> QED  BY <1>1, <1>2, <1>3 DEF WidgetsNext, widgets

\* No section of recommendations shows that it is loading when no request for it is
\* under way, in whatever order its requests are answered and fail (loadRecommendations).
THEOREM SkeletonsCorrect == Spec => []SkeletonsAreLoading
<1>1. Init => FetchingInv
    BY DEF Init, WidgetsInit, FetchingInv, SkeletonsAreLoading
<1>2. FetchingInv /\ [Next]_vars => FetchingInv'
    BY FetchingStep DEF Next, vars, widgets
<1>3. FetchingInv => SkeletonsAreLoading
    BY DEF FetchingInv
<1> QED  BY <1>1, <1>2, <1>3, PTL DEF Spec

\* The like button of a tag page: an answer counts only for the request it answers.
LikesInv ==
    /\ likedTag \in BOOLEAN /\ shownLiked \in BOOLEAN
    /\ ShownLikesAreKept

LEMMA LikesStep ==
    ASSUME LikesInv, [WidgetsNext]_widgets
    PROVE  LikesInv'
<1>1. CASE UNCHANGED <<likedTag, shownLiked>>
    BY <1>1 DEF LikesInv, ShownLikesAreKept
<1>2. ASSUME NEW k \in Likes, LikeTagAnswered(k)
      PROVE  LikesInv'
    BY <1>2 DEF LikeTagAnswered, LikesInv, ShownLikesAreKept
<1>3. ASSUME NEW k \in Likes, LikeTagFails(k)
      PROVE  LikesInv'
    BY <1>3 DEF LikeTagFails, LikesInv, ShownLikesAreKept
<1> QED  BY <1>1, <1>2, <1>3 DEF WidgetsNext, widgets, tagPage, loadRelatedTags, toggleLikeTag

\* A tag page never shows a tag as liked that the server does not have as liked
\* (toggleLikeTag changes the button with the answer, not with the click).
THEOREM LikesCorrect == Spec => []ShownLikesAreKept
<1>1. Init => LikesInv
    BY DEF Init, WidgetsInit, LikesInv, ShownLikesAreKept
<1>2. LikesInv /\ [Next]_vars => LikesInv'
    BY LikesStep DEF Next, vars, widgets, tagPage
<1>3. LikesInv => ShownLikesAreKept
    BY DEF LikesInv
<1> QED  BY <1>1, <1>2, <1>3, PTL DEF Spec

--------------------------------------------------------------------------------
(* Messages.                                                               *)

MessagesInv == messages \in Seq(Alerts) /\ MessagesEnd

LEMMA Added ==
    ASSUME MessagesInv, NEW a \in Alerts, NEW X, Add(a, Without(messages, X)),
           X \cup closing \subseteq closing'
    PROVE  MessagesInv'
<1>1. Without(messages, X) \in Seq(Alerts) /\ Range(Without(messages, X)) = Range(messages) \ X
    BY WithoutCorrect, WithoutRange DEF MessagesInv
<1>2. Range(Append(Without(messages, X), a)) = Range(Without(messages, X)) \cup {a}
    BY <1>1, AppendRange
<1> QED  BY <1>1, <1>2 DEF MessagesInv, MessagesEnd, Add

LEMMA Removed ==
    ASSUME MessagesInv, NEW X, messages' = Without(messages, X),
           Range(messages) \ X \subseteq armed' \cup closing'
    PROVE  MessagesInv'
BY WithoutCorrect, WithoutRange DEF MessagesInv, MessagesEnd

LEMMA ToastStep ==
    ASSUME MessagesInv, NEW a \in Alerts, showToast(a)
    PROVE  MessagesInv'
<1>1. messages' = Append(messages, a) /\ armed' = armed \cup {a} /\ closing' = closing
    BY DEF showToast, Add
<1>2. Range(Append(messages, a)) = Range(messages) \cup {a}
    BY AppendRange DEF MessagesInv
<1> QED  BY <1>1, <1>2 DEF MessagesInv, MessagesEnd

LEMMA MessagesStep ==
    ASSUME MessagesInv, [MessagesNext]_alerts
    PROVE  MessagesInv'
<1>1. CASE UNCHANGED <<messages, armed, closing>>
    BY <1>1 DEF MessagesInv, MessagesEnd
<1>2. ASSUME NEW n, jumpToPage(n)
      PROVE  MessagesInv'
    BY <1>2, <1>1, ToastStep DEF jumpToPage
<1>3. ASSUME NEW a \in Alerts, showAlert(a)
      PROVE  MessagesInv'
    BY <1>3, Added DEF showAlert, AfterClick
<1>4. ASSUME NEW a \in Alerts, Click(a)
      PROVE  MessagesInv'
    BY <1>4, Removed DEF Click, AfterClick, MessagesInv, MessagesEnd
<1>5. ASSUME NEW a \in Alerts, TakeAway(a)
      PROVE  MessagesInv'
    BY <1>5, Removed DEF TakeAway, MessagesInv, MessagesEnd
<1>6. ASSUME NEW a \in Alerts, TimeUp(a)
      PROVE  MessagesInv'
    <2>1. Range(messages) \ ({a} \cap toasts) \subseteq armed' \cup closing'
        BY <1>6 DEF TimeUp, MessagesInv, MessagesEnd
    <2> QED  BY <1>6, <2>1, Removed DEF TimeUp, AfterClick
<1> QED  BY <1>1, <1>2, <1>3, <1>4, <1>5, <1>6, ToastStep DEF MessagesNext, alerts

\* No message stays for ever: however many there are and whatever closes them, one that
\* is shown has its time running or its removal.
THEOREM MessagesCorrect == Spec => []MessagesEnd
<1>1. Init => MessagesInv
    BY DEF Init, MessagesInit, MessagesInv, MessagesEnd, Range
<1>2. MessagesInv /\ [Next]_vars => MessagesInv'
    BY MessagesStep DEF Next, vars, alerts
<1>3. MessagesInv => MessagesEnd
    BY DEF MessagesInv
<1> QED  BY <1>1, <1>2, <1>3, PTL DEF Spec

--------------------------------------------------------------------------------
(* Link and compare mode.                                                  *)

\* What is chosen is a list without repetitions, next to the main comic.
LinkingInv ==
    /\ subs \in Seq(Cids) /\ IsInjective(subs) /\ DOMAIN posts = Posts
    /\ mode = "compare" => main = None
    /\ main # None => main \notin Range(subs)
    /\ ChoiceIsMarked
    /\ LinksAreSound

LEMMA SetOfList == \A s : ToSet(s) = Range(s)
BY DEF ToSet, Range

LEMMA DeselectStep ==
    ASSUME LinkingInv, NEW c \in Cards, Deselect(c), UNCHANGED <<mode, posts>>
    PROVE  LinkingInv'
<1>1. subs' \in Seq(Cids) /\ IsInjective(subs') /\ Range(subs') = Range(subs) \ {CidOf[c]}
    BY WithoutCorrect, WithoutRange DEF Deselect, LinkingInv
<1>2. main' # None => main' \notin Range(subs')
    BY <1>1 DEF Deselect, LinkingInv
<1>3. ChoiceIsMarked'
    <2>1. ASSUME NEW cid \in ToSet(subs')
          PROVE  \E d \in picked' : CidOf[d] = cid
        <3>1. cid # CidOf[c] /\ cid \in ToSet(subs)
            BY <1>1, <2>1, SetOfList
        <3>2. PICK d \in picked : CidOf[d] = cid
            BY <3>1 DEF LinkingInv, ChoiceIsMarked
        <3> QED  BY <3>1, <3>2 DEF Deselect
    <2> QED  BY <2>1 DEF Deselect, LinkingInv, ChoiceIsMarked
<1>4. LinksAreSound'
    BY DEF LinkingInv, LinksAreSound
<1> QED  BY <1>1, <1>2, <1>3, <1>4 DEF Deselect, LinkingInv

LEMMA SelectStep ==
    ASSUME LinkingInv, NEW c \in Cards, Select(c), UNCHANGED <<mode, posts>>,
           CidOf[c] \notin ToSet(subs), main # CidOf[c] \/ main = None
    PROVE  LinkingInv'
<1>1. CidOf[c] \in Cids
    BY DEF Cids
<1>2. subs' = Append(subs, CidOf[c])
    BY DEF Select
<1>3. subs' \in Seq(Cids) /\ Range(subs') = Range(subs) \cup {CidOf[c]} /\ IsInjective(subs')
    BY <1>1, <1>2, AppendRange, SetOfList DEF LinkingInv
<1>4. ChoiceIsMarked'
    BY <1>3, SetOfList DEF Select, LinkingInv, ChoiceIsMarked
<1>5. LinksAreSound'
    BY DEF LinkingInv, LinksAreSound
<1>6. main' # None => main' \notin Range(subs')
    BY <1>3 DEF Select, LinkingInv
<1> QED  BY <1>3, <1>4, <1>5, <1>6 DEF Select, LinkingInv

\* Nothing is chosen afterwards.
LEMMA NothingChosen ==
    ASSUME LinkingInv, main' = None, subs' = <<>>, LinksAreSound', DOMAIN posts' = Posts
    PROVE  LinkingInv'
BY DEF LinkingInv, ChoiceIsMarked, Range, IsInjective, ToSet

LEMMA CardStep ==
    ASSUME LinkingInv, NEW c \in Cards, onCardClick(c)
    PROVE  LinkingInv'
<1>1. UNCHANGED <<mode, posts>>
    BY DEF onCardClick
<1>2. LinksAreSound' /\ DOMAIN posts' = Posts
    BY <1>1 DEF LinkingInv, LinksAreSound
<1>3. CASE Deselect(c)
    BY <1>1, <1>3, DeselectStep
<1>4. CASE DropMain(c)
    BY <1>2, <1>4, NothingChosen DEF DropMain
<1>5. CASE mode = "link" /\ TakeMain(c)
    BY <1>1, <1>2, <1>5, SetOfList DEF TakeMain, LinkingInv, ChoiceIsMarked
<1>6. CASE CidOf[c] \notin ToSet(subs) /\ Select(c) /\ (main # CidOf[c] \/ main = None)
    BY <1>1, <1>6, SelectStep
<1> QED  BY <1>3, <1>4, <1>5, <1>6 DEF onCardClick, handleLinkClick, handleCompareClick, LinkingInv

LEMMA LinkStep ==
    ASSUME LinkingInv, NEW k \in Posts, confirmLinkAction(k)
    PROVE  LinkingInv'
<1>1. LinksAreSound' /\ DOMAIN posts' = Posts
    BY SetOfList DEF confirmLinkAction, LinkingInv, LinksAreSound
<1> QED  BY <1>1 DEF confirmLinkAction, selection, marks, LinkingInv, ChoiceIsMarked

LEMMA LinkingStep ==
    ASSUME LinkingInv, [QuickNext]_quick
    PROVE  LinkingInv'
<1>1. CASE UNCHANGED <<selection, marks, posts>>
    BY <1>1 DEF selection, marks, LinkingInv, ChoiceIsMarked, LinksAreSound
<1>2. ASSUME NEW m \in {"link", "compare"}, enterMode(m)
      PROVE  LinkingInv'
    BY <1>2, NothingChosen DEF enterMode, LinkingInv, LinksAreSound
<1>3. CASE Leave
    BY <1>3, NothingChosen DEF Leave, exitMode, LinkingInv, LinksAreSound
<1>4. ASSUME NEW k \in Posts, LinkSucceeds(k) \/ LinkFails(k)
      PROVE  LinkingInv'
    <2>1. LinksAreSound' /\ DOMAIN posts' = Posts
        BY <1>4 DEF LinkSucceeds, LinkFails, LinkingInv, LinksAreSound
    <2>2. CASE LinkSucceeds(k)
        BY <2>1, <2>2, NothingChosen DEF LinkSucceeds
    <2>3. CASE LinkFails(k)
        BY <2>1, <2>3 DEF LinkFails, selection, marks, LinkingInv, ChoiceIsMarked
    <2> QED  BY <1>4, <2>2, <2>3
<1>5. CASE confirmCompareAction \/ FollowLink \/ SetTarget
    BY <1>1, <1>5 DEF confirmCompareAction, FollowLink, SetTarget
<1>6. CASE toggleLinkMode
    BY <1>2, <1>3, <1>6, LinkStep DEF toggleLinkMode
<1>7. CASE toggleCompareMode
    BY <1>2, <1>3, <1>5, <1>7 DEF toggleCompareMode
<1>8. CASE confirmAction \/ cancelAction
    BY <1>3, <1>5, <1>8, LinkStep DEF confirmAction, cancelAction
<1> QED  BY <1>1, <1>4, <1>5, <1>6, <1>7, <1>8, CardStep DEF QuickNext, quick

LEMMA LinkingAlways == Spec => []LinkingInv
<1>1. Init => LinkingInv
    BY DEF Init, QuickInit, QuickPage, LinkingInv, ChoiceIsMarked, LinksAreSound, Range, IsInjective, ToSet
<1>2. LinkingInv /\ [Next]_vars => LinkingInv'
    BY LinkingStep DEF Next, vars, quick
<1> QED  BY <1>1, <1>2, PTL DEF Spec

\* Nothing is chosen unseen, for any number of cards and of comics with several cards.
THEOREM ChoiceCorrect == Spec => []ChoiceIsMarked
<1>1. LinkingInv => ChoiceIsMarked
    BY DEF LinkingInv
<1> QED  BY <1>1, LinkingAlways, PTL

\* Every link request is one the server accepts whole, however many are under way.
THEOREM LinksCorrect == Spec => []LinksAreSound
<1>1. LinkingInv => LinksAreSound
    BY DEF LinkingInv
<1> QED  BY <1>1, LinkingAlways, PTL

--------------------------------------------------------------------------------
(* The preview of a comparison.                                            *)

\* What is compared, and asked to be compared, are comics, and then those typed are comics
\* too; the files are a list.
PreviewInv ==
    /\ compared \in Comics \X Comics \cup {NoPair} /\ DOMAIN asks = Asks
    /\ \A k \in Asks : asks[k] # Nothing /\ asks[k].kind = "compare"
            => asks[k].of \in Comics \X Comics /\ current \in Comics \X Comics
    /\ bar # <<>> => current \in Comics \X Comics
    /\ \E S : files \in Seq(S)
    /\ PreviewFits

LEMMA Turned ==
    ASSUME NEW n \in Nat, n # 0, NEW i \in 1..n, NEW delta \in {1, n - 1}
    PROVE  ((i - 1 + delta + n) % n) + 1 \in 1..n
<1>1. i - 1 + delta + n \in Nat
    OBVIOUS
<1>2. \A a \in Nat : a % n \in 0..(n - 1)
    OBVIOUS
<1> QED  BY <1>1, <1>2

LEMMA Asked ==
    ASSUME PreviewInv, NEW r, Ask(r),
           r.kind = "compare" => r.of \in Comics \X Comics /\ current' \in Comics \X Comics,
           current' = current \/ current' \in Comics \X Comics
    PROVE  /\ DOMAIN asks' = Asks
           /\ \A k \in Asks : asks'[k] # Nothing /\ asks'[k].kind = "compare"
                => asks'[k].of \in Comics \X Comics /\ current' \in Comics \X Comics
BY DEF PreviewInv, Ask

LEMMA CompareStep ==
    ASSUME PreviewInv, NEW pair \in Comics \X Comics, Compare(pair)
    PROVE  PreviewInv'
<1>1. /\ DOMAIN asks' = Asks
      /\ \A k \in Asks : asks'[k] # Nothing /\ asks'[k].kind = "compare"
            => asks'[k].of \in Comics \X Comics /\ current' \in Comics \X Comics
    BY Asked DEF Compare
<1>2. files' = files /\ PreviewFits' /\ UNCHANGED <<compared, bar>> /\ current' = pair
    BY DEF Compare, closePreview, preview, PreviewInv, PreviewFits
<1> QED  BY <1>1, <1>2 DEF PreviewInv

LEMMA PreviewStep ==
    ASSUME PreviewInv, [AdminNext]_admin
    PROVE  PreviewInv'
<1> DEFINE Sound(r) == r # Nothing /\ r.kind = "compare"
                        => r.of \in Comics \X Comics /\ current \in Comics \X Comics
<1>a. ASSUME UNCHANGED <<current, compared, bar, overlays, files, at>>, DOMAIN asks' = Asks,
             \A k \in Asks : asks'[k] = asks[k] \/ Sound(asks'[k])
      PROVE  PreviewInv'
    <2>1. \A k \in Asks : Sound(asks'[k])
        BY <1>a DEF PreviewInv
    <2>2. PreviewFits'
        BY <1>a DEF PreviewInv, PreviewFits
    <2> QED  BY <1>a, <2>1, <2>2 DEF PreviewInv
<1>1. CASE compareComics
    BY <1>1, CompareStep DEF compareComics, Pairs
<1>2. CASE ClosePreview
    BY <1>2 DEF ClosePreview, closePreview, compare, PreviewInv, PreviewFits
<1>3. CASE previewNav
    <2>1. PICK delta \in {1, Len(files) - 1} : Turn(delta)
        BY <1>3 DEF previewNav
    <2>2. overlays # <<>> /\ files # <<>> /\ files' = files
        BY <2>1 DEF Turn
    <2>3. Len(files) \in Nat /\ Len(files) # 0 /\ at \in 1..Len(files)
        BY <2>2 DEF PreviewInv, PreviewFits
    <2>4. at' \in 1..Len(files)
        BY <2>1, <2>3, Turned DEF Turn
    <2> QED  BY <1>3, <2>2, <2>4 DEF previewNav, compare, PreviewInv, PreviewFits
<1>4. CASE confirmLink \/ unlinkComic
    BY <1>4, <1>a, Asked DEF confirmLink, unlinkComic, ChangeLinks, compare, preview
<1>5. ASSUME NEW o \in Overlays, NEW i \in DOMAIN Rows, showPreview(o, i)
      PROVE  PreviewInv'
    <2>1. \E S : Rows \in Seq(S)
        BY CompareAssumption DEF Rows, PreviewInv
    <2>2. files' = Rows /\ at' = i
        BY <1>5 DEF showPreview
    <2>3. PreviewFits'
        BY <2>1, <2>2 DEF PreviewFits
    <2> QED  BY <1>5, <2>1, <2>2, <2>3 DEF showPreview, compare, PreviewInv
<1>6. ASSUME NEW c \in Comics, selectMainComic(c)
      PROVE  PreviewInv'
    <2>1. current \in Comics \X Comics
        BY <1>6 DEF selectMainComic, Range, PreviewInv
    <2>2. Pending \in Seq(Comics)
        BY CompareAssumption DEF Pending
    <2>3. current \o Pending \in Seq(Comics)
        <3>1. current = <<current[1], current[2]>> /\ current[1] \in Comics /\ current[2] \in Comics
            BY <2>1
        <3>2. <<current[1], current[2]>> \in Seq(Comics)
            BY <3>1
        <3>3. current \in Seq(Comics)
            BY <3>1, <3>2
        <3> QED  BY <2>2, <3>3
    <2>4. Without(current \o Pending, {c}) \in Seq(Comics)
        BY <2>3, WithoutCorrect
    <2>5. Head(Without(current \o Pending, {c})) \in Comics
        BY <1>6, <2>4 DEF selectMainComic
    <2> QED  BY <1>6, <2>5, CompareStep DEF selectMainComic
<1>7. ASSUME NEW k \in Asks, CompareAnswered(k)
      PROVE  PreviewInv'
    <2>1. asks[k].of \in Comics \X Comics /\ current \in Comics \X Comics
        BY <1>7 DEF CompareAnswered, PreviewInv
    <2> QED  BY <1>7, <2>1 DEF CompareAnswered, Load, preview, PreviewInv, PreviewFits
<1>8. ASSUME NEW k \in Asks, LinksChanged(k) \/ LinksLoaded(k) \/ AskFails(k)
      PROVE  PreviewInv'
    BY <1>8 DEF LinksChanged, LinksLoaded, AskFails, Load, Answered, compare, preview, PreviewInv, PreviewFits
<1>9. ASSUME NEW m, switchLinksView(m)
      PROVE  PreviewInv'
    BY <1>9, <1>a DEF switchLinksView, compare, preview, PreviewInv
<1>10. CASE UNCHANGED admin
    BY <1>10, <1>a DEF admin, compare, preview, PreviewInv
<1> QED  BY <1>1, <1>2, <1>3, <1>4, <1>5, <1>6, <1>7, <1>8, <1>9, <1>10 DEF AdminNext

\* The counter and the arrow keys stay within the pages the preview was opened with,
\* for comparisons of any length that are answered in any order.
THEOREM PreviewCorrect == Spec => []PreviewFits
<1>1. Init => PreviewInv
    BY DEF Init, AdminInit, PreviewInv, PreviewFits
<1>2. PreviewInv /\ [Next]_vars => PreviewInv'
    BY PreviewStep DEF Next, vars, admin
<1>3. PreviewInv => PreviewFits
    BY DEF PreviewInv
<1> QED  BY <1>1, <1>2, <1>3, PTL DEF Spec

--------------------------------------------------------------------------------
(* The time since the upload.                                              *)

Parts7 == [1..7 -> Nat]

\* After i units of an age: what is told and what is left are the age; a text that is
\* not to be exact names no unit below the one after its first.
Cut(acc, i, exactly, whole) ==
    /\ acc \in [rest : Nat, parts : Parts7, last : BOOLEAN, done : BOOLEAN]
    /\ whole = Told(acc.parts) + acc.rest
    /\ \A j \in i + 1..7 : acc.parts[j] = 0
    /\ exactly => ~acc.last /\ ~acc.done
    /\ ~acc.last /\ ~acc.done /\ ~exactly => \A j \in 1..7 : acc.parts[j] = 0
    /\ ~acc.done /\ i > 0 => acc.rest < Units[i]
    /\ acc.last /\ ~acc.done =>
        i > 0 /\ acc.parts[i] > 0 /\ \A j \in 1..i - 1 : acc.parts[j] = 0
    /\ acc.done =>
        \E k \in 1..6 :
            /\ acc.parts[k] > 0 /\ acc.rest < Units[k + 1]
            /\ \A j \in 1..7 : j < k \/ j > k + 1 => acc.parts[j] = 0

LEMMA UnitIsNat == \A i \in 1..7 : Units[i] \in Nat /\ Units[i] > 0
<1>1. 1..7 = {1, 2, 3, 4, 5, 6, 7}
    OBVIOUS
<1> QED  BY <1>1 DEF Units

Total(a) == a[1] + a[2] + a[3] + a[4] + a[5] + a[6] + a[7]

LEMMA TotalGrows ==
    ASSUME NEW a \in Parts7, NEW b \in Parts7, NEW i \in 1..7, a[i] = 0,
           \A j \in 1..7 : j # i => b[j] = a[j]
    PROVE  Total(b) = Total(a) + b[i] /\ Total(a) \in Nat
<1>1. 1..7 = {1, 2, 3, 4, 5, 6, 7}
    OBVIOUS
<1>2. \A j \in 1..7 : a[j] \in Nat /\ b[j] \in Nat
    BY DEF Parts7
<1>3. /\ a[1] \in Nat /\ a[2] \in Nat /\ a[3] \in Nat /\ a[4] \in Nat /\ a[5] \in Nat /\ a[6] \in Nat /\ a[7] \in Nat
      /\ b[1] \in Nat /\ b[2] \in Nat /\ b[3] \in Nat /\ b[4] \in Nat /\ b[5] \in Nat /\ b[6] \in Nat /\ b[7] \in Nat
    BY <1>1, <1>2
<1>4. CASE i = 1
    BY <1>1, <1>3, <1>4, SMT DEF Total
<1>5. CASE i = 2
    BY <1>1, <1>3, <1>5, SMT DEF Total
<1>6. CASE i = 3
    BY <1>1, <1>3, <1>6, SMT DEF Total
<1>7. CASE i = 4
    BY <1>1, <1>3, <1>7, SMT DEF Total
<1>8. CASE i = 5
    BY <1>1, <1>3, <1>8, SMT DEF Total
<1>9. CASE i = 6
    BY <1>1, <1>3, <1>9, SMT DEF Total
<1>10. CASE i = 7
    BY <1>1, <1>3, <1>10, SMT DEF Total
<1> QED  BY <1>1, <1>4, <1>5, <1>6, <1>7, <1>8, <1>9, <1>10

LEMMA ToldGrows ==
    ASSUME NEW p \in Parts7, NEW i \in 1..7, p[i] = 0, NEW n \in Nat
    PROVE  Told([p EXCEPT ![i] = n]) = Told(p) + n * Units[i] /\ Told(p) \in Nat
<1> DEFINE q == [p EXCEPT ![i] = n]
           a == [j \in 1..7 |-> p[j] * Units[j]]
           b == [j \in 1..7 |-> q[j] * Units[j]]
<1>1. q \in Parts7 /\ q[i] = n /\ \A j \in 1..7 : j # i => q[j] = p[j]
    BY DEF Parts7
<1> HIDE DEF q
<1>2. \A j \in 1..7 : p[j] \in Nat /\ q[j] \in Nat /\ Units[j] \in Nat
    BY <1>1, UnitIsNat DEF Parts7
<1>3. \A j \in 1..7 : p[j] * Units[j] \in Nat /\ q[j] * Units[j] \in Nat
    BY <1>2
<1>4. a \in Parts7 /\ b \in Parts7
    BY <1>3 DEF Parts7
<1>5. a[i] = 0 /\ b[i] = n * Units[i] /\ \A j \in 1..7 : j # i => b[j] = a[j]
    BY <1>1, <1>2
<1>6. Told(p) = Total(a) /\ Told(q) = Total(b)
    BY DEF Told, Total
<1> HIDE DEF a, b
<1>7. Total(b) = Total(a) + b[i] /\ Total(a) \in Nat
    BY <1>4, <1>5, TotalGrows
<1> QED  BY <1>5, <1>6, <1>7 DEF q

LEMMA Division ==
    ASSUME NEW r \in Nat, NEW d \in Nat \ {0}
    PROVE  r \div d \in Nat /\ r % d \in Nat /\ r % d < d /\ r % d = r - d * (r \div d)
<1>1. r % d = r - d * (r \div d)
    BY SMT
<1>2. r \div d \in Nat /\ r % d \in Nat /\ r % d < d
    BY SMT
<1> QED  BY <1>1, <1>2

LEMMA UnitCuts ==
    ASSUME NEW acc, NEW i \in 1..7, NEW exactly \in BOOLEAN, NEW whole, Cut(acc, i - 1, exactly, whole)
    PROVE  Cut(Unit(exactly, acc, i), i, exactly, whole)
<1>1. CASE acc.done
    <2>1. Unit(exactly, acc, i) = acc
        BY <1>1, Zenon DEF Unit
    <2>2. Cut(acc, i, exactly, whole)
        BY <1>1 DEF Cut
    <2> QED  BY <2>1, <2>2, Zenon
<1>2. CASE ~acc.done
    <2> DEFINE n == acc.rest \div Units[i]
               left == acc.rest % Units[i]
               parts == [acc.parts EXCEPT ![i] = n]
    <2>0. acc.rest \in Nat /\ acc.parts \in Parts7 /\ acc.parts[i] = 0 /\ whole = Told(acc.parts) + acc.rest
        BY DEF Cut
    <2>1. n \in Nat /\ left \in Nat /\ left < Units[i] /\ left = acc.rest - Units[i] * n
        <3>1. Units[i] \in Nat \ {0}
            BY UnitIsNat
        <3> QED  BY <2>0, <3>1, Division, Zenon
    <2>2. parts \in Parts7 /\ parts[i] = n /\ \A j \in 1..7 : j # i => parts[j] = acc.parts[j]
        BY <2>0, <2>1 DEF Parts7
    <2>3. n * Units[i] \in Nat
        BY <2>1, UnitIsNat
    <2>4. whole = Told(parts) + left
        <3>1. Told(parts) = Told(acc.parts) + n * Units[i] /\ Told(acc.parts) \in Nat
            BY <2>0, <2>1, ToldGrows
        <3>2. n * Units[i] = Units[i] * n
            BY <2>1, UnitIsNat
        <3> HIDE DEF n, left, parts
        <3> QED  BY <2>0, <2>1, <2>3, <3>1, <3>2
    <2>5. Unit(exactly, acc, i) = [rest |-> left, parts |-> parts, last |-> n > 0 /\ ~exactly, done |-> acc.last]
        BY <1>2, Zenon DEF Unit
    <2> HIDE DEF n, left, parts
    <2> DEFINE new == [rest |-> left, parts |-> parts, last |-> n > 0 /\ ~exactly, done |-> acc.last]
    <2>6. new \in [rest : Nat, parts : Parts7, last : BOOLEAN, done : BOOLEAN]
        BY <2>1, <2>2 DEF Cut
    <2>7. \A j \in i + 1..7 : parts[j] = 0
        BY <2>2 DEF Cut
    <2>8. acc.last =>
            /\ i - 1 \in 1..6 /\ parts[i - 1] > 0 /\ left < Units[i - 1 + 1]
            /\ \A j \in 1..7 : j < i - 1 \/ j > i - 1 + 1 => parts[j] = 0
        BY <1>2, <2>1, <2>2 DEF Cut
    <2>9. ~acc.last /\ ~exactly => \A j \in 1..7 : j # i => parts[j] = 0
        BY <1>2, <2>2 DEF Cut
    <2>10. exactly => ~acc.last
        BY DEF Cut
    <2>11. new.rest = left /\ new.parts = parts /\ (new.last <=> n > 0 /\ ~exactly) /\ (new.done <=> acc.last)
        OBVIOUS
    <2> HIDE DEF new
    <2>12. exactly => ~new.last /\ ~new.done
        BY <2>10, <2>11
    <2>13. ~new.last /\ ~new.done /\ ~exactly => \A j \in 1..7 : new.parts[j] = 0
        BY <2>1, <2>2, <2>9, <2>11
    <2>14. new.last /\ ~new.done =>
            i > 0 /\ new.parts[i] > 0 /\ \A j \in 1..i - 1 : new.parts[j] = 0
        BY <2>1, <2>2, <2>9, <2>11
    <2>15. new.done =>
            \E k \in 1..6 :
                /\ new.parts[k] > 0 /\ new.rest < Units[k + 1]
                /\ \A j \in 1..7 : j < k \/ j > k + 1 => new.parts[j] = 0
        <3> SUFFICES ASSUME new.done PROVE \E k \in 1..6 :
                /\ new.parts[k] > 0 /\ new.rest < Units[k + 1]
                /\ \A j \in 1..7 : j < k \/ j > k + 1 => new.parts[j] = 0
            OBVIOUS
        <3>1. i - 1 \in 1..6 /\ i - 1 + 1 = i
            BY <2>8, <2>11
        <3>2. new.parts[i - 1] > 0 /\ new.rest < Units[i - 1 + 1]
            BY <2>8, <2>11
        <3>3. \A j \in 1..7 : j < i - 1 \/ j > i - 1 + 1 => new.parts[j] = 0
            BY <2>8, <2>11
        <3> QED  BY <3>1, <3>2, <3>3
    <2>16. Cut(new, i, exactly, whole)
        BY <2>1, <2>4, <2>6, <2>7, <2>11, <2>12, <2>13, <2>14, <2>15 DEF Cut
    <2> QED  BY <2>5, <2>16 DEF new
<1> QED  BY <1>1, <1>2

\* What the seven units leave is told by the last one that the text may name.
LEMMA CutFits ==
    ASSUME NEW acc, NEW exactly \in BOOLEAN, NEW whole, Cut(acc, 7, exactly, whole)
    PROVE  LET last == LastUnit(acc.parts, exactly) IN
           /\ whole - Told(acc.parts) \in 0..Units[last] - 1
           /\ \A i \in Named(acc.parts) : i <= last
<1>1. acc.rest \in Nat /\ Told(acc.parts) \in Nat /\ whole - Told(acc.parts) = acc.rest
    <2>1. \A j \in 1..7 : acc.parts[j] \in Nat
        BY DEF Cut, Parts7
    <2>2. Told(acc.parts) \in Nat
        BY <2>1 DEF Told, Units
    <2> QED  BY <2>2 DEF Cut
<1>2. CASE exactly \/ Named(acc.parts) = {}
    <2>1. LastUnit(acc.parts, exactly) = 7
        BY <1>2 DEF LastUnit
    <2>2. \A i \in Named(acc.parts) : i <= 7
        BY DEF Named
    <2>3. ~acc.done
        BY <1>2 DEF Cut, Named
    <2> QED  BY <1>1, <2>1, <2>2, <2>3, UnitIsNat DEF Cut
<1>3. CASE ~exactly /\ Named(acc.parts) # {}
    <2>1. PICK k \in 1..7 :
            /\ k \in Named(acc.parts) /\ \A j \in Named(acc.parts) : k <= j /\ j <= k + 1
            /\ IF acc.done THEN k < 7 /\ acc.rest < Units[k + 1] ELSE k = 7 /\ acc.rest < Units[7]
        <3>1. CASE acc.done
            BY <3>1 DEF Cut, Named, Parts7
        <3>2. CASE ~acc.done
            <4>1. acc.last /\ acc.parts[7] > 0 /\ \A j \in 1..6 : acc.parts[j] = 0
                BY <1>3, <3>2 DEF Cut, Named
            <4> QED  BY <3>2, <4>1 DEF Cut, Named
        <3> QED  BY <3>1, <3>2
    <2>2. Min(Named(acc.parts)) = k
        <3>1. Named(acc.parts) \subseteq 1..7
            BY DEF Named
        <3> QED  BY <2>1, <3>1 DEF Min
    <2>3. LastUnit(acc.parts, exactly) = IF k = 7 THEN 7 ELSE k + 1
        <3>1. Min({7, k + 1}) = IF k = 7 THEN 7 ELSE k + 1
            BY DEF Min
        <3> QED  BY <1>3, <2>2, <3>1 DEF LastUnit
    <2>4. k = 7 \/ k + 1 \in 1..7
        OBVIOUS
    <2>5. acc.rest < Units[IF k = 7 THEN 7 ELSE k + 1]
        BY <2>1
    <2>6. \A i \in Named(acc.parts) : i <= IF k = 7 THEN 7 ELSE k + 1
        BY <2>1 DEF Named
    <2> QED  BY <1>1, <2>3, <2>4, <2>5, <2>6, UnitIsNat
<1> QED  BY <1>2, <1>3

LEMMA PrettyFits ==
    ASSUME NEW seconds \in Int, NEW exactly \in BOOLEAN
    PROVE  LET parts == pretty_delta(seconds, exactly)
               last == LastUnit(parts, exactly)
           IN /\ Abs(seconds) - Told(parts) \in 0..Units[last] - 1
              /\ \A i \in Named(parts) : i <= last
<1> DEFINE whole == Abs(seconds)
           fresh == [rest |-> whole, parts |-> JustNow, last |-> FALSE, done |-> FALSE]
           loop(f, n) == [i \in 0..n |-> IF i = 0 THEN fresh ELSE Unit(exactly, f[i - 1], i)]
           after == CHOOSE f : f = loop(f, 7)
<1>1. pretty_delta(seconds, exactly) = after[7].parts
    BY DEF pretty_delta
<1>2. Cut(fresh, 0, exactly, whole)
    <2>1. whole \in Nat
        BY DEF Abs
    <2>2. JustNow \in Parts7 /\ \A j \in 1..7 : JustNow[j] = 0
        BY DEF Parts7, JustNow
    <2>3. Told(JustNow) = 0
        BY <2>2, UnitIsNat DEF Told
    <2> QED  BY <2>1, <2>2, <2>3 DEF Cut
<1> HIDE DEF whole, fresh
<1>3. ASSUME NEW n \in 0..6, \E f : f = loop(f, n)
      PROVE  \E f : f = loop(f, n + 1)
    <2>1. PICK f : f = loop(f, n)
        BY <1>3
    <2> DEFINE g == [i \in 0..n + 1 |-> IF i = n + 1 THEN Unit(exactly, f[n], n + 1) ELSE f[i]]
    <2>2. \A i \in 0..n + 1 : g[i] = IF i = 0 THEN fresh ELSE Unit(exactly, g[i - 1], i)
        <3> SUFFICES ASSUME NEW i \in 0..n + 1
                     PROVE  g[i] = IF i = 0 THEN fresh ELSE Unit(exactly, g[i - 1], i)
            OBVIOUS
        <3>1. CASE i = n + 1
            BY <3>1
        <3>2. CASE i # n + 1
            <4>1. f[i] = IF i = 0 THEN fresh ELSE Unit(exactly, f[i - 1], i)
                BY <2>1, <3>2
            <4>2. g[i] = f[i] /\ (i # 0 => g[i - 1] = f[i - 1])
                BY <3>2
            <4> QED  BY <4>1, <4>2
        <3> QED  BY <3>1, <3>2
    <2>3. g = loop(g, n + 1)
        BY <2>2
    <2> QED  BY <2>3
<1>4. \E f : f = loop(f, 0)
    <2>1. [i \in 0..0 |-> fresh] = loop([i \in 0..0 |-> fresh], 0)
        OBVIOUS
    <2> QED  BY <2>1
<1> DEFINE E(n) == \E f : f = loop(f, n)
<1>5. E(0) /\ \A n \in 0..6 : E(n) => E(n + 1)
    BY <1>3, <1>4
<1> HIDE DEF E
<1>6. E(7)
    <2>1. E(1) /\ E(2) /\ E(3)
        BY <1>5
    <2>2. E(4) /\ E(5) /\ E(6)
        BY <1>5, <2>1
    <2> QED  BY <1>5, <2>2
<1>7. after = loop(after, 7)
    BY <1>6, Zenon DEF E
<1> HIDE DEF after
<1>8. after[0] = fresh /\ \A i \in 1..7 : after[i] = Unit(exactly, after[i - 1], i)
    BY <1>7
<1> DEFINE C(i) == Cut(after[i], i, exactly, whole)
<1>9. C(0) /\ \A i \in 1..7 : C(i - 1) => C(i)
    BY <1>2, <1>8, UnitCuts
<1> HIDE DEF C
<1>10. C(7)
    <2>1. C(1) /\ C(2) /\ C(3)
        BY <1>9
    <2>2. C(4) /\ C(5) /\ C(6)
        BY <1>9, <2>1
    <2> QED  BY <1>9, <2>2
<1> QED  BY <1>1, <1>10, CutFits DEF C, whole

LabelInv ==
    /\ age \in Ages /\ shownAt \in Int /\ exact \in BOOLEAN
    /\ LabelFits

\* An age that is shown, and others that are not.
LEMMA LabelStep == LabelInv /\ (AppNext \/ UNCHANGED app) => LabelInv'
<1> SUFFICES ASSUME LabelInv, AppNext \/ UNCHANGED app PROVE LabelInv'
    OBVIOUS
<1>1. ASSUME label' = pretty_delta(age, exact), shownAt' = age, age' = age, exact' = exact
      PROVE  LabelInv'
    <2>1. age \in Int /\ exact \in BOOLEAN
        BY AgesAssumption DEF LabelInv
    <2> HIDE DEF LabelInv
    <2>2. LabelFits'
        BY <1>1, <2>1, PrettyFits DEF LabelFits
    <2> QED  BY <1>1, <2>1, <2>2 DEF LabelInv
<1>2. ASSUME label' = label, shownAt' = shownAt, exact' = exact, age' \in Ages
      PROVE  LabelInv'
    BY <1>2 DEF LabelInv, LabelFits
<1>3. CASE Ready \/ update_times
    BY <1>1, <1>3 DEF Ready, update_times
<1>4. CASE \E a \in Ages : TimePasses(a)
    BY <1>2, <1>4 DEF TimePasses, LabelInv
<1>5. UNCHANGED time => LabelInv'
    BY <1>2 DEF time, LabelInv
<1>6. CASE PopState \/ LockEnds \/ ScrollToBottom \/ ShowAll \/ ClickDropdown \/ Arm \/ ClickMenu \/ ClickOutside
    BY <1>5, <1>6 DEF PopState, LockEnds, ScrollToBottom, ShowAll, ClickDropdown, Arm, ClickMenu, Clicked, ClickOutside
<1>7. ASSUME NEW kind, Rejected(kind)
      PROVE  LabelInv'
    BY <1>5, <1>7 DEF Rejected
<1>8. ASSUME NEW height, FoldPages(height) \/ ShowMore(height)
      PROVE  LabelInv'
    BY <1>5, <1>8 DEF FoldPages, ShowMore
<1>9. CASE UNCHANGED app
    BY <1>5, <1>9 DEF app
<1> QED  BY <1>3, <1>4, <1>6, <1>7, <1>8, <1>9 DEF AppNext

\* The text of the upload time is the age cut to its second unit, or to the second, for
\* every age, in the past and in the future (pretty_delta).
THEOREM LabelCorrect == Spec => []LabelFits
<1>1. Init => LabelInv
    <2>1. Named(JustNow) = {} /\ Abs(0) - Told(JustNow) \in 0..Units[7] - 1
        BY DEF Named, JustNow, Abs, Told, Units
    <2> QED  BY <2>1 DEF Init, AppInit, LabelInv, LabelFits, LastUnit
<1>2. LabelInv /\ [Next]_vars => LabelInv'
    BY LabelStep DEF Next, vars, app
<1>3. LabelInv => LabelFits
    BY DEF LabelInv
<1> QED  BY <1>1, <1>2, <1>3, PTL DEF Spec

--------------------------------------------------------------------------------
(* Linked comics.                                                         *)

Phases == {"rest", "main", "sub", "tags", "redirect", "query", "chain", "move", "unlink", "unset", "reset"}
Request ==
    [at : Phases, main : CIDs \cup {NoComic}, todo : SUBSET CIDs, sub : CIDs \cup {NoComic},
     info1 : Docs \cup {NoComic}, info2 : Docs \cup {NoComic}, target : CIDs \cup {NoComic},
     chain : SUBSET CIDs, cid : CIDs \cup {NoComic}]

\* The comics of a chain whose redirect is not moved yet.
Unmoved(q) == q.chain \cup ({q.cid} \ {NoComic})
IsEnd(t, st) == st[t].redirect \in {NoComic, t}

\* What a request that nothing has come between has read is what the documents are, and it
\* knows where redirects end.
Sound(q, st) ==
    /\ q \in Request
    /\ q.at = "rest" => q = Resting
    /\ q.at \notin {"chain", "move"} => q.chain = {}
    /\ IF q.at = "move" THEN q.cid \in CIDs \ q.chain /\ q.info2 = st[q.cid] ELSE q.cid = NoComic
    /\ q.at \in {"main", "sub", "tags", "redirect", "query", "chain", "move"} =>
        q.main \in CIDs /\ q.main \notin q.todo
    /\ q.at \in {"sub", "tags", "redirect"} =>
        /\ q.sub \in CIDs /\ q.sub # q.main /\ q.info1 = st[q.main]
        /\ IsEnd(Target(q.main, q.info1), st)
    /\ q.at \in {"tags", "redirect", "unset"} => q.info2 = st[q.sub]
    /\ q.at \in {"query", "chain", "move"} =>
        /\ q.sub \in CIDs /\ q.target \in CIDs /\ st[q.sub].redirect = q.target
        /\ IsEnd(q.target, st)
        /\ \A c \in Unmoved(q) : st[c].redirect = q.sub
    /\ q.at \in {"unlink", "unset"} => q.sub \in CIDs

\* Only what a request is about to move redirects to a comic that redirects further.
AboutToMove(c, q, st) == st[c].redirect = q.sub /\ (q.at = "query" \/ c \in Unmoved(q))
FlatBut(rs, st) ==
    \A c \in CIDs :
        st[c].redirect # NoComic =>
            \/ IsEnd(st[c].redirect, st)
            \/ \E r \in Admins : AboutToMove(c, rs[r], st)

\* The inductive invariant: while nothing has come between.
RedirectsAreSound ==
    /\ store \in [CIDs -> Docs] /\ reqs \in [Admins -> Request]
    /\ \A r \in Admins : Sound(reqs[r], store)
    /\ ~Overlap
    /\ FlatBut(reqs, store)
LinksInv == trouble = {} => RedirectsAreSound

\* A document written with the redirect it had, or by the request that gives it another one,
\* is none that the other requests work with.
LEMMA OthersSound ==
    ASSUME NEW st \in [CIDs -> Docs], NEW q \in Request, NEW o, Sound(o, st),
           ~Disturbs(q, o), NEW c \in Changed(q), c \in CIDs, NEW d \in Docs,
           c \in Redirected(q) \/ d.redirect = st[c].redirect
    PROVE  Sound(o, [st EXCEPT ![c] = d])
<1> DEFINE new == [st EXCEPT ![c] = d]
<1>1. new \in [CIDs -> Docs] /\ \A x \in CIDs : x # c => new[x] = st[x]
    OBVIOUS
<1>2. new[c].redirect = IF c \in Redirected(q) THEN new[c].redirect ELSE st[c].redirect
    OBVIOUS
<1> HIDE DEF new
<1>3. \A x \in Changed(o) : x # c
    BY DEF Disturbs
<1>4. \A x \in Ends(o) : x \in CIDs => new[x].redirect = st[x].redirect
    BY <1>1, <1>2 DEF Disturbs
<1>5. \A x \in {o.main, o.sub, o.cid} \cup o.chain : x \in CIDs => new[x] = st[x]
    BY <1>1, <1>3, LinkAssumption DEF Changed, Redirected
<1>6. o.at \in {"query", "chain", "move"} => IsEnd(o.target, new)
    BY <1>4, LinkAssumption DEF Sound, IsEnd, Ends
<1>7. o.at \in {"sub", "tags", "redirect"} => IsEnd(Target(o.main, o.info1), new)
    <2> SUFFICES ASSUME o.at \in {"sub", "tags", "redirect"} PROVE IsEnd(Target(o.main, o.info1), new)
        OBVIOUS
    <2>1. o.main \in CIDs /\ o.info1 = st[o.main] /\ o.info1 \in Docs /\ IsEnd(Target(o.main, o.info1), st)
        BY DEF Sound
    <2>2. CASE o.info1.redirect = NoComic
        BY <1>5, <2>1, <2>2 DEF Target, IsEnd
    <2>3. CASE o.info1.redirect # NoComic
        <3>1. o.info1.redirect \in CIDs /\ o.info1.redirect \in Ends(o)
            BY <2>1, <2>3, LinkAssumption DEF Ends, Docs
        <3> QED  BY <1>4, <2>1, <2>3, <3>1 DEF Target, IsEnd
    <2> QED  BY <2>2, <2>3
<1>8. \A x \in Unmoved(o) : x \in CIDs => new[x] = st[x]
    BY <1>5 DEF Unmoved
<1>9. o \in Request
    BY DEF Sound
<1>10. o.at \in {"query", "chain", "move"} =>
        st[o.sub].redirect = new[o.sub].redirect /\ \A x \in Unmoved(o) : new[x].redirect = o.sub
    BY <1>5, <1>8, <1>9 DEF Sound, Unmoved, Request
<1> QED  BY <1>5, <1>6, <1>7, <1>9, <1>10 DEF Sound, new

LEMMA Noted ==
    ASSUME NEW what \in Troubles, NEW happened \in BOOLEAN, Note(what, happened), trouble' = {}
    PROVE  trouble = {} /\ ~happened /\ ~Overlap'
BY DEF Note, Troubles

\* A step that writes nothing.
LEMMA StepSound ==
    ASSUME RedirectsAreSound, NEW r \in Admins, NEW q, reqs' = [reqs EXCEPT ![r] = q],
           store' = store, ~Overlap', Sound(q, store),
           \A c \in CIDs : AboutToMove(c, reqs[r], store) => AboutToMove(c, q, store)
    PROVE  RedirectsAreSound'
<1>1. reqs' \in [Admins -> Request] /\ reqs'[r] = q /\ \A o \in Admins : o # r => reqs'[o] = reqs[o]
    BY DEF RedirectsAreSound, Sound
<1>2. \A o \in Admins : Sound(reqs'[o], store')
    BY <1>1 DEF RedirectsAreSound
<1>3. FlatBut(reqs', store')
    <2> SUFFICES ASSUME NEW c \in CIDs, store[c].redirect # NoComic, ~IsEnd(store[c].redirect, store)
                 PROVE  \E o \in Admins : AboutToMove(c, reqs'[o], store)
        BY DEF FlatBut
    <2>1. PICK o \in Admins : AboutToMove(c, reqs[o], store)
        BY DEF RedirectsAreSound, FlatBut
    <2>2. CASE o = r
        BY <1>1, <2>1, <2>2
    <2>3. CASE o # r
        BY <1>1, <2>1, <2>3
    <2> QED  BY <2>2, <2>3
<1> QED  BY <1>1, <1>2, <1>3 DEF RedirectsAreSound

\* A step that writes a document.
LEMMA WriteSound ==
    ASSUME RedirectsAreSound, NEW r \in Admins, NEW q, NEW c \in CIDs, NEW d \in Docs,
           reqs' = [reqs EXCEPT ![r] = q], store' = [store EXCEPT ![c] = d],
           c \in Changed(reqs[r]), c \in Redirected(reqs[r]) \/ d.redirect = store[c].redirect,
           ~Overlap', Sound(q, store'),
           \A x \in CIDs :
               store'[x].redirect # NoComic =>
                   \/ IsEnd(store'[x].redirect, store')
                   \/ AboutToMove(x, q, store')
                   \/ \E o \in Admins \ {r} : AboutToMove(x, reqs[o], store')
    PROVE  RedirectsAreSound'
<1>1. reqs' \in [Admins -> Request] /\ reqs'[r] = q /\ \A o \in Admins : o # r => reqs'[o] = reqs[o]
    BY DEF RedirectsAreSound, Sound
<1>2. ASSUME NEW o \in Admins, o # r
      PROVE  Sound(reqs'[o], store')
    <2>1. Sound(reqs[o], store) /\ ~Disturbs(reqs[r], reqs[o]) /\ store \in [CIDs -> Docs]
        BY <1>2 DEF RedirectsAreSound, Overlap
    <2>2. reqs[r] \in Request
        BY DEF RedirectsAreSound, Sound
    <2>3. Sound(reqs[o], [store EXCEPT ![c] = d])
        BY <2>1, <2>2, OthersSound
    <2> QED  BY <1>1, <1>2, <2>3
<1>3. FlatBut(reqs', store')
    BY <1>1 DEF FlatBut
<1>4. store' \in [CIDs -> Docs]
    BY DEF RedirectsAreSound
<1> QED  BY <1>1, <1>2, <1>3, <1>4 DEF RedirectsAreSound

\* What nothing is about to move is as it was, when no redirect changes.
LEMMA SameRedirects ==
    ASSUME RedirectsAreSound, NEW r \in Admins, reqs[r].at \notin {"query", "chain", "move"},
           NEW new, \A x \in CIDs : new[x].redirect = store[x].redirect, NEW x \in CIDs,
           new[x].redirect # NoComic
    PROVE  IsEnd(new[x].redirect, new) \/ \E o \in Admins \ {r} : AboutToMove(x, reqs[o], new)
<1>1. Unmoved(reqs[r]) = {}
    BY DEF RedirectsAreSound, Sound, Unmoved
<1>2. store[x].redirect \in CIDs
    BY DEF RedirectsAreSound, Docs
<1>3. CASE IsEnd(store[x].redirect, store)
    BY <1>2, <1>3 DEF IsEnd
<1>4. CASE \E o \in Admins : AboutToMove(x, reqs[o], store)
    BY <1>1, <1>4 DEF AboutToMove
<1> QED  BY <1>3, <1>4 DEF RedirectsAreSound, FlatBut

LEMMA ReadsStored ==
    ASSUME NEW c \in CIDs, Read(c), trouble' = {}
    PROVE  GetComicInfo(c) = store[c] /\ trouble = {} /\ store' = store /\ ~Overlap'
BY Noted DEF Read, Troubles

LEMMA StartSound ==
    ASSUME RedirectsAreSound, NEW r \in Admins, NEW q, Start(r, q), trouble' = {}, Sound(q, store)
    PROVE  RedirectsAreSound'
<1>1. ~Overlap' /\ store' = store /\ reqs' = [reqs EXCEPT ![r] = q] /\ reqs[r] = Resting
    BY Noted DEF Start, Troubles
<1>2. \A c \in CIDs : ~AboutToMove(c, reqs[r], store)
    BY <1>1 DEF AboutToMove, Unmoved, Resting
<1> QED  BY <1>1, <1>2, StepSound

LEMMA ReadMainSound ==
    ASSUME RedirectsAreSound, NEW r \in Admins, NEW sub \in CIDs, ReadMain(r, sub), trouble' = {}
    PROVE  RedirectsAreSound'
<1> DEFINE p == reqs[r]
           q == [p EXCEPT !.at = "sub", !.sub = sub, !.todo = @ \ {sub}, !.info1 = GetComicInfo(p.main)]
<1>1. Sound(p, store) /\ p.at = "main" /\ sub \in p.todo /\ reqs' = [reqs EXCEPT ![r] = q] /\ Read(p.main)
    BY DEF ReadMain, Advance, RedirectsAreSound
<1>2. p \in Request /\ p.main \in CIDs /\ p.main \notin p.todo /\ p.cid = NoComic /\ p.chain = {}
    BY <1>1 DEF Sound
<1>3. GetComicInfo(p.main) = store[p.main] /\ store' = store /\ ~Overlap' /\ store[p.main] \in Docs
    BY <1>1, <1>2, ReadsStored DEF RedirectsAreSound
<1>4. q \in Request /\ q.at = "sub" /\ q.main = p.main /\ q.sub = sub /\ q.info1 = store[p.main]
      /\ q.chain = {} /\ q.cid = NoComic /\ q.main \notin q.todo
    BY <1>2, <1>3 DEF Request, Phases
<1> HIDE DEF q
<1>5. IsEnd(Target(p.main, store[p.main]), store)
    <2> DEFINE t == store[p.main].redirect
    <2>1. CASE t = NoComic
        BY <2>1 DEF Target, IsEnd
    <2>2. CASE t # NoComic /\ IsEnd(t, store)
        BY <2>2 DEF Target
    <2>3. CASE t # NoComic /\ \E o \in Admins : AboutToMove(p.main, reqs[o], store)
        <3>1. PICK o \in Admins : AboutToMove(p.main, reqs[o], store)
            BY <2>3
        <3>2. o # r
            BY <1>1, <1>2, <3>1 DEF AboutToMove, Unmoved
        <3>3. reqs'[o] = reqs[o] /\ reqs'[r] = q
            BY <1>1, <3>2 DEF RedirectsAreSound, q
        <3>4. t \in Redirected(reqs[o])
            BY <2>3, <3>1 DEF AboutToMove, Redirected
        <3>5. t \in Ends(q)
            BY <1>3, <1>4, <2>3, LinkAssumption DEF Ends
        <3>6. Disturbs(reqs[o], q)
            BY <3>4, <3>5 DEF Disturbs
        <3> QED  BY <1>3, <3>2, <3>3, <3>6 DEF Overlap
    <2> QED  BY <1>2, <2>1, <2>2, <2>3 DEF RedirectsAreSound, FlatBut
<1>6. Sound(q, store)
    BY <1>1, <1>2, <1>4, <1>5 DEF Sound
<1>7. \A c \in CIDs : ~AboutToMove(c, p, store)
    BY <1>1, <1>2 DEF AboutToMove, Unmoved
<1> QED  BY <1>1, <1>3, <1>6, <1>7, StepSound DEF q

LEMMA ReadSubSound ==
    ASSUME RedirectsAreSound, NEW r \in Admins, ReadSub(r) \/ ReadLinked(r), trouble' = {}
    PROVE  RedirectsAreSound'
<1> DEFINE p == reqs[r]
           phase == IF p.at = "sub" THEN "tags" ELSE "unset"
           q == [p EXCEPT !.at = phase, !.info2 = GetComicInfo(p.sub)]
<1>1. Sound(p, store) /\ p.at \in {"sub", "unlink"} /\ reqs' = [reqs EXCEPT ![r] = q] /\ Read(p.sub)
    BY DEF ReadSub, ReadLinked, Advance, RedirectsAreSound
<1>2. p \in Request /\ p.sub \in CIDs /\ p.cid = NoComic /\ p.chain = {}
    BY <1>1 DEF Sound
<1>3. GetComicInfo(p.sub) = store[p.sub] /\ store' = store /\ ~Overlap' /\ store[p.sub] \in Docs
    BY <1>1, <1>2, ReadsStored DEF RedirectsAreSound
<1>a. phase \in {"tags", "unset"} /\ (phase = "tags" <=> p.at = "sub")
    BY <1>1
<1> HIDE DEF phase
<1>4. /\ q \in Request /\ q.info2 = store[p.sub] /\ q.at = phase
      /\ q.main = p.main /\ q.sub = p.sub /\ q.info1 = p.info1 /\ q.todo = p.todo
      /\ q.chain = {} /\ q.cid = NoComic /\ q.target = p.target
    BY <1>2, <1>3, <1>a DEF Request, Phases
<1> HIDE DEF q
<1>5. Sound(q, store)
    BY <1>1, <1>4, <1>a DEF Sound
<1>6. \A c \in CIDs : ~AboutToMove(c, p, store)
    BY <1>1, <1>2 DEF AboutToMove, Unmoved
<1> QED  BY <1>1, <1>3, <1>5, <1>6, StepSound

\* A document that is written as it was read, but for its redirect and more tags.
LEMMA SetGrows ==
    ASSUME NEW doc \in Docs, NEW info \in Docs, doc.tags \subseteq info.tags
    PROVE  /\ Set(doc, info) \in Docs /\ Set(doc, info).tags = info.tags
           /\ Set(doc, info).redirect = IF info.redirect = NoComic THEN doc.redirect ELSE info.redirect
BY DEF Set, Docs

LEMMA Merged ==
    ASSUME NEW info1 \in Docs, NEW info2 \in Docs
    PROVE  /\ Merge(info1, info2) \in Docs /\ Merge(info1, info2).redirect = info1.redirect
           /\ info1.tags \subseteq Merge(info1, info2).tags
BY DEF Merge, Docs

LEMMA UpdateMainSound ==
    ASSUME RedirectsAreSound, NEW r \in Admins, UpdateMain(r), trouble' = {}
    PROVE  RedirectsAreSound' /\ \A c \in CIDs : store[c].tags \subseteq store'[c].tags
<1> DEFINE p == reqs[r]
           info == Merge(p.info1, p.info2)
           d == Set(store[p.main], info)
           q == [p EXCEPT !.at = "redirect", !.info1 = info]
<1>1. /\ Sound(p, store) /\ p.at = "tags" /\ reqs' = [reqs EXCEPT ![r] = q]
      /\ store' = [store EXCEPT ![p.main] = d] /\ ~Overlap'
    BY Noted DEF UpdateMain, UpdateComicInfo, Advance, RedirectsAreSound, Troubles
<1>2. /\ p \in Request /\ p.main \in CIDs /\ p.sub \in CIDs /\ p.sub # p.main /\ p.cid = NoComic /\ p.chain = {}
      /\ p.main \notin p.todo
      /\ p.info1 = store[p.main] /\ p.info2 = store[p.sub] /\ p.info1 \in Docs /\ p.info2 \in Docs
    BY <1>1 DEF Sound, RedirectsAreSound
<1>3. info \in Docs /\ info.redirect = p.info1.redirect /\ p.info1.tags \subseteq info.tags
    BY <1>2, Merged
<1> HIDE DEF info
<1>4. d \in Docs /\ d = info /\ d.redirect = store[p.main].redirect
    BY <1>2, <1>3, SetGrows DEF Docs
<1> HIDE DEF d
<1>5. /\ q \in Request /\ q.at = "redirect" /\ q.info1 = d /\ q.info2 = p.info2
      /\ q.main = p.main /\ q.sub = p.sub /\ q.todo = p.todo
      /\ q.chain = {} /\ q.cid = NoComic /\ q.target = p.target
    BY <1>2, <1>3, <1>4 DEF Request, Phases
<1> HIDE DEF q
<1>6. \A x \in CIDs : store'[x].redirect = store[x].redirect
    BY <1>1, <1>2, <1>4 DEF RedirectsAreSound
<1>7. store'[p.main] = d /\ store'[p.sub] = store[p.sub]
    BY <1>1, <1>2 DEF RedirectsAreSound
<1>8. IsEnd(Target(q.main, q.info1), store')
    <2>1. Target(q.main, q.info1) = Target(p.main, p.info1)
        BY <1>2, <1>4, <1>5 DEF Target
    <2>2. Target(p.main, p.info1) \in CIDs
        BY <1>2 DEF Target, Docs
    <2>3. IsEnd(Target(p.main, p.info1), store)
        BY <1>1 DEF Sound
    <2> QED  BY <1>6, <2>1, <2>2, <2>3 DEF IsEnd
<1>9. Sound(q, store')
    BY <1>2, <1>5, <1>7, <1>8 DEF Sound
<1>10. p.main \in Changed(p)
    BY <1>2, LinkAssumption DEF Changed
<1>11. RedirectsAreSound'
    <2>1. p.at \notin {"query", "chain", "move"}
        BY <1>1
    <2>2. \A x \in CIDs : store'[x].redirect # NoComic =>
            IsEnd(store'[x].redirect, store') \/ \E o \in Admins \ {r} : AboutToMove(x, reqs[o], store')
        BY <1>6, <2>1, SameRedirects
    <2> QED  BY <1>1, <1>2, <1>4, <1>9, <1>10, <2>2, WriteSound
<1>12. \A c \in CIDs : store[c].tags \subseteq store'[c].tags
    BY <1>1, <1>2, <1>3, <1>4 DEF RedirectsAreSound
<1> QED  BY <1>11, <1>12

LEMMA UpdateLinkedSound ==
    ASSUME RedirectsAreSound, NEW r \in Admins, UpdateLinked(r), trouble' = {}
    PROVE  RedirectsAreSound' /\ store' = store
<1> DEFINE p == reqs[r]
           info == [p.info2 EXCEPT !.redirect = NoComic]
           q == [p EXCEPT !.at = "reset", !.info2 = NoComic]
<1>1. /\ Sound(p, store) /\ p.at = "unset" /\ reqs' = [reqs EXCEPT ![r] = q]
      /\ store' = [store EXCEPT ![p.sub] = Set(store[p.sub], info)] /\ ~Overlap'
    BY Noted DEF UpdateLinked, UpdateComicInfo, Advance, RedirectsAreSound, Troubles
<1>2. p \in Request /\ p.sub \in CIDs /\ p.cid = NoComic /\ p.chain = {} /\ p.info2 = store[p.sub] /\ p.info2 \in Docs
    BY <1>1 DEF Sound, RedirectsAreSound
<1>3. Set(store[p.sub], info) = store[p.sub]
    BY <1>2 DEF Set, Docs
<1>4. store' = store
    BY <1>1, <1>3 DEF RedirectsAreSound
<1>5. q \in Request /\ q.at = "reset" /\ q.chain = {} /\ q.cid = NoComic
    BY <1>2 DEF Request, Phases
<1> HIDE DEF q
<1>6. Sound(q, store)
    BY <1>5 DEF Sound
<1>7. \A c \in CIDs : ~AboutToMove(c, p, store)
    BY <1>1, <1>2 DEF AboutToMove, Unmoved
<1> QED  BY <1>1, <1>4, <1>6, <1>7, StepSound

LEMMA UpdateSubSound ==
    ASSUME RedirectsAreSound, NEW r \in Admins, UpdateSub(r), trouble' = {}
    PROVE  RedirectsAreSound' /\ \A c \in CIDs : store[c].tags \subseteq store'[c].tags
<1> DEFINE p == reqs[r]
           target == Target(p.main, p.info1)
           info == [p.info2 EXCEPT !.redirect = target]
           d == Set(store[p.sub], info)
           q == [p EXCEPT !.at = "query", !.target = target]
<1>1. /\ Sound(p, store) /\ p.at = "redirect" /\ reqs' = [reqs EXCEPT ![r] = q]
      /\ store' = [store EXCEPT ![p.sub] = d] /\ ~Overlap'
    BY Noted DEF UpdateSub, UpdateComicInfo, Advance, RedirectsAreSound, Troubles
<1>2. /\ p \in Request /\ p.main \in CIDs /\ p.sub \in CIDs /\ p.cid = NoComic /\ p.chain = {}
      /\ p.main \notin p.todo
      /\ p.info1 = store[p.main] /\ p.info2 = store[p.sub] /\ p.info1 \in Docs /\ p.info2 \in Docs
      /\ IsEnd(target, store)
    BY <1>1 DEF Sound, RedirectsAreSound
<1>3. target \in CIDs /\ target # NoComic
    BY <1>2, LinkAssumption DEF Target, Docs
<1> HIDE DEF target
<1>4. info \in Docs /\ info.redirect = target /\ info.tags = store[p.sub].tags
    BY <1>2, <1>3 DEF Docs
<1>5. d \in Docs /\ d.redirect = target /\ d.tags = store[p.sub].tags
    <2> HIDE DEF info
    <2> QED  BY <1>2, <1>3, <1>4, SetGrows
<1> HIDE DEF info, d
<1>6. /\ q \in Request /\ q.at = "query" /\ q.target = target
      /\ q.main = p.main /\ q.sub = p.sub /\ q.todo = p.todo /\ q.chain = {} /\ q.cid = NoComic
    BY <1>2, <1>3 DEF Request, Phases
<1> HIDE DEF q
<1>7. store'[p.sub] = d /\ \A x \in CIDs : x # p.sub => store'[x] = store[x]
    BY <1>1, <1>2 DEF RedirectsAreSound
<1>8. IsEnd(target, store')
    BY <1>2, <1>3, <1>5, <1>7 DEF IsEnd
<1>9. Sound(q, store')
    BY <1>2, <1>3, <1>5, <1>6, <1>7, <1>8 DEF Sound, Unmoved
<1>10. ASSUME NEW x \in CIDs, store'[x].redirect # NoComic
       PROVE  \/ IsEnd(store'[x].redirect, store')
              \/ AboutToMove(x, q, store')
              \/ \E o \in Admins \ {r} : AboutToMove(x, reqs[o], store')
    <2>1. CASE x = p.sub
        BY <1>5, <1>7, <1>8, <2>1
    <2>2. CASE x # p.sub /\ store[x].redirect = p.sub
        BY <1>6, <1>7, <2>2 DEF AboutToMove
    <2>3. CASE x # p.sub /\ store[x].redirect # p.sub /\ IsEnd(store[x].redirect, store)
        <3>1. store[x].redirect \in CIDs /\ store'[x] = store[x]
            BY <1>7, <1>10, <2>3 DEF RedirectsAreSound, Docs
        <3> QED  BY <1>7, <2>3, <3>1 DEF IsEnd
    <2>4. CASE x # p.sub /\ \E o \in Admins : AboutToMove(x, reqs[o], store)
        <3>1. ~AboutToMove(x, p, store)
            BY <1>1, <1>2 DEF AboutToMove, Unmoved
        <3>2. store'[x] = store[x]
            BY <1>7, <2>4
        <3> QED  BY <2>4, <3>1, <3>2 DEF AboutToMove
    <2>5. x # p.sub => store[x].redirect # NoComic
        BY <1>7, <1>10
    <2> QED  BY <2>1, <2>2, <2>3, <2>4, <2>5 DEF RedirectsAreSound, FlatBut
<1>11. p.sub \in Redirected(p) /\ p.sub \in Changed(p)
    BY <1>2, LinkAssumption DEF Changed, Redirected
<1>12. RedirectsAreSound'
    BY <1>1, <1>2, <1>5, <1>9, <1>10, <1>11, WriteSound
<1>13. \A c \in CIDs : store[c].tags \subseteq store'[c].tags
    BY <1>5, <1>7
<1> QED  BY <1>12, <1>13

LEMMA Continued ==
    ASSUME NEW st, NEW p \in Request, p.main \in CIDs, p.main \notin p.todo
    PROVE  Sound(NextSub(p), st)
<1>1. /\ NextSub(p) \in Request /\ NextSub(p).at \in {"main", "reset"} /\ NextSub(p).main = p.main
      /\ NextSub(p).todo = p.todo /\ NextSub(p).chain = {} /\ NextSub(p).cid = NoComic
    BY DEF NextSub, Request, Phases, Resting
<1> QED  BY <1>1 DEF Sound

LEMMA QueryChainSound ==
    ASSUME RedirectsAreSound, NEW r \in Admins, QueryChain(r), trouble' = {}
    PROVE  RedirectsAreSound'
<1> DEFINE p == reqs[r]
           chain == Chained(p.sub)
           q == [p EXCEPT !.chain = chain]
<1>1. /\ Sound(p, store) /\ p.at = "query" /\ reqs' = [reqs EXCEPT ![r] = NextChained(q)]
      /\ store' = store /\ ~Overlap'
    BY Noted DEF QueryChain, Advance, RedirectsAreSound, Troubles
<1>2. /\ p \in Request /\ p.main \in CIDs /\ p.main \notin p.todo /\ p.cid = NoComic
      /\ p.sub \in CIDs /\ p.target \in CIDs /\ store[p.sub].redirect = p.target /\ IsEnd(p.target, store)
    BY <1>1 DEF Sound
<1>3. chain \subseteq CIDs /\ \A c \in CIDs : c \in chain <=> store[c].redirect = p.sub
    BY DEF Chained
<1> HIDE DEF chain
<1>4. /\ q \in Request /\ q.at = p.at /\ q.chain = chain /\ q.main = p.main /\ q.sub = p.sub
      /\ q.todo = p.todo /\ q.target = p.target /\ q.cid = NoComic
    BY <1>2, <1>3 DEF Request
<1> HIDE DEF q
<1>5. CASE chain = {}
    <2>1. NextChained(q) = NextSub(q)
        BY <1>4, <1>5 DEF NextChained
    <2>2. Sound(NextChained(q), store)
        BY <1>2, <1>4, <2>1, Continued
    <2>3. \A c \in CIDs : ~AboutToMove(c, p, store)
        BY <1>3, <1>5 DEF AboutToMove
    <2> QED  BY <1>1, <2>2, <2>3, StepSound
<1>6. CASE chain # {}
    <2> DEFINE n == NextChained(q)
    <2>1. n = [q EXCEPT !.at = "chain", !.info2 = NoComic, !.cid = NoComic]
        BY <1>4, <1>6 DEF NextChained
    <2>2. /\ n \in Request /\ n.at = "chain" /\ n.chain = chain /\ n.main = p.main /\ n.sub = p.sub
          /\ n.todo = p.todo /\ n.target = p.target /\ n.cid = NoComic
        BY <1>4, <2>1 DEF Request, Phases
    <2> HIDE DEF n
    <2>3. Unmoved(n) = chain
        BY <2>2 DEF Unmoved
    <2>4. Sound(n, store)
        BY <1>2, <1>3, <2>2, <2>3 DEF Sound
    <2>5. \A c \in CIDs : AboutToMove(c, p, store) => AboutToMove(c, n, store)
        BY <1>1, <1>3, <2>2, <2>3 DEF AboutToMove, Unmoved
    <2> QED  BY <1>1, <2>4, <2>5, StepSound DEF n
<1> QED  BY <1>5, <1>6

LEMMA ReadChainedSound ==
    ASSUME RedirectsAreSound, NEW r \in Admins, NEW c \in CIDs, ReadChained(r, c), trouble' = {}
    PROVE  RedirectsAreSound'
<1> DEFINE p == reqs[r]
           q == [p EXCEPT !.at = "move", !.cid = c, !.chain = @ \ {c}, !.info2 = GetComicInfo(c)]
<1>1. Sound(p, store) /\ p.at = "chain" /\ c \in p.chain /\ reqs' = [reqs EXCEPT ![r] = q] /\ Read(c)
    BY DEF ReadChained, Advance, RedirectsAreSound
<1>2. GetComicInfo(c) = store[c] /\ store' = store /\ ~Overlap' /\ store[c] \in Docs
    BY <1>1, ReadsStored DEF RedirectsAreSound
<1>3. /\ p \in Request /\ p.main \in CIDs /\ p.main \notin p.todo /\ p.cid = NoComic
      /\ p.sub \in CIDs /\ p.target \in CIDs /\ store[p.sub].redirect = p.target /\ IsEnd(p.target, store)
      /\ \A x \in p.chain : store[x].redirect = p.sub
    BY <1>1 DEF Sound, Unmoved
<1>4. /\ q \in Request /\ q.at = "move" /\ q.chain = p.chain \ {c} /\ q.main = p.main /\ q.sub = p.sub
      /\ q.todo = p.todo /\ q.target = p.target /\ q.cid = c /\ q.info2 = store[c]
    BY <1>2, <1>3 DEF Request, Phases
<1> HIDE DEF q
<1>5. Unmoved(q) = p.chain /\ Unmoved(p) = p.chain
    BY <1>1, <1>3, <1>4, LinkAssumption DEF Unmoved
<1>6. Sound(q, store)
    BY <1>3, <1>4, <1>5 DEF Sound
<1>7. \A x \in CIDs : AboutToMove(x, p, store) => AboutToMove(x, q, store)
    BY <1>1, <1>4, <1>5 DEF AboutToMove
<1> QED  BY <1>1, <1>2, <1>6, <1>7, StepSound

LEMMA UpdateChainedSound ==
    ASSUME RedirectsAreSound, NEW r \in Admins, UpdateChained(r), trouble' = {}
    PROVE  RedirectsAreSound' /\ \A c \in CIDs : store[c].tags \subseteq store'[c].tags
<1> DEFINE p == reqs[r]
           info == [p.info2 EXCEPT !.redirect = p.target]
           d == Set(store[p.cid], info)
           q == NextChained(p)
<1>1. /\ Sound(p, store) /\ p.at = "move" /\ reqs' = [reqs EXCEPT ![r] = q]
      /\ store' = [store EXCEPT ![p.cid] = d] /\ ~Overlap'
    BY Noted DEF UpdateChained, UpdateComicInfo, Advance, RedirectsAreSound, Troubles
<1>2. /\ p \in Request /\ p.main \in CIDs /\ p.main \notin p.todo /\ p.cid \in CIDs \ p.chain
      /\ p.info2 = store[p.cid] /\ store[p.cid] \in Docs /\ p.cid # NoComic
      /\ p.sub \in CIDs /\ p.target \in CIDs /\ p.target # NoComic
      /\ store[p.sub].redirect = p.target /\ IsEnd(p.target, store)
    BY <1>1, LinkAssumption DEF Sound, RedirectsAreSound
<1>3. p.chain \subseteq CIDs /\ (\A x \in p.chain : store[x].redirect = p.sub) /\ store[p.cid].redirect = p.sub
    BY <1>1, <1>2 DEF Sound, Unmoved, Request
<1>4. info \in Docs /\ info.redirect = p.target /\ info.tags = store[p.cid].tags
    BY <1>2 DEF Docs
<1>5. d \in Docs /\ d.redirect = p.target /\ d.tags = store[p.cid].tags
    <2> HIDE DEF info
    <2> QED  BY <1>2, <1>4, SetGrows
<1> HIDE DEF info, d
<1>6. store'[p.cid] = d /\ \A x \in CIDs : x # p.cid => store'[x] = store[x]
    BY <1>1, <1>2 DEF RedirectsAreSound
<1>7. IsEnd(p.target, store') /\ store'[p.sub].redirect = p.target
    BY <1>2, <1>5, <1>6 DEF IsEnd
<1>8. p.chain # {} =>
        /\ q \in Request /\ q.at = "chain" /\ q.chain = p.chain /\ q.main = p.main /\ q.sub = p.sub
        /\ q.todo = p.todo /\ q.target = p.target /\ q.cid = NoComic
    BY <1>2 DEF NextChained, Request, Phases
<1>9. p.chain = {} => q = NextSub(p)
    BY DEF NextChained
<1> HIDE DEF q
<1>10. Sound(q, store')
    <2>1. CASE p.chain = {}
        BY <1>2, <1>9, <2>1, Continued
    <2>2. CASE p.chain # {}
        <3>1. Unmoved(q) = p.chain
            BY <1>8, <2>2 DEF Unmoved
        <3>2. \A x \in p.chain : store'[x].redirect = p.sub
            BY <1>2, <1>3, <1>6
        <3> QED  BY <1>2, <1>7, <1>8, <2>2, <3>1, <3>2 DEF Sound
    <2> QED  BY <2>1, <2>2
<1>11. ASSUME NEW x \in CIDs, store'[x].redirect # NoComic
       PROVE  \/ IsEnd(store'[x].redirect, store')
              \/ AboutToMove(x, q, store')
              \/ \E o \in Admins \ {r} : AboutToMove(x, reqs[o], store')
    <2>1. CASE x = p.cid
        BY <1>5, <1>6, <1>7, <2>1
    <2> SUFFICES ASSUME x # p.cid
                 PROVE  \/ IsEnd(store[x].redirect, store')
                        \/ AboutToMove(x, q, store')
                        \/ \E o \in Admins \ {r} : AboutToMove(x, reqs[o], store')
        BY <1>6, <2>1
    <2>2. store'[x] = store[x] /\ store[x].redirect \in CIDs
        BY <1>6, <1>11 DEF RedirectsAreSound, Docs
    <2>3. CASE IsEnd(store[x].redirect, store)
        <3>1. CASE store[x].redirect = p.cid
            <4>1. p.sub = p.cid
                BY <1>2, <1>3, <2>3, <3>1, LinkAssumption DEF IsEnd
            <4> QED  BY <1>2, <1>3, <1>7, <3>1, <4>1 DEF IsEnd
        <3>2. CASE store[x].redirect # p.cid
            BY <1>6, <2>2, <2>3, <3>2 DEF IsEnd
        <3> QED  BY <3>1, <3>2
    <2>4. CASE AboutToMove(x, p, store)
        <3>1. x \in p.chain /\ store[x].redirect = p.sub
            BY <1>1, <1>2, <2>4 DEF AboutToMove, Unmoved
        <3> QED  BY <1>8, <2>2, <3>1 DEF AboutToMove, Unmoved
    <2>5. CASE \E o \in Admins \ {r} : AboutToMove(x, reqs[o], store)
        BY <2>2, <2>5 DEF AboutToMove
    <2> QED  BY <1>6, <1>11, <2>3, <2>4, <2>5 DEF RedirectsAreSound, FlatBut
<1>12. p.cid \in Redirected(p) /\ p.cid \in Changed(p)
    BY <1>2 DEF Changed, Redirected
<1>13. RedirectsAreSound'
    BY <1>1, <1>2, <1>5, <1>10, <1>11, <1>12, WriteSound
<1>14. \A c \in CIDs : store[c].tags \subseteq store'[c].tags
    BY <1>5, <1>6
<1> QED  BY <1>13, <1>14

\* A request's step, with nothing in its way.
LEMMA RequestSound ==
    ASSUME RedirectsAreSound, NEW r \in Admins, RequestStep(r), trouble' = {}
    PROVE  RedirectsAreSound' /\ \A c \in CIDs : store[c].tags \subseteq store'[c].tags
<1>1. ASSUME NEW m \in CIDs, NEW s \in SUBSET CIDs, LinkComics(r, m, s)
      PROVE  RedirectsAreSound' /\ store' = store
    <2> DEFINE q == [Resting EXCEPT !.at = "main", !.main = m, !.todo = s]
    <2>1. /\ q \in Request /\ q.at = "main" /\ q.main = m /\ q.todo = s /\ m \notin s
          /\ q.chain = {} /\ q.cid = NoComic
        BY <1>1 DEF LinkComics, Resting, Request, Phases
    <2>2. Start(r, q)
        BY <1>1 DEF LinkComics
    <2> HIDE DEF q
    <2>3. Sound(q, store)
        BY <2>1 DEF Sound
    <2> QED  BY <2>2, <2>3, StartSound DEF Start
<1>2. ASSUME NEW sub \in CIDs, UnlinkComics(r, sub)
      PROVE  RedirectsAreSound' /\ store' = store
    <2> DEFINE q == [Resting EXCEPT !.at = "unlink", !.sub = sub]
    <2>1. q \in Request /\ q.at = "unlink" /\ q.sub = sub /\ q.chain = {} /\ q.cid = NoComic
        BY DEF Resting, Request, Phases
    <2>2. Start(r, q)
        BY <1>2 DEF UnlinkComics
    <2> HIDE DEF q
    <2>3. Sound(q, store)
        BY <2>1 DEF Sound
    <2> QED  BY <2>2, <2>3, StartSound DEF Start
<1>3. ASSUME NEW sub \in CIDs, ReadMain(r, sub) \/ ReadChained(r, sub)
      PROVE  RedirectsAreSound' /\ store' = store
    BY <1>3, ReadMainSound, ReadChainedSound DEF ReadMain, ReadChained, Read
<1>4. CASE ReadSub(r) \/ ReadLinked(r)
    BY <1>4, ReadSubSound DEF ReadSub, ReadLinked, Read
<1>5. CASE UpdateMain(r)
    BY <1>5, UpdateMainSound
<1>6. CASE UpdateSub(r)
    BY <1>6, UpdateSubSound
<1>7. CASE QueryChain(r)
    BY <1>7, QueryChainSound DEF QueryChain
<1>8. CASE UpdateChained(r)
    BY <1>8, UpdateChainedSound
<1>9. CASE UpdateLinked(r)
    BY <1>9, UpdateLinkedSound
<1>10. CASE Reset(r)
    <2>1. ~Overlap' /\ store' = store /\ reqs' = [reqs EXCEPT ![r] = Resting] /\ reqs[r].at = "reset"
        BY <1>10, Noted DEF Reset, Advance, Troubles
    <2>2. Sound(Resting, store)
        BY DEF Sound, Resting, Request, Phases
    <2>3. \A c \in CIDs : ~AboutToMove(c, reqs[r], store)
        BY <2>1 DEF AboutToMove, Unmoved, RedirectsAreSound, Sound
    <2> QED  BY <2>1, <2>2, <2>3, StepSound
<1>11. ~CallFails(r)
    BY Noted DEF CallFails, Troubles
<1> QED  BY <1>1, <1>2, <1>3, <1>4, <1>5, <1>6, <1>7, <1>8, <1>9, <1>10, <1>11 DEF RequestStep

\* And any step, with nothing in its way.
LEMMA LinksStep ==
    ASSUME LinksInv, [LinkNext]_linkVars, trouble' = {}
    PROVE  RedirectsAreSound' /\ \A c \in CIDs : store[c].tags \subseteq store'[c].tags
<1>1. trouble = {}
    BY DEF LinkNext, RequestStep, LinkComics, UnlinkComics, ReadMain, ReadSub, UpdateMain, UpdateSub,
           QueryChain, ReadChained, UpdateChained, ReadLinked, UpdateLinked, Reset, CallFails,
           Start, Read, UpdateComicInfo, Note, ViewReads, ViewStores, Evict, Restart, linkVars
<1>2. RedirectsAreSound
    BY <1>1 DEF LinksInv
<1>3. CASE \E r \in Admins : RequestStep(r)
    BY <1>2, <1>3, RequestSound
<1>4. ASSUME store' = store, reqs' = reqs
      PROVE  RedirectsAreSound' /\ \A c \in CIDs : store[c].tags \subseteq store'[c].tags
    BY <1>2, <1>4 DEF RedirectsAreSound, Overlap
<1>5. CASE Restart
    <2>1. \A r \in Admins : reqs[r] = Resting
        BY <1>5, Noted DEF Restart, Troubles
    <2>2. reqs' = reqs /\ store' = store
        BY <1>2, <1>5, <2>1 DEF Restart, RedirectsAreSound
    <2> QED  BY <1>4, <2>2
<1>6. CASE (\E v \in Views : ViewStores(v) \/ \E c \in CIDs : ViewReads(v, c)) \/ \E c \in CIDs : Evict(c)
    BY <1>4, <1>6 DEF ViewStores, ViewReads, Evict
<1>7. CASE UNCHANGED linkVars
    BY <1>4, <1>7 DEF linkVars
<1> QED  BY <1>3, <1>5, <1>6, <1>7 DEF LinkNext

LEMMA LinksInitially == LinkInit => LinksInv
<1> SUFFICES ASSUME LinkInit PROVE RedirectsAreSound
    BY DEF LinksInv
<1>1. store \in [CIDs -> Docs] /\ (\A c \in CIDs : store[c].redirect = NoComic)
    BY DEF LinkInit, Docs
<1>2. \A r \in Admins : reqs[r] = Resting
    BY DEF LinkInit
<1>3. Sound(Resting, store) /\ Resting \in Request
    BY DEF Sound, Resting, Request, Phases
<1>4. Changed(Resting) = {} /\ Ends(Resting) = {}
    BY DEF Changed, Redirected, Ends, Resting
<1>5. ~Overlap
    BY <1>2, <1>4 DEF Overlap, Disturbs
<1>6. reqs \in [Admins -> Request]
    BY <1>3 DEF LinkInit
<1> QED  BY <1>1, <1>2, <1>3, <1>5, <1>6 DEF RedirectsAreSound, FlatBut

\* Once the link and unlink requests are done that had their comics for themselves, every
\* comic that redirects leads to one with pages, or to one linked to itself, however many
\* comics were linked to the sub before (linkSingleComic, propagateRedirectChain).
THEOREM RedirectsCorrect == LinkSpec => []LinksFlat
<1>1. LinkInit => LinksInv
    BY LinksInitially
<1>2. LinksInv /\ [LinkNext]_linkVars => LinksInv'
    BY LinksStep DEF LinksInv
<1>3. LinksInv => LinksFlat
    BY LinkAssumption DEF LinksInv, RedirectsAreSound, LinksFlat, AtRest, Flat, FlatBut, IsEnd, AboutToMove, Unmoved, Resting
<1> QED  BY <1>1, <1>2, <1>3, PTL DEF LinkSpec

\* Whole documents are written back by requests under way at once, and no tag is lost: what
\* a request writes is what is stored, but for the redirect and the tags of the comic linked
\* to it (linkSingleComic, UpdateComicInfo).
THEOREM TagsKept == LinkSpec => TagsGrow
<1>1. LinksInv /\ [LinkNext]_linkVars => [trouble' = {} => \A c \in CIDs : store[c].tags \subseteq store'[c].tags]_linkVars
    BY LinksStep
<1>2. LinksInv /\ [LinkNext]_linkVars => LinksInv'
    BY LinksStep DEF LinksInv
<1> QED  BY <1>1, <1>2, LinksInitially, PTL DEF LinkSpec, TagsGrow
==================================================================================
