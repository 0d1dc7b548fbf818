-------------------------------- MODULE Thumbnails -------------------------------
(***************************************************************************)
(* The pages on a gallery page: thumbnails or, in large mode, the original *)
(* images; loaded when they are scrolled near (LazyLoader), switched and   *)
(* scaled by the user, who finds the mode and the width again later.       *)
(***************************************************************************)
EXTENDS Naturals, Integers, FiniteSetsExt

CONSTANTS Images,                      \* the images of the pages
          ZoomMin, ZoomMax, ZoomStep   \* 60, 1200 and 20 in the code

ASSUME ZoomAssumption ==
    /\ ZoomMin \in Nat /\ ZoomMax \in Nat /\ ZoomStep \in Nat \ {0}
    /\ ZoomMin <= ZoomMax

VARIABLES
    initialised,         \* initGalleryPage has run
    started,             \* the lazy loader has chosen a placeholder and started
    watched,             \* images the IntersectionObserver observes
    large,               \* class large-mode; the zoom sidebar is displayed
    dataSrc, thumbSrc,   \* data-src and data-thumb-src ("" when absent) of each image
    src,                 \* what each image shows or loads
    width,               \* --thumb-w and the slider
    sidebarOpen,         \* class mobile-open
    storedMode, storedWidth   \* largeMode and thumbZoom in localStorage

served == <<initialised, started, watched, large, dataSrc, thumbSrc, src, width, sidebarOpen>>
stored == <<storedMode, storedWidth>>
thumbs == <<served, stored>>

Placeholders == {"gif", "png"}
Widths == {w \in ZoomMin..ZoomMax : (w - ZoomMin) % ZoomStep = 0}

\* gallery_detail.tpl: the server always sends thumbnails, a gif standing for each.
ThumbsInit ==
    /\ initialised = FALSE /\ started = FALSE /\ watched = {} /\ large = FALSE
    /\ dataSrc = [i \in Images |-> "thumb"] /\ thumbSrc = [i \in Images |-> ""]
    /\ src = [i \in Images |-> "gif"] /\ width = ZoomMax /\ sidebarOpen = FALSE
    /\ storedMode = "" /\ storedWidth = 0

Reload ==
    /\ initialised' = FALSE /\ started' = FALSE /\ watched' = {} /\ large' = FALSE
    /\ dataSrc' = [i \in Images |-> "thumb"] /\ thumbSrc' = [i \in Images |-> ""]
    /\ src' = [i \in Images |-> "gif"] /\ width' = ZoomMax /\ sidebarOpen' = FALSE
    /\ UNCHANGED stored

--------------------------------------------------------------------------------
\* toggleLargeMode.  An image that shows the gif has not been loaded and keeps it.

Loaded(i, url) == IF src[i] = "gif" THEN "gif" ELSE url

EnterLarge ==
    /\ large' = TRUE /\ storedMode' = "true"
    /\ thumbSrc' = dataSrc
    /\ dataSrc' = [i \in Images |-> "original"]
    /\ src' = [i \in Images |-> Loaded(i, "original")]

\* As if the images on display were all that has to go back.
ExitShownOnly ==
    /\ large' = FALSE /\ storedMode' = "false"
    /\ src' = [i \in Images |-> IF thumbSrc[i] = "" THEN src[i] ELSE Loaded(i, thumbSrc[i])]
    /\ UNCHANGED <<dataSrc, thumbSrc>>
ExitLarge ==
    /\ large' = FALSE /\ storedMode' = "false"
    /\ dataSrc' = [i \in Images |-> IF thumbSrc[i] = "" THEN dataSrc[i] ELSE thumbSrc[i]]
    /\ src' = [i \in Images |-> IF thumbSrc[i] = "" THEN src[i] ELSE Loaded(i, thumbSrc[i])]
    /\ UNCHANGED thumbSrc

toggleLargeMode ==
    /\ initialised
    /\ IF large THEN ExitLarge ELSE EnterLarge
    /\ UNCHANGED <<initialised, started, watched, width, sidebarOpen, storedWidth>>

\* initThumbnailZoom stores the width it starts from.
initThumbnailZoom ==
    /\ width' = IF storedWidth \in ZoomMin..ZoomMax THEN storedWidth ELSE width
    /\ storedWidth' = width'

\* initLargeModeToggle enters the mode the page was left in; the server's page never
\* is in large mode.
initLargeModeToggle ==
    IF storedMode = "true" THEN EnterLarge
    ELSE UNCHANGED <<large, storedMode, dataSrc, thumbSrc, src>>

\* initGalleryPage.
Initialise ==
    /\ ~initialised /\ initialised' = TRUE
    /\ initThumbnailZoom /\ initLargeModeToggle
    /\ UNCHANGED <<started, watched, sidebarOpen>>

--------------------------------------------------------------------------------
\* The zoom sidebar, displayed in large mode.

Zoom(w) ==
    /\ initialised /\ large
    /\ width' = w /\ storedWidth' = w
    /\ UNCHANGED <<initialised, started, watched, large, dataSrc, thumbSrc, src, sidebarOpen, storedMode>>

ZoomIn == Zoom(Min({ZoomMax, width + ZoomStep}))
ZoomOut == Zoom(Max({ZoomMin, width - ZoomStep}))
\* The slider, the presets and, with the widest, the reset.
ZoomTo == \E w \in Widths : Zoom(w)

toggleMobileZoom ==
    /\ sidebarOpen' = ~sidebarOpen
    /\ UNCHANGED <<initialised, started, watched, large, dataSrc, thumbSrc, src, width, stored>>

--------------------------------------------------------------------------------
\* LazyLoader.

\* LazyLoader.start: every image shows the placeholder and is observed.
start(kind) ==
    /\ started' = TRUE
    /\ src' = [i \in Images |-> kind] /\ watched' = Images

\* A gif if the browser gets its size right, else a drawn or a fixed png.  The tests
\* load images, so this comes after initGalleryPage.
install_lazy_loader ==
    /\ initialised /\ ~started
    /\ \E kind \in Placeholders : start(kind)
    /\ UNCHANGED <<initialised, large, dataSrc, thumbSrc, width, sidebarOpen, stored>>

\* get_cdn_url leaves the address as it is: only hosts i and t get another number.
handle_image_loaded(i) == src' = [src EXCEPT ![i] = dataSrc[i]]

Near(i) ==
    /\ i \in watched /\ watched' = watched \ {i}
    /\ handle_image_loaded(i)
    /\ UNCHANGED <<initialised, started, large, dataSrc, thumbSrc, width, sidebarOpen, stored>>

ThumbsNext ==
    \/ Initialise \/ toggleLargeMode \/ ZoomIn \/ ZoomOut \/ ZoomTo \/ toggleMobileZoom
    \/ install_lazy_loader
    \/ \E i \in Images : Near(i)
    \/ Reload

ThumbsSpec == ThumbsInit /\ [][ThumbsNext]_thumbs
--------------------------------------------------------------------------------

ThumbsTypeOK ==
    /\ initialised \in BOOLEAN /\ started \in BOOLEAN /\ large \in BOOLEAN
    /\ sidebarOpen \in BOOLEAN /\ watched \subseteq Images
    /\ dataSrc \in [Images -> {"thumb", "original"}]
    /\ thumbSrc \in [Images -> {"", "thumb", "original"}]
    /\ src \in [Images -> Placeholders \cup {"thumb", "original"}]
    /\ width \in ZoomMin..ZoomMax /\ storedWidth \in ZoomMin..ZoomMax \cup {0}
    /\ storedMode \in {"", "true", "false"}

\* In whatever order the mode is switched, the loader starts, images come near and the
\* page is loaded again: every image that shows more than a placeholder shows the kind
\* of the current mode, and what is loaded later will too (toggleLargeMode,
\* handle_image_loaded).
ImagesMatchMode ==
    LET kind == IF large THEN "original" ELSE "thumb" IN
    \A i \in Images : dataSrc[i] = kind /\ src[i] \in Placeholders \cup {kind}
==================================================================================
