------------------------------- MODULE AdminCompare ------------------------------
(***************************************************************************)
(* The comparison of two comics on the admin page: compare, look at the    *)
(* pages that differ side by side, link one comic to the other, and the    *)
(* table of links.                                                         *)
(***************************************************************************)
EXTENDS Naturals, Sequences, SequencesExt, FiniteSets, Filtering

CONSTANTS Comics,     \* what the CID inputs can hold
          Differing,  \* for each pair, the pages that differ, in the table's order
          TagsOf,     \* the type and name of each comic's tags, a sequence
          Url,        \* the comics in the page's address (?cids=), a sequence
          Overlays,   \* the preview overlays, in the order they are opened in
          Asks,       \* the requests of the page that can be under way together
          Nothing        \* nothing

ASSUME CompareAssumption ==
    /\ DOMAIN Differing = Comics \X Comics /\ DOMAIN TagsOf = Comics
    /\ \A p \in Comics \X Comics : Differing[p] \in Seq(Range(Differing[p]))
    /\ Url \in Seq(Comics)

VARIABLES
    current,             \* currentCID1, currentCID2
    compared,            \* the pair of compareData: its table, tags and link form are on display
    diff,                \* the tag differences displayed
    bar,                 \* the comics of the multi-comic bar, <<>> when it is hidden
    overlays, pictures,  \* preview overlays in the document; page and pair each of them shows
    files, at,           \* _previewFiles, _previewIndex (from 1; 0 before a preview)
    scroll,              \* the body scrolls
    asks,                \* requests under way
    loaded,              \* the tables of links are there
    view                 \* the table of links displayed

compare == <<current, compared, diff, bar>>
preview == <<overlays, pictures, files, at, scroll>>
links == <<loaded, view>>
admin == <<compare, preview, asks, links>>

NoPair == <<Nothing, Nothing>>
Pairs == {p \in Comics \X Comics : p[1] # p[2]}

\* The first two comics of the address are compared as if typed; the others go to the bar.
Pending == IF Len(Url) > 2 THEN SubSeq(Url, 3, Len(Url)) ELSE <<>>

AdminInit ==
    /\ current = NoPair /\ compared = NoPair /\ diff = Nothing /\ bar = <<>>
    /\ overlays = <<>> /\ pictures = [o \in Overlays |-> Nothing]
    /\ files = <<>> /\ at = 0 /\ scroll = TRUE
    /\ asks = [k \in Asks |-> Nothing]
    /\ loaded = FALSE /\ view = "current"

--------------------------------------------------------------------------------
\* The preview.  An overlay has no lock on the focus: the button behind it can be
\* pressed again, and the getters by id then find the first overlay.

closePreview ==
    IF overlays = <<>> THEN UNCHANGED preview
    ELSE /\ overlays' = Tail(overlays)
         /\ pictures' = [pictures EXCEPT ![Head(overlays)] = Nothing]
         /\ scroll' = TRUE
         /\ UNCHANGED <<files, at>>

ClosePreview ==     \* Escape as well
    /\ overlays # <<>> /\ closePreview
    /\ UNCHANGED <<compare, asks, links>>

\* renderCompareResult: the rows with a preview button.
Rows == IF compared = NoPair THEN <<>> ELSE Differing[compared]

showPreview(o, i) ==
    /\ o \notin Range(overlays)
    /\ files' = Rows /\ at' = i
    /\ overlays' = Append(overlays, o)
    /\ pictures' = [pictures EXCEPT ![o] = [page |-> Rows[i], of |-> current]]
    /\ scroll' = FALSE
    /\ UNCHANGED <<compare, asks, links>>

\* As if the list were taken from compareData when it is needed.
TurnLive(delta) ==
    LET list == Rows
        next == ((at - 1 + delta + Len(list)) % Len(list)) + 1
    IN
    /\ overlays # <<>> /\ list # <<>>
    /\ at' = next
    /\ pictures' = [pictures EXCEPT ![Head(overlays)] = [page |-> list[next], of |-> current]]
    /\ UNCHANGED <<overlays, files, scroll>>
Turn(delta) ==
    LET next == ((at - 1 + delta + Len(files)) % Len(files)) + 1 IN
    /\ overlays # <<>> /\ files # <<>>
    /\ at' = next
    /\ pictures' = [pictures EXCEPT ![Head(overlays)] = [page |-> files[next], of |-> current]]
    /\ UNCHANGED <<overlays, files, scroll>>
previewNav ==     \* the arrow keys as well; one to the left is Len - 1 to the right
    /\ overlays # <<>> /\ \E delta \in {1, Len(files) - 1} : Turn(delta)
    /\ UNCHANGED <<compare, asks, links>>

--------------------------------------------------------------------------------
\* Comparing.

Ask(request) == \E k \in Asks : asks[k] = Nothing /\ asks' = [asks EXCEPT ![k] = request]
Answered(k) == [asks EXCEPT ![k] = Nothing]
Load(k) == [asks EXCEPT ![k] = [kind |-> "links", of |-> NoPair]]

\* What was clicked, and the numbers typed, are taken at once; the answer comes later.
Compare(pair) ==
    /\ closePreview
    /\ current' = pair
    /\ Ask([kind |-> "compare", of |-> pair])
    /\ UNCHANGED <<compared, diff, bar, links>>
compareComics == \E pair \in Pairs : Compare(pair)     \* typed, swapped or from the address

\* renderCompareResult's part: the comics the bar shows with the comparison.
BarOf(pair) ==
    LET named == <<pair[1]>> \o Pending IN
    IF Pending = <<>> THEN bar
    ELSE IF pair[2] \in Range(named) THEN named ELSE Append(named, pair[2])

\* The tags that only one of the two has, and those of both.
TagDiff(pair) ==
    LET mine == TagsOf[pair[1]]  yours == TagsOf[pair[2]] IN
    [onlyIn1 |-> Without(mine, Range(yours)),
     onlyIn2 |-> Without(yours, Range(mine)),
     inBoth  |-> Without(mine, Range(mine) \ Range(yours))]

\* The table, the tags and the link form are this answer's.
CompareAnswered(k) ==
    /\ asks[k] # Nothing /\ asks[k].kind = "compare"
    /\ compared' = asks[k].of /\ diff' = TagDiff(asks[k].of)
    /\ bar' = BarOf(asks[k].of)
    /\ asks' = Load(k)
    /\ UNCHANGED <<current, preview, links>>

\* Of the comics but the new main one, the first becomes the target: the bar's others
\* may be lost by it.
selectMainComic(c) ==
    LET all == current \o Pending
        others == Without(all, {c})
    IN
    /\ c \in Range(bar) /\ c # current[1] /\ others # <<>>
    /\ Compare(<<c, Head(others)>>)

--------------------------------------------------------------------------------
\* Linking.  The link form holds the pair compared until something else is typed in it;
\* the table of all links offers to unlink any of them.

ChangeLinks(kind) ==
    /\ Ask([kind |-> kind, of |-> NoPair])
    /\ UNCHANGED <<compare, preview, links>>
confirmLink == compared # NoPair /\ ChangeLinks("link")
unlinkComic == loaded /\ ChangeLinks("unlink")

LinksChanged(k) ==
    /\ asks[k] # Nothing /\ asks[k].kind \in {"link", "unlink"}
    /\ asks' = Load(k)
    /\ UNCHANGED <<compare, preview, links>>

\* renderLinksTable: both tables made anew, the one of the comparison displayed.
LinksLoaded(k) ==
    /\ asks[k] # Nothing /\ asks[k].kind = "links"
    /\ loaded' = TRUE /\ view' = "current"
    /\ asks' = Answered(k)
    /\ UNCHANGED <<compare, preview>>

AskFails(k) ==
    /\ asks[k] # Nothing /\ asks' = Answered(k)
    /\ UNCHANGED <<compare, preview, links>>

switchLinksView(mode) ==
    /\ loaded /\ view' = mode
    /\ UNCHANGED <<compare, preview, asks, loaded>>

AdminNext ==
    \/ compareComics \/ ClosePreview \/ previewNav \/ confirmLink \/ unlinkComic
    \/ \E o \in Overlays, i \in DOMAIN Rows : showPreview(o, i)
    \/ \E c \in Comics : selectMainComic(c)
    \/ \E k \in Asks : CompareAnswered(k) \/ LinksChanged(k) \/ LinksLoaded(k) \/ AskFails(k)
    \/ \E mode \in {"current", "all"} : switchLinksView(mode)

AdminSpec == AdminInit /\ [][AdminNext]_admin
--------------------------------------------------------------------------------

MaybePair == Pairs \cup {NoPair}

AdminTypeOK ==
    /\ current \in MaybePair /\ compared \in MaybePair /\ loaded \in BOOLEAN
    /\ bar \in Seq(Comics) /\ overlays \in Seq(Overlays) /\ IsInjective(overlays)
    /\ \A o \in Overlays : pictures[o] # Nothing <=> o \in Range(overlays)
    /\ at \in Nat /\ scroll \in BOOLEAN /\ view \in {"current", "all"}

\* However late another comparison is answered while the preview is open, the counter
\* and the arrow keys stay within the pages the preview was opened with (showPreview,
\* previewNav).
PreviewFits == overlays # <<>> => at \in 1..Len(files)
==================================================================================
