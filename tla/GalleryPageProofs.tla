----------------------------- MODULE GalleryPageProofs ---------------------------
(***************************************************************************)
(* What holds of the two tools of a gallery page, which share no state:    *)
(* of its buttons for every number of requests a page can have under way,  *)
(* and of the page manager for every number of pages, of unsaved changes   *)
(* and of saves under way, and for all comics pages come from.             *)
(***************************************************************************)
EXTENDS GalleryActions, PageManager, FilteringTheorems, TLAPS

USE NoneAssumption

\* Every request under way has a button of its own, and the buttons that are loading
\* are those of the requests under way.
OneEach ==
    /\ \A c, d \in Conns :
        flight[c] # None /\ flight[d] # None /\ flight[c].btn = flight[d].btn => c = d
    /\ \A b \in Buttons :
        btn[b].loading <=> \E c \in Conns : flight[c] # None /\ flight[c].btn = b

IInv == TypeOK /\ OneEach

LEMMA Rendered ==
    ASSUME NEW doc \in Docs, NEW does \in {"archive", "restore"}
    PROVE  /\ RenderButtons(does) \in [Buttons -> OnPage]
           /\ \A b \in Buttons : ~RenderButtons(does)[b].loading
           /\ RenderLike(doc) \in [on : BOOLEAN, liked : BOOLEAN]
           /\ doc.liked \in BOOLEAN
BY DEF RenderButtons, RenderLike, Fresh, Buttons, OnPage, Ops, Docs

LEMMA Start == Init => IInv
<1> SUFFICES ASSUME Init PROVE IInv
    OBVIOUS
<1>1. PICK does \in {"archive", "restore"} : btn = RenderButtons(does)
    BY DEF Init
<1>2. TypeOK
    BY <1>1, Rendered DEF Init, TypeOK
<1>3. OneEach
    BY <1>1, Rendered DEF Init, OneEach, Docs
<1> QED  BY <1>2, <1>3 DEF IInv

--------------------------------------------------------------------------------
(* The document: what is written of what somebody has read.                *)

\* What a handler gets is a document; written as a whole it keeps the mark of a deletion that
\* the stored one bears, and brings in the like that it has itself.
LEMMA WrittenIsDoc ==
    ASSUME TypeOK, NEW doc \in Docs
    PROVE  /\ Stored \in Docs /\ (record # None => Stored = record)
           /\ \A rec \in Written(doc) :
                /\ rec \in Docs
                /\ Stored.deleted => rec.deleted
                /\ doc.liked => rec.liked
BY DEF TypeOK, Docs, Stored, Written

\* The writes of the handlers: what is stored stays a document, and a deletion stays one.
LEMMA HandlersWrite ==
    ASSUME TypeOK, AddLikeTag \/ ArchiveByID \/ OnlyRead
    PROVE  /\ record' \in Docs \cup {None} /\ cached' \in Docs \cup {None}
           /\ UNCHANGED <<view, held, deleting>>
           /\ record # None => record' # None /\ (record.deleted => record'.deleted)
           /\ AddLikeTag /\ record # None /\ Got.liked = record.liked => record'.liked
           /\ ArchiveByID \/ OnlyRead => record' = record \/ record = None
<1>1. Got \in Docs \cup {None}
    BY DEF Got, TypeOK
<1>2. record \in Docs \cup {None} /\ cached \in Docs \cup {None}
    BY DEF TypeOK
<1>3. CASE AddLikeTag /\ Got.liked
    <2>1. CASE record' = record /\ cached' = Got
        BY <1>1, <1>2, <1>3, <2>1 DEF AddLikeTag, ArchiveByID, OnlyRead, Stored
    <2> QED  BY <1>3, <2>1 DEF AddLikeTag
<1>4. CASE AddLikeTag /\ ~Got.liked
    <2> DEFINE doc == [Got EXCEPT !.liked = TRUE]
    <2>1. doc \in Docs /\ doc.liked
        BY <1>1, <1>4 DEF AddLikeTag, Docs
    <2>2. \E rec \in Written(doc) : Updated(rec)
        BY <1>4 DEF AddLikeTag
    <2> HIDE DEF doc
    <2>3. PICK rec \in Written(doc) : record' = rec /\ cached' = None
        BY <2>2 DEF Updated
    <2>4. /\ rec \in Docs /\ rec.liked /\ (record # None => Stored = record)
          /\ Stored.deleted => rec.deleted
        BY <2>1, WrittenIsDoc
    <2>5. UNCHANGED <<view, held, deleting>>
        BY <1>4 DEF AddLikeTag
    <2>6. record' # None
        BY <2>3, <2>4
    <2>7. record' = record \/ record = None \/ ~(ArchiveByID \/ OnlyRead)
        BY DEF ArchiveByID, OnlyRead, Stored
    <2> QED  BY <2>3, <2>4, <2>5, <2>6, <2>7
<1>5. CASE (ArchiveByID \/ OnlyRead) /\ ~AddLikeTag
    <2>1. Stored \in Docs /\ (record # None => Stored = record)
        BY DEF Stored, TypeOK, Docs
    <2>2. record' \in {Stored, record} /\ cached' \in {cached, Got, Stored}
        BY <1>5 DEF ArchiveByID, OnlyRead
    <2> QED  BY <1>1, <1>2, <1>5, <2>1, <2>2 DEF ArchiveByID, OnlyRead
<1> QED  BY <1>3, <1>4, <1>5

--------------------------------------------------------------------------------
(* Clicks.                                                                 *)

\* A button that is not loading asks: its request is the only one of its button.
LEMMA AskStep ==
    ASSUME IInv, NEW b \in Buttons, NEW op \in Ops, Ask(b, op), UNCHANGED <<server, sure>>,
           like' \in [on : BOOLEAN, liked : BOOLEAN], likeTag' \in BOOLEAN
    PROVE  IInv'
<1>1. PICK c \in Conns :
        /\ flight[c] = None
        /\ flight' = [flight EXCEPT ![c] = [op |-> op, btn |-> b, answer |-> "none"]]
    BY DEF Ask
<1>2. /\ ~btn[b].loading
      /\ btn' = [btn EXCEPT ![b].loading = TRUE]
    BY DEF Ask, MayAsk, LoadingStart
<1>3. [op |-> op, btn |-> b, answer |-> "none"] \in Requests
    BY DEF Requests
<1>4. TypeOK'
    BY <1>1, <1>2, <1>3 DEF server, IInv, TypeOK, OnPage
<1>5. OneEach'
    <2>1. \A d \in Conns : flight[d] # None => flight[d].btn # b
        BY <1>2 DEF IInv, OneEach
    <2>2. \A d \in Conns \ {c} : flight'[d] = flight[d]
        BY <1>1 DEF IInv, TypeOK
    <2>3. flight'[c] # None /\ flight'[c].btn = b
        BY <1>1, <1>3 DEF IInv, TypeOK
    <2>4. \A e \in Buttons : btn'[e].loading <=> btn[e].loading \/ e = b
        BY <1>2 DEF IInv, TypeOK, OnPage
    <2> QED  BY <1>1, <2>1, <2>2, <2>3, <2>4 DEF IInv, OneEach
<1> QED  BY <1>4, <1>5 DEF IInv

LEMMA ClickStep ==
    ASSUME IInv,
           AddLikeGroup \/ ArchiveComic \/ ArchiveComicForce \/ RestoreComic \/ VerifyComic
    PROVE  IInv'
<1> USE DEF IInv, TypeOK, Buttons, Ops
<1>1. CASE AddLikeGroup
    <2>1. like' \in [on : BOOLEAN, liked : BOOLEAN]
        BY <1>1 DEF AddLikeGroup, OptimisticToggle
    <2>2. PICK op \in {"like", "unlike"} : Ask("like", op)
        BY <1>1 DEF AddLikeGroup
    <2> QED  BY <1>1, <2>1, <2>2, AskStep DEF AddLikeGroup
<1>2. CASE ArchiveComic
    BY <1>2, AskStep DEF ArchiveComic
<1>3. CASE ArchiveComicForce
    BY <1>3, AskStep DEF ArchiveComicForce
<1>4. CASE RestoreComic
    BY <1>4, AskStep DEF RestoreComic
<1>5. CASE VerifyComic
    BY <1>5, AskStep DEF VerifyComic
<1> QED  BY <1>1, <1>2, <1>3, <1>4, <1>5

--------------------------------------------------------------------------------
(* The server, and what is lost on the way.                                *)

LEMMA ServeStep ==
    ASSUME IInv, NEW c \in Conns, Serve(c)
    PROVE  IInv'
<1>1. flight[c] # None /\ flight[c] \in Requests
    BY DEF Serve, IInv, TypeOK
<1>2. PICK answer \in Answers : flight' = [flight EXCEPT ![c].answer = answer]
    BY DEF Serve
<1>3. /\ flight'[c] \in Requests
      /\ flight'[c].op = flight[c].op /\ flight'[c].btn = flight[c].btn
      /\ \A d \in Conns \ {c} : flight'[d] = flight[d]
      /\ flight' \in [Conns -> Requests \cup {None}]
    BY <1>1, <1>2 DEF Requests, IInv, TypeOK
<1>4. AddLikeTag \/ ArchiveByID \/ OnlyRead
    BY DEF Serve
<1>5. sure' \in BOOLEAN
    BY DEF Serve, IInv, TypeOK
<1>6. TypeOK'
    BY <1>3, <1>4, <1>5, HandlersWrite DEF Serve, page, IInv, TypeOK
<1>7. OneEach'
    BY <1>1, <1>3 DEF Serve, page, IInv, OneEach
<1> QED  BY <1>6, <1>7 DEF IInv

LEMMA LoseStep ==
    ASSUME IInv, NEW c \in Conns, Lose(c)
    PROVE  IInv'
<1>1. flight[c] # None /\ flight[c] \in Requests
    BY DEF Lose, IInv, TypeOK
<1>2. /\ flight'[c] \in Requests /\ flight'[c].answer = "lost"
      /\ flight'[c].op = flight[c].op /\ flight'[c].btn = flight[c].btn
      /\ \A d \in Conns \ {c} : flight'[d] = flight[d]
      /\ flight' \in [Conns -> Requests \cup {None}]
    BY <1>1 DEF Lose, Requests, Answers, IInv, TypeOK
<1>3. TypeOK'
    BY <1>2 DEF Lose, page, server, IInv, TypeOK
<1>4. OneEach'
    BY <1>1, <1>2 DEF Lose, page, IInv, OneEach
<1> QED  BY <1>3, <1>4 DEF IInv

\* What happens on the server beside the page's requests.
Elsewhere ==
    \/ OtherTab \/ DeleteStarts \/ DeleteEnds \/ ViewReads \/ ViewStores \/ Evict
    \/ \E t \in Tasks : VerifyReads(t) \/ VerifyStores(t)

\* Whoever writes, the documents stay documents, and the mark of a deletion stays until the
\* next deletion removes the document.
LEMMA ElsewhereWrites ==
    ASSUME TypeOK, Elsewhere
    PROVE  /\ UNCHANGED <<page, flight>>
           /\ TypeOK'
           /\ record # None /\ record.deleted => record' = None \/ record'.deleted
           /\ sure' /\ sure /\ record # None => record' # None /\ record'.liked = record.liked
           /\ sure' => sure
<1>1. CASE OtherTab
    <2>1. UNCHANGED <<page, flight>> /\ sure' = (sure /\ SameLike) /\ sure' \in BOOLEAN
        BY <1>1 DEF OtherTab, TypeOK
    <2>2. CASE AddLikeTag \/ ArchiveByID
        BY <2>1, <2>2, HandlersWrite DEF page, TypeOK, SameLike
    <2>3. CASE \E liked \in BOOLEAN : Updated([Stored EXCEPT !.liked = liked])
        <3>1. PICK liked \in BOOLEAN : Updated([Stored EXCEPT !.liked = liked])
            BY <2>3
        <3>2. Stored \in Docs /\ (record # None => Stored = record)
            BY DEF Stored, TypeOK, Docs
        <3>3. /\ [Stored EXCEPT !.liked = liked] \in Docs
              /\ [Stored EXCEPT !.liked = liked].deleted = Stored.deleted
            BY <3>2 DEF Docs
        <3>4. record' \in Docs /\ record'.deleted = Stored.deleted /\ cached' = None
            BY <3>1, <3>3 DEF Updated
        <3>5. UNCHANGED <<view, held, deleting>> \/ AddLikeTag \/ ArchiveByID
            BY <1>1 DEF OtherTab
        <3>6. CASE UNCHANGED <<view, held, deleting>>
            BY <2>1, <3>2, <3>4, <3>6 DEF page, TypeOK, SameLike
        <3> QED  BY <2>2, <3>5, <3>6
    <2> QED  BY <1>1, <2>2, <2>3 DEF OtherTab
<1>2. CASE DeleteStarts
    BY <1>2 DEF DeleteStarts, page, TypeOK
<1>3. CASE DeleteEnds
    <2>1. Tombstone \in Docs
        BY DEF Tombstone, Docs
    <2>2. record' \in Docs \cup {None} /\ (record # None => record' = record)
        BY <1>3, <2>1 DEF DeleteEnds, TypeOK
    <2>3. cached' \in {cached, None}
        BY <1>3 DEF DeleteEnds
    <2> QED  BY <1>3, <2>2, <2>3 DEF DeleteEnds, page, TypeOK
<1>4. CASE ViewReads \/ ViewStores \/ Evict
    BY <1>4 DEF ViewReads, ViewStores, Evict, page, TypeOK
<1>5. ASSUME NEW t \in Tasks, VerifyReads(t)
      PROVE  /\ UNCHANGED <<page, flight, record, sure>>
             /\ TypeOK'
    BY <1>5 DEF VerifyReads, page, TypeOK
<1>6. ASSUME NEW t \in Tasks, VerifyStores(t)
      PROVE  /\ UNCHANGED <<page, flight>> /\ sure' = (sure /\ SameLike)
             /\ TypeOK'
             /\ record # None /\ record.deleted => record'.deleted
    <2>1. held[t] \in Docs /\ held' \in [Tasks -> Docs \cup {None}]
        BY <1>6 DEF VerifyStores, TypeOK
    <2>2. CASE UNCHANGED <<record, cached>>
        BY <1>6, <2>1, <2>2 DEF VerifyStores, page, TypeOK
    <2>3. CASE \E rec \in Written(held[t]) : Updated(rec)
        <3>1. PICK rec \in Written(held[t]) : Updated(rec)
            BY <2>3
        <3>2. rec \in Docs /\ (Stored.deleted => rec.deleted) /\ (record # None => Stored = record)
            BY <2>1, WrittenIsDoc
        <3> QED  BY <1>6, <2>1, <3>1, <3>2 DEF VerifyStores, Updated, page, TypeOK
    <2> QED  BY <1>6, <2>2, <2>3 DEF VerifyStores
<1> QED  BY <1>1, <1>2, <1>3, <1>4, <1>5, <1>6 DEF Elsewhere, ViewReads, ViewStores, Evict, page, TypeOK, SameLike

LEMMA ElsewhereStep ==
    ASSUME IInv, Elsewhere
    PROVE  IInv'
BY ElsewhereWrites DEF page, IInv, OneEach

--------------------------------------------------------------------------------
(* Answers and a new page.                                                 *)

\* An answer ends the loading state of its button and may change what buttons offer.
LEMMA AnswerMeans ==
    ASSUME IInv, NEW c \in Conns, Answer(c)
    PROVE  /\ flight[c] \in Requests
           /\ btn' \in [Buttons -> OnPage]
           /\ \A b \in Buttons : btn'[b].loading <=> btn[b].loading /\ b # flight[c].btn
           /\ like' \in [on : BOOLEAN, liked : BOOLEAN] /\ likeTag' \in BOOLEAN
<1> DEFINE r == flight[c]
           rested == LoadingDone(btn, r.btn)
<1>1. r \in Requests
    BY DEF Answer, Arrived, IInv, TypeOK
<1> HIDE DEF r
<1>2. /\ rested \in [Buttons -> OnPage]
      /\ \A b \in Buttons : rested[b].loading <=> btn[b].loading /\ b # r.btn
    <2>1. r.btn \in Buttons /\ btn \in [Buttons -> OnPage]
        BY <1>1 DEF Requests, IInv, TypeOK
    <2>2. rested = [btn EXCEPT ![r.btn].loading = FALSE]
        BY DEF LoadingDone
    <2> HIDE DEF rested
    <2>3. [btn[r.btn] EXCEPT !.loading = FALSE] \in OnPage
        BY <2>1 DEF OnPage
    <2>4. \A b \in Buttons : rested[b] = IF b = r.btn THEN [btn[r.btn] EXCEPT !.loading = FALSE] ELSE btn[b]
        BY <2>1, <2>2
    <2>5. rested \in [Buttons -> OnPage]
        BY <2>1, <2>2, <2>3
    <2>6. ~[btn[r.btn] EXCEPT !.loading = FALSE].loading
        BY <2>1 DEF OnPage
    <2> QED  BY <2>4, <2>5, <2>6
<1> HIDE DEF rested
<1>3. CASE LikeAnswered(r)
    <2>1. btn' = rested
        BY <1>3 DEF LikeAnswered, rested
    <2>2. like' \in [on : BOOLEAN, liked : BOOLEAN]
        BY <1>3 DEF LikeAnswered, Rollback, IInv, TypeOK
    <2>3. likeTag' \in BOOLEAN
        BY <1>3 DEF LikeAnswered, IInv, TypeOK
    <2> QED  BY <1>1, <1>2, <2>1, <2>2, <2>3 DEF r
<1>4. CASE VerifyAnswered(r)
    <2>1. btn' = rested /\ UNCHANGED <<like, likeTag>>
        BY <1>4 DEF VerifyAnswered, rested
    <2> QED  BY <1>1, <1>2, <2>1 DEF IInv, TypeOK, r
<1>5. CASE ArchiveAnswered(r)
    <2>1. \/ btn' = [rested EXCEPT ![r.btn].does = "restore"]
          \/ btn' = [rested EXCEPT !["archive"].does = "archive"]
          \/ btn' = [rested EXCEPT !["force"].there = TRUE]
          \/ btn' = rested
        BY <1>5 DEF ArchiveAnswered, rested
    <2>2. /\ r.btn \in Buttons /\ "archive" \in Buttons /\ "force" \in Buttons
          /\ "archive" \in Ops /\ "restore" \in Ops
        BY <1>1 DEF Requests, Buttons, Ops
    <2>3. btn' \in [Buttons -> OnPage]
        <3>1. ASSUME NEW b \in Buttons, NEW op \in Ops
              PROVE  [rested EXCEPT ![b].does = op] \in [Buttons -> OnPage]
            BY <1>2 DEF OnPage
        <3>2. [rested EXCEPT !["force"].there = TRUE] \in [Buttons -> OnPage]
            BY <1>2, <2>2 DEF OnPage
        <3>3. CASE btn' = [rested EXCEPT ![r.btn].does = "restore"]
            BY <2>2, <3>1, <3>3
        <3>4. CASE btn' = [rested EXCEPT !["archive"].does = "archive"]
            BY <2>2, <3>1, <3>4
        <3> QED  BY <1>2, <2>1, <3>2, <3>3, <3>4
    <2>4. \A b \in Buttons : btn'[b].loading <=> rested[b].loading
        BY <1>2, <2>1, <2>2 DEF OnPage
    <2> QED  BY <1>1, <1>2, <1>5, <2>3, <2>4 DEF ArchiveAnswered, IInv, TypeOK, r
<1> QED  BY <1>1, <1>3, <1>4, <1>5 DEF Answer, r

LEMMA AnswerStep ==
    ASSUME IInv, NEW c \in Conns, Answer(c)
    PROVE  IInv'
<1>1. /\ flight[c] # None
      /\ flight' = [flight EXCEPT ![c] = None]
      /\ UNCHANGED <<server, sure>>
    BY DEF Answer, Arrived
<1>2. TypeOK'
    BY <1>1, AnswerMeans DEF server, IInv, TypeOK
<1>3. OneEach'
    <2>1. \A d \in Conns : flight'[d] # None <=> flight[d] # None /\ d # c
        BY <1>1 DEF IInv, TypeOK
    <2>2. \A d \in Conns \ {c} : flight'[d] = flight[d]
        BY <1>1 DEF IInv, TypeOK
    <2>3. \A d \in Conns \ {c} : flight[d] # None => flight[d].btn # flight[c].btn
        BY <1>1 DEF IInv, OneEach
    <2> QED  BY <1>1, <2>1, <2>2, <2>3, AnswerMeans DEF IInv, OneEach
<1> QED  BY <1>2, <1>3 DEF IInv

LEMMA ReloadStep ==
    ASSUME IInv, Reload
    PROVE  IInv'
<1>1. PICK doc \in {cached, view} \ {None} :
        /\ \E does \in {"archive", "restore"} : btn' = RenderButtons(does)
        /\ like' = RenderLike(doc) /\ likeTag' = doc.liked
        /\ flight' = [c \in Conns |-> None]
        /\ \/ doc = cached /\ UNCHANGED <<cached, view>>
           \/ doc = view /\ cached' = doc /\ view' = None
        /\ sure' = (record # None /\ doc.liked = record.liked)
        /\ UNCHANGED <<record, held, deleting>>
    BY DEF Reload
<1>2. doc \in Docs
    BY DEF IInv, TypeOK
<1>3. PICK does \in {"archive", "restore"} : btn' = RenderButtons(does)
    BY <1>1
<1>4. TypeOK'
    BY <1>1, <1>2, <1>3, Rendered DEF IInv, TypeOK
<1>5. OneEach'
    BY <1>1, <1>2, <1>3, Rendered DEF OneEach
<1> QED  BY <1>4, <1>5 DEF IInv

LEMMA Step == IInv /\ [Next]_vars => IInv'
<1> SUFFICES ASSUME IInv, [Next]_vars PROVE IInv'
    OBVIOUS
<1>1. CASE UNCHANGED vars
    BY <1>1 DEF vars, IInv, TypeOK, OneEach
<1> QED
    BY <1>1, ClickStep, ServeStep, LoseStep, AnswerStep, ElsewhereStep, ReloadStep DEF Next, Elsewhere

LEMMA Always == Spec => []IInv
BY Start, Step, PTL DEF Spec

--------------------------------------------------------------------------------

\* Clicks, answers and requests stay what they are, whatever is lost.
THEOREM TypeCorrect == Spec => []TypeOK
BY Always, PTL DEF IInv

\* However many requests a page can have under way: a button waits for at most one
\* answer and shows its loading state exactly while it waits (LoadingManager).
THEOREM LoadingCorrect == Spec => []LoadingIsOneRequest
<1>1. IInv => LoadingIsOneRequest
    <2> SUFFICES ASSUME IInv, NEW b \in Buttons
                 PROVE  Cardinality(Waiting(b)) = IF btn[b].loading THEN 1 ELSE 0
        BY DEF LoadingIsOneRequest
    <2>1. CASE btn[b].loading
        <3>1. PICK c \in Conns : flight[c] # None /\ flight[c].btn = b
            BY <2>1 DEF IInv, OneEach
        <3>2. Waiting(b) = {c}
            BY <3>1 DEF IInv, OneEach, Waiting
        <3> QED  BY <2>1, <3>2, FS_Singleton
    <2>2. CASE ~btn[b].loading
        <3>1. Waiting(b) = {}
            BY <2>2 DEF IInv, OneEach, Waiting
        <3> QED  BY <2>2, <3>1, FS_EmptySet
    <2> QED  BY <2>1, <2>2
<1> QED  BY <1>1, Always, PTL

\* A comic deleted stays deleted, whatever the handlers, the page views and any number of
\* verification tasks have read before and store after (DeleteComicByID, UpdateComicInfo).
THEOREM DeletionCorrect == Spec => DeletionStays
<1>1. IInv /\ [Next]_vars => [record # None /\ record.deleted => record' = None \/ record'.deleted]_vars
    <2> SUFFICES ASSUME IInv, Next, record # None, record.deleted
                 PROVE  record' = None \/ record'.deleted
        OBVIOUS
    <2>1. CASE UNCHANGED record
        BY <2>1
    <2>2. ASSUME NEW c \in Conns, Serve(c)
          PROVE  record'.deleted
        BY <2>2, HandlersWrite DEF Serve, IInv
    <2>3. CASE Elsewhere
        BY <2>3, ElsewhereWrites DEF IInv
    <2> QED
        BY <2>1, <2>2, <2>3
        DEF Next, Elsewhere, AddLikeGroup, ArchiveComic, ArchiveComicForce, RestoreComic, VerifyComic,
            Lose, Answer, Reload, server
<1> QED  BY <1>1, Always, PTL DEF Spec, DeletionStays

--------------------------------------------------------------------------------
(* The like button.                                                        *)

\* The request of the like button that is under way, and what has become of it, tell
\* how button, tag and record differ while it lasts.
Asked(r) ==
    /\ r.answer \in {"none", "ok", "failed"}
    /\ r.answer = "ok" => r.op = "like" /\ record.liked /\ like.on
    /\ r.answer # "ok" =>
        /\ record.liked = (r.op = "unlike") /\ likeTag = record.liked
        /\ like.on = (r.op = "like")

\* Only the like button asks to like.
OwnButton ==
    \A c \in Conns : flight[c] # None =>
        (flight[c].btn = "like" <=> flight[c].op \in {"like", "unlike"})

LikeInv ==
    /\ OwnButton
    /\ like.liked = like.on
    /\ sure =>
        /\ record # None
        /\ ~btn["like"].loading => like.on = record.liked /\ likeTag = record.liked
        /\ \A c \in Conns : flight[c] # None /\ flight[c].btn = "like" => Asked(flight[c])

LEMMA LikeStart == Init => LikeInv
<1> SUFFICES ASSUME Init PROVE LikeInv
    OBVIOUS
<1>1. PICK does \in {"archive", "restore"} : btn = RenderButtons(does)
    BY DEF Init
<1>2. ~btn["like"].loading /\ record # None
    BY <1>1, Rendered DEF Init, Buttons
<1> QED  BY <1>2 DEF Init, LikeInv, OwnButton, RenderLike

\* A request of another button is sent, answered or lost: what concerns the like button
\* stays.
LEMMA OtherButtonStep ==
    ASSUME IInv, LikeInv, NEW c \in Conns, UNCHANGED <<like, likeTag>>,
           sure' => sure, sure' => record' # None /\ record'.liked = record.liked,
           \A d \in Conns \ {c} : flight'[d] = flight[d],
           flight'[c] # None => flight'[c].btn # "like" /\ flight'[c].op \notin {"like", "unlike"},
           btn'["like"].loading <=> btn["like"].loading
    PROVE  LikeInv'
<1>1. OwnButton'
    BY DEF LikeInv, OwnButton
<1>2. \A d \in Conns : flight'[d] # None /\ flight'[d].btn = "like" =>
        d # c /\ flight'[d] = flight[d]
    OBVIOUS
<1> QED  BY <1>1, <1>2 DEF LikeInv, Asked

LEMMA LikeClick ==
    ASSUME IInv, LikeInv, AddLikeGroup
    PROVE  LikeInv'
<1> DEFINE op == IF like.on THEN "unlike" ELSE "like"
<1>1. /\ op \in Ops /\ Ask("like", op) /\ like' = [on |-> ~like.on, liked |-> ~like.on]
      /\ UNCHANGED <<likeTag, record, sure>> /\ "like" \in Buttons
    BY DEF AddLikeGroup, OptimisticToggle, server, Ops, Buttons
<1>2. PICK c \in Conns :
        /\ flight[c] = None
        /\ flight' = [flight EXCEPT ![c] = [op |-> op, btn |-> "like", answer |-> "none"]]
    BY <1>1 DEF Ask
<1>3. ~btn["like"].loading /\ btn'["like"].loading
    BY <1>1 DEF Ask, MayAsk, LoadingStart, IInv, TypeOK, OnPage
<1>4. flight'[c] = [op |-> op, btn |-> "like", answer |-> "none"] /\ \A d \in Conns \ {c} : flight'[d] = flight[d]
    BY <1>2 DEF IInv, TypeOK
<1>5. \A d \in Conns : flight[d] # None => flight[d].btn # "like"
    BY <1>1, <1>3 DEF IInv, OneEach
<1>6. OwnButton'
    BY <1>4 DEF LikeInv, OwnButton
<1>7. sure => record # None /\ like.on = record.liked /\ likeTag = record.liked /\ like.on \in BOOLEAN
    BY <1>3 DEF LikeInv, IInv, TypeOK
<1>8. sure => Asked(flight[c])'
    BY <1>1, <1>4, <1>7 DEF Asked
<1> QED  BY <1>1, <1>3, <1>4, <1>5, <1>6, <1>7, <1>8 DEF LikeInv

LEMMA OtherClick ==
    ASSUME IInv, LikeInv, ArchiveComic \/ ArchiveComicForce \/ RestoreComic \/ VerifyComic
    PROVE  LikeInv'
<1>1. PICK b \in Buttons \ {"like"}, op \in Ops \ {"like", "unlike"} : Ask(b, op)
    BY DEF ArchiveComic, ArchiveComicForce, RestoreComic, VerifyComic, Buttons, Ops
<1>2. PICK c \in Conns : flight' = [flight EXCEPT ![c] = [op |-> op, btn |-> b, answer |-> "none"]]
    BY <1>1 DEF Ask
<1>3. btn'["like"].loading <=> btn["like"].loading
    BY <1>1 DEF Ask, LoadingStart, IInv, TypeOK
<1>4. UNCHANGED <<like, likeTag, record, sure>> /\ (sure => record # None)
    BY DEF ArchiveComic, ArchiveComicForce, RestoreComic, VerifyComic, server, LikeInv
<1>5. flight'[c] = [op |-> op, btn |-> b, answer |-> "none"] /\ \A d \in Conns \ {c} : flight'[d] = flight[d]
    BY <1>2 DEF IInv, TypeOK
<1> QED  BY <1>1, <1>3, <1>4, <1>5, OtherButtonStep

\* The server likes when it is asked to, or not; nothing else it is asked for likes.
LEMMA ServeLikes ==
    ASSUME IInv, NEW c \in Conns, Serve(c), record # None
    PROVE  /\ sure' => sure
           /\ sure' => record' # None
           /\ flight[c].op # "like" \/ flight'[c].answer # "ok" => record'.liked = record.liked
           /\ flight[c].op = "like" => flight'[c].answer \in {"ok", "failed"}
           /\ flight[c].op = "like" /\ flight'[c].answer = "ok" => (sure' => record'.liked)
           /\ flight[c].op = "unlike" => flight'[c].answer = "failed"
<1> DEFINE op == flight[c].op
<1>1. PICK answer \in Answers \ {"lost"} :
        /\ flight' = [flight EXCEPT ![c].answer = answer]
        /\ \/ OnlyRead /\ answer \in Refusals(op) /\ sure' = sure
           \/ OnlyRead /\ op = "restore" /\ answer = "ok" /\ sure' = sure
           \/ AddLikeTag /\ op = "like" /\ answer = "ok" /\ sure' = (sure /\ Got.liked = record.liked)
           \/ ArchiveByID /\ op \in {"archive", "force"} /\ answer = "ok" /\ sure' = sure
    BY DEF Serve
<1>2. flight[c] # None /\ flight[c] \in Requests /\ op \in Ops
    BY DEF Serve, IInv, TypeOK, Requests
<1>3. flight'[c].answer = answer
    BY <1>1, <1>2 DEF IInv, TypeOK, Requests
<1> HIDE DEF op
<1>4. OnlyRead \/ ArchiveByID => record' = record
    BY HandlersWrite DEF IInv
<1>5. AddLikeTag => record' # None /\ (Got.liked = record.liked => record'.liked)
    BY HandlersWrite DEF IInv
<1>6. /\ op \in {"like", "unlike"} /\ answer \in Refusals(op) => answer = "failed"
    BY DEF Refusals
<1>7. CASE OnlyRead /\ answer \in Refusals(op) /\ sure' = sure
    BY <1>3, <1>4, <1>6, <1>7 DEF op
<1>8. CASE OnlyRead /\ op = "restore" /\ sure' = sure
    BY <1>4, <1>8 DEF op
<1>9. CASE AddLikeTag /\ op = "like" /\ answer = "ok" /\ sure' = (sure /\ Got.liked = record.liked)
    BY <1>3, <1>5, <1>9 DEF op
<1>10. CASE ArchiveByID /\ op \in {"archive", "force"} /\ sure' = sure
    BY <1>4, <1>10 DEF op
<1> QED  BY <1>1, <1>7, <1>8, <1>9, <1>10

LEMMA LikeServed ==
    ASSUME IInv, LikeInv, NEW c \in Conns, Serve(c)
    PROVE  LikeInv'
<1> DEFINE r == flight[c]
<1>1. r \in Requests /\ r # None /\ r.answer = "none" /\ UNCHANGED page
    BY DEF Serve, IInv, TypeOK
<1>2. /\ flight'[c].op = r.op /\ flight'[c].btn = r.btn
      /\ \A d \in Conns \ {c} : flight'[d] = flight[d]
    BY <1>1 DEF Serve, Requests, IInv, TypeOK
<1>3. OwnButton'
    BY <1>1, <1>2 DEF LikeInv, OwnButton
<1>4. sure' => sure /\ record # None
    BY DEF Serve, LikeInv
<1>5. CASE ~sure'
    BY <1>1, <1>3, <1>5 DEF page, LikeInv
<1>6. CASE sure'
    <2>1. /\ record # None /\ record' # None
          /\ r.op # "like" \/ flight'[c].answer # "ok" => record'.liked = record.liked
          /\ r.op = "like" => flight'[c].answer \in {"ok", "failed"}
          /\ r.op = "like" /\ flight'[c].answer = "ok" => record'.liked
          /\ r.op = "unlike" => flight'[c].answer = "failed"
        BY <1>4, <1>6, ServeLikes
    <2>2. CASE r.btn # "like"
        <3>1. r.op \notin {"like", "unlike"}
            BY <1>1, <2>2 DEF LikeInv, OwnButton
        <3> QED  BY <1>1, <1>2, <1>4, <2>1, <2>2, <3>1, OtherButtonStep DEF page
    <2>3. CASE r.btn = "like"
        <3>1. \A d \in Conns \ {c} : flight[d] # None => flight[d].btn # "like"
            BY <1>1, <2>3 DEF IInv, OneEach
        <3>2. btn["like"].loading /\ r.op \in {"like", "unlike"}
            BY <1>1, <2>3 DEF IInv, OneEach, LikeInv, OwnButton, Buttons
        <3>3. Asked(r)
            BY <1>1, <1>4, <1>6, <2>3 DEF LikeInv
        <3>4. Asked(flight[c])'
            BY <1>1, <1>2, <2>1, <3>2, <3>3 DEF page, Asked
        <3> QED  BY <1>1, <1>2, <1>3, <2>1, <3>1, <3>2, <3>4 DEF page, LikeInv
    <2> QED  BY <2>2, <2>3
<1> QED  BY <1>5, <1>6

LEMMA LikeLost ==
    ASSUME IInv, LikeInv, Elsewhere \/ \E c \in Conns : Lose(c)
    PROVE  LikeInv'
<1>1. ASSUME NEW c \in Conns, Lose(c)
      PROVE  LikeInv'
    <2>1. /\ flight[c] # None /\ flight'[c].op = flight[c].op /\ flight'[c].btn = flight[c].btn
          /\ \A d \in Conns \ {c} : flight'[d] = flight[d]
        BY <1>1 DEF Lose, Requests, IInv, TypeOK
    <2> QED  BY <1>1, <2>1 DEF Lose, page, LikeInv, OwnButton
<1>2. CASE Elsewhere
    <2>1. /\ UNCHANGED <<page, flight>> /\ (sure' => sure)
          /\ sure' => record # None /\ record' # None /\ record'.liked = record.liked
        BY <1>2, ElsewhereWrites DEF IInv, LikeInv
    <2> QED  BY <2>1 DEF page, LikeInv, OwnButton, Asked
<1> QED  BY <1>1, <1>2

LEMMA LikeAnswerStep ==
    ASSUME IInv, LikeInv, NEW c \in Conns, Answer(c)
    PROVE  LikeInv'
<1> DEFINE r == flight[c]
<1>1. /\ r \in Requests /\ r # None /\ UNCHANGED <<record, sure>> /\ (sure => record # None)
      /\ flight'[c] = None /\ \A d \in Conns \ {c} : flight'[d] = flight[d]
      /\ btn'["like"].loading <=> btn["like"].loading /\ "like" # r.btn
    BY AnswerMeans DEF Answer, Arrived, server, LikeInv, IInv, TypeOK, Buttons
<1>2. CASE r.btn # "like"
    <2>1. r.op \notin {"like", "unlike"}
        BY <1>1, <1>2 DEF LikeInv, OwnButton
    <2>2. UNCHANGED <<like, likeTag>>
        BY <2>1 DEF Answer, LikeAnswered, ArchiveAnswered, VerifyAnswered
    <2> QED  BY <1>1, <1>2, <2>2, OtherButtonStep
<1>3. CASE r.btn = "like"
    <2>1. \A d \in Conns \ {c} : flight[d] # None => flight[d].btn # "like"
        BY <1>1, <1>3 DEF IInv, OneEach
    <2>2. LikeAnswered(r)
        <3>1. r.op \in {"like", "unlike"}
            BY <1>1, <1>3 DEF LikeInv, OwnButton
        <3> QED  BY <3>1 DEF Answer, ArchiveAnswered, VerifyAnswered
    <2>3. sure => Asked(r)
        BY <1>1, <1>3 DEF LikeInv
    <2>4. OwnButton' /\ like'.liked = like'.on
        BY <1>1, <2>2 DEF LikeInv, OwnButton, LikeAnswered, Rollback
    <2>5. sure => like'.on = record.liked /\ likeTag' = record.liked
        BY <2>2, <2>3 DEF LikeAnswered, Rollback, Asked
    <2> QED  BY <1>1, <2>1, <2>4, <2>5 DEF LikeInv
<1> QED  BY <1>2, <1>3

LEMMA LikeStep == IInv /\ LikeInv /\ [Next]_vars => LikeInv'
<1> SUFFICES ASSUME IInv, LikeInv, [Next]_vars PROVE LikeInv'
    OBVIOUS
<1>1. CASE Reload
    <2>1. PICK doc \in {cached, view} \ {None} :
            /\ \E does \in {"archive", "restore"} : btn' = RenderButtons(does)
            /\ like' = RenderLike(doc) /\ likeTag' = doc.liked
            /\ flight' = [c \in Conns |-> None]
            /\ sure' = (record # None /\ doc.liked = record.liked)
            /\ UNCHANGED record
        BY <1>1 DEF Reload
    <2> QED  BY <2>1 DEF RenderLike, LikeInv, OwnButton
<1>2. CASE UNCHANGED vars
    BY <1>2 DEF vars, LikeInv, OwnButton, Asked
<1> QED
    BY <1>1, <1>2, LikeClick, OtherClick, LikeServed, LikeLost, LikeAnswerStep DEF Next, Elsewhere

\* When the like button rests, its class, its label, the listed tag and the document agree,
\* unless an answer was lost, the like was changed elsewhere, or a like was answered from an
\* outdated copy, since the page was rendered: for every number of requests under way
\* and of verification tasks that write back what they have read (addLikeGroup, AddLikeTag).
THEOREM LikeCorrect == Spec => []LikeSettles
<1>1. LikeInv => LikeSettles
    BY DEF LikeInv, LikeSettles
<1> QED  BY <1>1, LikeStart, LikeStep, Always, PTL DEF Spec

--------------------------------------------------------------------------------
(* The page manager.                                                       *)

\* Without the page manager the count is of no use, and the guard may still be up.
Guarding == guarded \in BOOLEAN /\ active \in BOOLEAN /\ UnsavedIsGuarded

\* updateStatus makes up for whatever was changed before.
LEMMA StatusUpdated ==
    ASSUME updateStatus(changes'), active' \in BOOLEAN
    PROVE  Guarding'
BY DEF updateStatus, updateBeforeUnload, Guarding, UnsavedIsGuarded

LEMMA Untouched ==
    ASSUME Guarding, UNCHANGED <<active, changes, count, guarded>>
    PROVE  Guarding'
BY DEF Guarding, UnsavedIsGuarded

LEMMA Left ==
    ASSUME NEW k, LeavePage(k)
    PROVE  Guarding'
BY DEF LeavePage, Guarding, UnsavedIsGuarded

LEMMA ModeGuarded ==
    ASSUME Guarding,
           pmEnter \/ pmExit \/ pmDeleteMode \/ pmInsertMode \/ pmReplaceMode \/ pmReorderMode
    PROVE  Guarding'
<1>1. CASE pmExit
    BY <1>1 DEF pmExit, Closed, Guarding, UnsavedIsGuarded
<1>2. CASE pmEnter
    BY <1>2, StatusUpdated DEF pmEnter
<1>3. ASSUME NEW m, SetMode(m)
      PROVE  Guarding'
    BY <1>3, StatusUpdated DEF SetMode, Guarding
<1> QED  BY <1>1, <1>2, <1>3 DEF pmDeleteMode, pmInsertMode, pmReplaceMode, pmReorderMode

LEMMA ClickGuarded ==
    ASSUME Guarding, NEW p \in Thumbs,
           togglePageDelete(p) \/ triggerPageReplace(p) \/ ReorderFirst(p) \/ ReorderSecond(p)
    PROVE  Guarding'
<1>1. CASE togglePageDelete(p)
    BY <1>1, StatusUpdated DEF togglePageDelete, Guarding
<1>2. CASE triggerPageReplace(p)
    BY <1>2, StatusUpdated DEF triggerPageReplace, Guarding
<1>3. CASE ReorderFirst(p)
    BY <1>3, StatusUpdated DEF ReorderFirst, Guarding
<1>4. CASE ReorderSecond(p)
    BY <1>4, StatusUpdated DEF ReorderSecond, Guarding
<1> QED  BY <1>1, <1>2, <1>3, <1>4

LEMMA InsertGuarded ==
    ASSUME Guarding,
           \/ \E s \in Sources : pmFetchPreview(s) \/ renderInsertPreview(s) \/ PreviewFails(s)
           \/ \E s \in Sources : \E n \in PagesOf[s] : PickPreview(n)
           \/ pmConfirmInsert \/ pmCancelInsert
    PROVE  Guarding'
<1>1. CASE pmConfirmInsert
    BY <1>1, StatusUpdated DEF pmConfirmInsert, Guarding
<1>2. CASE pmCancelInsert
    BY <1>2, Untouched DEF pmCancelInsert
<1>3. CASE \E s \in Sources : pmFetchPreview(s) \/ renderInsertPreview(s) \/ PreviewFails(s)
    BY <1>3, Untouched DEF pmFetchPreview, renderInsertPreview, PreviewFails, editing
<1>4. CASE \E s \in Sources : \E n \in PagesOf[s] : PickPreview(n)
    BY <1>4, Untouched DEF PickPreview, editing
<1> QED  BY <1>1, <1>2, <1>3, <1>4

LEMMA SaveGuarded ==
    ASSUME Guarding,
           \/ pmUndo \/ pmSave \/ openDeleteConfirm \/ Leave
           \/ \E k \in Posts : ServeSave(k) \/ SaveSucceeds(k) \/ DeleteSucceeds(k) \/ Fails(k)
    PROVE  Guarding'
<1>1. CASE pmUndo
    BY <1>1, StatusUpdated DEF pmUndo, Guarding
<1>2. CASE pmSave \/ openDeleteConfirm
    BY <1>2, Untouched DEF pmSave, openDeleteConfirm, editing
<1>3. CASE Leave
    BY <1>3, Left DEF Leave
<1>4. ASSUME NEW k \in Posts, ServeSave(k) \/ Fails(k)
      PROVE  Guarding'
    BY <1>4, Untouched DEF ServeSave, Fails, editing
<1>5. ASSUME NEW k \in Posts, SaveSucceeds(k)
      PROVE  Guarding'
    BY <1>5 DEF SaveSucceeds, Closed, Guarding, UnsavedIsGuarded
<1>6. ASSUME NEW k \in Posts, DeleteSucceeds(k)
      PROVE  Guarding'
    BY <1>6, Left, Untouched DEF DeleteSucceeds, editing
<1> QED  BY <1>1, <1>2, <1>3, <1>4, <1>5, <1>6

LEMMA PagesGuarded == Guarding /\ [PagesNext]_pagesVars => Guarding'
<1> SUFFICES ASSUME Guarding, [PagesNext]_pagesVars PROVE Guarding'
    OBVIOUS
<1>1. CASE UNCHANGED pagesVars
    BY <1>1, Untouched DEF pagesVars, editing
<1> QED  BY <1>1, ModeGuarded, ClickGuarded, InsertGuarded, SaveGuarded DEF PagesNext

\* Whoever leaves with unsaved changes is asked, and the number the open page manager
\* shows is theirs, over every way the list of changes is grown, shrunk, kept across
\* pmExit or emptied by a late answer (updateStatus, beforeunload).
THEOREM GuardCorrect == PagesSpec => []UnsavedIsGuarded
<1>1. PagesInit => Guarding
    BY DEF PagesInit, InitPage, Guarding, UnsavedIsGuarded
<1>2. Guarding => UnsavedIsGuarded
    BY DEF Guarding
<1> QED  BY <1>1, <1>2, PagesGuarded, PTL DEF PagesSpec

--------------------------------------------------------------------------------
(* What is marked, and what is chosen to be inserted.                      *)

Chosen == insertedPages \subseteq (IF offer = Nothing THEN {} ELSE PagesOf[offer])

Marking ==
    /\ changes \in Seq(Change) /\ offer \in Sources \cup {Nothing}
    /\ MarksMeanChanges /\ InsertNamesItsSource /\ Chosen

marks == <<mode, changes, selected, pending, greyed, framed>>
preview == <<offer, insertedPages>>

LEMMA Unmarked ==
    ASSUME Marking, UNCHANGED <<marks, preview>>
    PROVE  Marking'
BY DEF Marking, marks, preview, MarksMeanChanges, InsertNamesItsSource, Chosen

LEMMA NothingMarked ==
    ASSUME NEW k, LeavePage(k)
    PROVE  Marking'
<1>1. changes' = <<>> /\ <<>> \in Seq(Change)
    BY DEF LeavePage
<1> QED  BY <1>1 DEF LeavePage, Marking, MarksMeanChanges, InsertNamesItsSource, Chosen

\* One change more: no target is lost, and a deletion has its own.
LEMMA OneMore ==
    ASSUME NEW list \in Seq(Change), NEW x \in Change
    PROVE  /\ Append(list, x) \in Seq(Change)
           /\ Targets(list) \subseteq Targets(Append(list, x))
           /\ x.type = "delete" => x.page \in Targets(Append(list, x))
           /\ \A i \in DOMAIN Append(list, x) :
                Append(list, x)[i] = x \/ \E j \in DOMAIN list : Append(list, x)[i] = list[j]
<1> DEFINE longer == Append(list, x)
<1>1. /\ longer \in Seq(Change) /\ Len(list) \in Nat
      /\ DOMAIN longer = 1..Len(list) + 1 /\ DOMAIN list = 1..Len(list)
      /\ \A i \in 1..Len(list) : longer[i] = list[i]
      /\ longer[Len(list) + 1] = x
    OBVIOUS
<1> HIDE DEF longer
<1>2. \A i \in DOMAIN list : i \in DOMAIN longer /\ longer[i] = list[i]
    BY <1>1
<1>3. Len(list) + 1 \in DOMAIN longer
    BY <1>1
<1>4. \A i \in DOMAIN longer : i = Len(list) + 1 \/ i \in DOMAIN list
    BY <1>1
<1>5. Targets(list) \subseteq Targets(longer)
    BY <1>2 DEF Targets
<1>6. x.type = "delete" => x.page \in Targets(longer)
    BY <1>1, <1>3 DEF Targets
<1> QED  BY <1>1, <1>2, <1>4, <1>5, <1>6 DEF longer

\* The deletions of a page taken out: the others keep their targets.
LEMMA DeletionsGone ==
    ASSUME changes \in Seq(Change), NEW p
    PROVE  /\ WithoutDelete(p) \in Seq(Change)
           /\ Targets(changes) \ {p} \subseteq Targets(WithoutDelete(p))
           /\ \A i \in DOMAIN WithoutDelete(p) :
                \E j \in DOMAIN changes : WithoutDelete(p)[i] = changes[j]
<1> DEFINE x == [type |-> "delete", page |-> p]
           w == Without(changes, {x})
<1>1. /\ w \in Seq(Change)
      /\ \A n \in DOMAIN w : \E i \in DOMAIN changes : changes[i] \notin {x} /\ w[n] = changes[i]
      /\ \A i \in DOMAIN changes : changes[i] \notin {x} => \E n \in DOMAIN w : w[n] = changes[i]
    <2> DEFINE X == {x}
    <2> HIDE DEF X
    <2>1. /\ Without(changes, X) \in Seq(Change)
          /\ \A n \in DOMAIN Without(changes, X) :
                \E i \in DOMAIN changes : changes[i] \notin X /\ Without(changes, X)[n] = changes[i]
          /\ \A i \in DOMAIN changes :
                changes[i] \notin X => \E n \in DOMAIN Without(changes, X) : Without(changes, X)[n] = changes[i]
        BY WithoutCorrect
    <2> QED  BY <2>1 DEF X
<1> HIDE DEF w
<1>2. ASSUME NEW i \in DOMAIN changes, changes[i].type = "delete", changes[i].page # p
      PROVE  changes[i].page \in Targets(w)
    <2>1. changes[i] # x
        BY <1>2
    <2> HIDE DEF x
    <2>2. PICK n \in DOMAIN w : w[n] = changes[i]
        BY <1>1, <2>1
    <2> QED  BY <1>2, <2>2 DEF Targets
<1>3. Targets(changes) \ {p} \subseteq Targets(w)
    BY <1>2 DEF Targets
<1> QED  BY <1>1, <1>3 DEF WithoutDelete, w

\* The last change taken back.
LEMMA OneLess ==
    ASSUME NEW list \in Seq(Change), list # <<>>
    PROVE  /\ Front(list) \in Seq(Change)
           /\ Last(list).type = "delete" => Targets(list) \ {Last(list).page} \subseteq Targets(Front(list))
           /\ Last(list).type # "delete" => Targets(list) \subseteq Targets(Front(list))
           /\ \A i \in DOMAIN Front(list) : i \in DOMAIN list /\ Front(list)[i] = list[i]
<1> DEFINE shorter == SubSeq(list, 1, Len(list) - 1)
<1>1. Len(list) \in Nat \ {0} /\ DOMAIN list = 1..Len(list)
    OBVIOUS
<1>2. /\ shorter \in Seq(Change) /\ DOMAIN shorter = 1..Len(list) - 1
      /\ \A i \in 1..Len(list) - 1 : shorter[i] = list[i]
    BY <1>1
<1> HIDE DEF shorter
<1>3. \A i \in DOMAIN list : i = Len(list) \/ (i \in DOMAIN shorter /\ shorter[i] = list[i])
    BY <1>1, <1>2
<1>4. \A i \in DOMAIN shorter : i \in DOMAIN list /\ shorter[i] = list[i]
    BY <1>1, <1>2
<1>5. list[Len(list)].type = "delete" => Targets(list) \ {list[Len(list)].page} \subseteq Targets(shorter)
    BY <1>3 DEF Targets
<1>6. list[Len(list)].type # "delete" => Targets(list) \subseteq Targets(shorter)
    BY <1>3 DEF Targets
<1> QED  BY <1>2, <1>4, <1>5, <1>6 DEF Front, Last, shorter

LEMMA ModeMarked ==
    ASSUME Marking,
           pmEnter \/ pmExit \/ pmDeleteMode \/ pmInsertMode \/ pmReplaceMode \/ pmReorderMode
    PROVE  Marking'
<1>1. CASE pmEnter
    BY <1>1, Unmarked DEF pmEnter, marks, preview, inserting
<1>2. CASE pmExit
    BY <1>2 DEF pmExit, Closed, Marking, MarksMeanChanges, InsertNamesItsSource, Chosen
<1>3. ASSUME NEW m, SetMode(m), m # "delete" \/ selected' = {}
      PROVE  Marking'
    BY <1>3
    DEF SetMode, clearPendingState, Marking, MarksMeanChanges, InsertNamesItsSource, Chosen
<1> QED
    BY <1>1, <1>2, <1>3 DEF pmDeleteMode, pmInsertMode, pmReplaceMode, pmReorderMode

\* A change of another kind marks nothing.
LEMMA MoreMarked ==
    ASSUME Marking, NEW x \in Change,
           changes' = Append(changes, x), UNCHANGED <<selected, greyed, preview>>,
           mode' = mode, framed' = {pending'} \ {0},
           x.type = "insert" => x.pages \subseteq PagesOf[x.source]
    PROVE  Marking'
<1>1. changes \in Seq(Change)
    BY DEF Marking
<1>2. InsertNamesItsSource'
    <2> SUFFICES ASSUME NEW i \in DOMAIN changes', changes'[i].type = "insert"
                 PROVE  changes'[i].pages \subseteq PagesOf[changes'[i].source]
        BY DEF InsertNamesItsSource
    <2>1. CASE changes'[i] = x
        BY <2>1
    <2>2. CASE \E j \in DOMAIN changes : changes'[i] = changes[j]
        BY <2>2 DEF Marking, InsertNamesItsSource
    <2> QED  BY <1>1, <2>1, <2>2, OneMore
<1>3. changes' \in Seq(Change) /\ Targets(changes) \subseteq Targets(changes')
    BY <1>1, OneMore
<1> QED  BY <1>2, <1>3 DEF Marking, MarksMeanChanges, Chosen, preview, Targets

LEMMA ClickMarked ==
    ASSUME Marking, NEW p \in Thumbs,
           togglePageDelete(p) \/ triggerPageReplace(p) \/ ReorderFirst(p) \/ ReorderSecond(p)
    PROVE  Marking'
<1>0. p # 0 /\ changes \in Seq(Change)
    BY PagesAssumption DEF Thumbs, Marking
<1>1. CASE togglePageDelete(p) /\ p \in selected
    <2>1. changes' = WithoutDelete(p) /\ selected' = selected \ {p} /\ greyed' = greyed \ {p}
        BY <1>1 DEF togglePageDelete
    <2>2. UNCHANGED <<mode, pending, framed, offer, insertedPages>>
        BY <1>1 DEF togglePageDelete, inserting
    <2>3. greyed' \subseteq Targets(changes')
        BY <1>0, <2>1, DeletionsGone DEF Marking, MarksMeanChanges
    <2>4. MarksMeanChanges'
        BY <2>1, <2>2, <2>3 DEF Marking, MarksMeanChanges, Targets
    <2>5. InsertNamesItsSource' /\ changes' \in Seq(Change)
        BY <1>0, <2>1, DeletionsGone DEF Marking, InsertNamesItsSource
    <2> QED  BY <2>2, <2>4, <2>5 DEF Marking, Chosen
<1>2. CASE togglePageDelete(p) /\ p \notin selected
    <2> DEFINE x == [type |-> "delete", page |-> p]
    <2>1. changes' = Append(changes, x) /\ selected' = selected \cup {p} /\ greyed' = greyed \cup {p}
        BY <1>2 DEF togglePageDelete
    <2>2. UNCHANGED <<mode, pending, framed, offer, insertedPages>>
        BY <1>2 DEF togglePageDelete, inserting
    <2>3. x \in Change /\ x.type = "delete" /\ x.page = p
        BY DEF Change, DeleteChange
    <2> HIDE DEF x
    <2>4. greyed' \subseteq Targets(changes')
        BY <1>0, <2>1, <2>3, OneMore DEF Marking, MarksMeanChanges
    <2>5. MarksMeanChanges'
        BY <2>1, <2>2, <2>4 DEF Marking, MarksMeanChanges, Targets
    <2>6. InsertNamesItsSource'
        <3> SUFFICES ASSUME NEW i \in DOMAIN changes', changes'[i].type = "insert"
                     PROVE  changes'[i].pages \subseteq PagesOf[changes'[i].source]
            BY DEF InsertNamesItsSource
        <3>1. PICK j \in DOMAIN changes : changes'[i] = changes[j]
            BY <1>0, <2>1, <2>3, OneMore
        <3> QED  BY <3>1 DEF Marking, InsertNamesItsSource
    <2>7. changes' \in Seq(Change)
        BY <1>0, <2>1, <2>3, OneMore
    <2> QED  BY <2>2, <2>5, <2>6, <2>7 DEF Marking, Chosen
<1>3. CASE triggerPageReplace(p) \/ ReorderSecond(p)
    <2>1. PICK x \in [type : {"replace", "reorder"}] : changes' = Append(changes, x)
        BY <1>3 DEF triggerPageReplace, ReorderSecond
    <2>2. x \in Change /\ x.type # "insert"
        BY DEF Change
    <2>3. framed' = {pending'} \ {0}
        BY <1>3 DEF triggerPageReplace, ReorderSecond, clearPendingState, Marking, MarksMeanChanges
    <2> QED
        BY <1>3, <2>1, <2>2, <2>3, MoreMarked
        DEF triggerPageReplace, ReorderSecond, inserting, preview
<1>4. CASE ReorderFirst(p)
    BY <1>0, <1>4
    DEF ReorderFirst, inserting, Marking, MarksMeanChanges, InsertNamesItsSource, Chosen
<1> QED  BY <1>1, <1>2, <1>3, <1>4

LEMMA InsertMarked ==
    ASSUME Marking,
           \/ \E s \in Sources : pmFetchPreview(s) \/ renderInsertPreview(s) \/ PreviewFails(s)
           \/ \E s \in Sources : \E n \in PagesOf[s] : PickPreview(n)
           \/ pmConfirmInsert \/ pmCancelInsert
    PROVE  Marking'
<1>1. ASSUME NEW s \in Sources, pmFetchPreview(s) \/ PreviewFails(s)
      PROVE  Marking'
    BY <1>1, Unmarked DEF pmFetchPreview, PreviewFails, editing, marks, preview
<1>2. ASSUME NEW s \in Sources, renderInsertPreview(s)
      PROVE  Marking'
    BY <1>2
    DEF renderInsertPreview, editing, Marking, MarksMeanChanges, InsertNamesItsSource, Chosen
<1>3. ASSUME NEW n, PickPreview(n)
      PROVE  Marking'
    BY <1>3 DEF PickPreview, editing, Marking, MarksMeanChanges, InsertNamesItsSource, Chosen
<1>4. CASE pmConfirmInsert
    <2> DEFINE x == [type |-> "insert", source |-> offer, pages |-> insertedPages]
    <2>1. offer \in Sources /\ insertedPages \subseteq PagesOf[offer]
        BY <1>4 DEF pmConfirmInsert, Marking, Chosen
    <2>2. x \in Change /\ x.type = "insert" /\ x.pages = insertedPages /\ x.source = offer
        BY <2>1, PagesAssumption DEF Change, InsertChange
    <2>3. changes' = Append(changes, x) /\ mode' = "none" /\ offer' = Nothing /\ insertedPages' = {}
        BY <1>4 DEF pmConfirmInsert, CloseInsert, SourceFetched
    <2>4. UNCHANGED <<selected, pending, greyed, framed>>
        BY <1>4 DEF pmConfirmInsert
    <2> HIDE DEF x
    <2>5. changes \in Seq(Change)
        BY DEF Marking
    <2>6. InsertNamesItsSource'
        <3> SUFFICES ASSUME NEW i \in DOMAIN changes', changes'[i].type = "insert"
                     PROVE  changes'[i].pages \subseteq PagesOf[changes'[i].source]
            BY DEF InsertNamesItsSource
        <3>1. CASE changes'[i] = x
            BY <2>1, <2>2, <3>1
        <3>2. CASE \E j \in DOMAIN changes : changes'[i] = changes[j]
            BY <3>2 DEF Marking, InsertNamesItsSource
        <3> QED  BY <2>2, <2>3, <2>5, <3>1, <3>2, OneMore
    <2>7. changes' \in Seq(Change) /\ Targets(changes) \subseteq Targets(changes')
        BY <2>2, <2>3, <2>5, OneMore
    <2>8. MarksMeanChanges'
        BY <2>3, <2>4, <2>7 DEF Marking, MarksMeanChanges, Targets
    <2> QED  BY <2>3, <2>6, <2>7, <2>8 DEF Marking, Chosen
<1>5. CASE pmCancelInsert
    BY <1>5
    DEF pmCancelInsert, CloseInsert, Marking, MarksMeanChanges, InsertNamesItsSource, Chosen
<1> QED  BY <1>1, <1>2, <1>3, <1>4, <1>5

LEMMA UndoMarked ==
    ASSUME Marking, pmUndo
    PROVE  Marking'
<1> DEFINE last == Last(changes)
<1>1. /\ changes \in Seq(Change) /\ changes # <<>> /\ changes' = Front(changes)
      /\ UNCHANGED <<mode, offer, insertedPages>>
    BY DEF pmUndo, Marking, inserting
<1>2. UndoDelete(last) \/ UndoReorder(last) \/ UndoReplace(last)
    BY DEF pmUndo
<1> HIDE DEF last
<1>3. /\ changes' \in Seq(Change)
      /\ last.type = "delete" => Targets(changes) \ {last.page} \subseteq Targets(changes')
      /\ last.type # "delete" => Targets(changes) \subseteq Targets(changes')
      /\ \A i \in DOMAIN changes' : i \in DOMAIN changes /\ changes'[i] = changes[i]
    BY <1>1, OneLess DEF last
<1>4. greyed' \subseteq Targets(changes') /\ (mode' = "delete" => selected' \subseteq greyed')
    BY <1>1, <1>2, <1>3
    DEF UndoDelete, UndoReorder, UndoReplace, Marking, MarksMeanChanges
<1>5. framed' = {pending'} \ {0}
    BY <1>2 DEF UndoDelete, UndoReorder, UndoReplace, Marking, MarksMeanChanges
<1>6. MarksMeanChanges'
    BY <1>4, <1>5 DEF MarksMeanChanges, Targets
<1>7. InsertNamesItsSource'
    BY <1>3 DEF Marking, InsertNamesItsSource
<1> QED  BY <1>1, <1>3, <1>6, <1>7 DEF Marking, Chosen

LEMMA SaveMarked ==
    ASSUME Marking,
           \/ pmSave \/ openDeleteConfirm \/ Leave
           \/ \E k \in Posts : ServeSave(k) \/ SaveSucceeds(k) \/ DeleteSucceeds(k) \/ Fails(k)
    PROVE  Marking'
<1>1. CASE UNCHANGED <<editing, inserting>>
    BY <1>1, Unmarked DEF editing, inserting, marks, preview
<1>2. ASSUME NEW k \in Posts, SaveSucceeds(k)
      PROVE  Marking'
    <2>1. changes' = <<>> /\ <<>> \in Seq(Change)
        BY <1>2 DEF SaveSucceeds
    <2> QED
        BY <1>2, <2>1
        DEF SaveSucceeds, Closed, Marking, MarksMeanChanges, InsertNamesItsSource, Chosen
<1> QED
    BY <1>1, <1>2, NothingMarked
    DEF pmSave, openDeleteConfirm, Leave, ServeSave, DeleteSucceeds, Fails

LEMMA PagesMarked == PagesSpec => []Marking
<1>1. PagesInit => Marking
    <2>1. <<>> \in Seq(Change)
        OBVIOUS
    <2> QED
        BY <2>1 DEF PagesInit, InitPage, Marking, MarksMeanChanges, InsertNamesItsSource, Chosen
<1>2. ASSUME Marking, [PagesNext]_pagesVars
      PROVE  Marking'
    <2>1. CASE UNCHANGED pagesVars
        BY <1>2, <2>1, Unmarked DEF pagesVars, editing, inserting, marks, preview
    <2> QED
        BY <1>2, <2>1, ModeMarked, ClickMarked, InsertMarked, UndoMarked, SaveMarked DEF PagesNext
<1> QED  BY <1>1, <1>2, PTL DEF PagesSpec

\* A page greyed out has its deletion pending, a click in delete mode takes back only
\* what is greyed out, and the framed page waits to be swapped: over every order of
\* clicks, undos, mode changes, exits and late answers, for every number of pages
\* (togglePageDelete, pmUndo, clearPendingState).
THEOREM MarksCorrect == PagesSpec => []MarksMeanChanges
<1>1. Marking => MarksMeanChanges
    BY DEF Marking
<1> QED  BY <1>1, PagesMarked, PTL

\* A pending insertion names pages its source has, whichever preview was asked for or
\* arrived last, for all comics and pages (renderInsertPreview).
THEOREM InsertCorrect == PagesSpec => []InsertNamesItsSource
<1>1. Marking => InsertNamesItsSource
    BY DEF Marking
<1> QED  BY <1>1, PagesMarked, PTL
==================================================================================
