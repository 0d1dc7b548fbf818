----------------------------- MODULE GalleryActions -----------------------------
(***************************************************************************)
(* The buttons of the gallery page that ask the server for something (like,*)
(* archive, forced archive, restore, verify) and their loading state, over *)
(* the comic's document on the server.  The buttons are <a> elements, which*)
(* cannot be disabled; the style of the loading state stops the mouse, not *)
(* the keyboard, and only the test of dataset.loading stops both.  A       *)
(* request or its answer may be lost on the way, and the page may be loaded*)
(* again while the server works.                                           *)
(*                                                                         *)
(* The document is written by handlers that have read it through a cache   *)
(* and by verification tasks that have read it long before: both write back*)
(* what they read, as a whole.  Other tabs like, tag, archive and delete.  *)
(***************************************************************************)
EXTENDS Naturals, FiniteSets

CONSTANTS Conns,   \* the requests a page can have under way
          Tasks,   \* the verification tasks that can work on the comic at once
          MaxBusy, \* bound: requests, tasks and page views under way at once
          None     \* no request, no document

Buttons == {"like", "archive", "force", "fix"}   \* sidebarLikeBtn, sidebarArchiveBtn, forceArchiveBtn, sidebarFixBtn
Ops == {"like", "unlike", "archive", "force", "restore", "verify"}
Answers == {"ok", "invalid", "refused", "failed", "lost"}   \* head.code 0, -1001, another; an HTTP error; onerror
Requests == [op : Ops, btn : Buttons, answer : Answers \cup {"none"}]
Docs == [liked : BOOLEAN, deleted : BOOLEAN]   \* of a document: the like tag, the mark of a deletion

ASSUME NoneAssumption == None \notin Requests \cup Docs

VARIABLES
    btn,       \* what a button shows: there, loading, does (its onclick)
    like,      \* the like button's class (btn-primary) and its label
    likeTag,   \* the tag .tag-99999 is listed
    flight,    \* requests under way
    record,    \* the comic's document in the database
    cached,    \* the document the cache holds
    view,      \* the document a page view has read and not yet put into the cache
    held,      \* the documents the verification tasks have read
    deleting,  \* a deletion has removed the document and not yet left its mark
    sure       \* history: since the page was rendered its like has been the document's to
               \* change: nothing was lost, nobody else changed it, no outdated copy was used

page == <<btn, like, likeTag>>
server == <<record, cached, view, held, deleting>>
vars == <<btn, like, likeTag, flight, record, cached, view, held, deleting, sure>>

OnPage == [there : BOOLEAN, loading : BOOLEAN, does : Ops]

\* The page as the template renders it for a document: the like tag and the label come from the tags,
\* the archive button from the archive, which documents leave out here.
Fresh(does, there) == [there |-> there, loading |-> FALSE, does |-> does]
RenderButtons(does) ==
    [b \in Buttons |->
        IF b = "like" THEN Fresh("like", TRUE)
        ELSE IF b = "archive" THEN Fresh(does, TRUE)
        ELSE IF b = "force" THEN Fresh("force", FALSE)
        ELSE Fresh("verify", TRUE)]
RenderLike(doc) == [on |-> doc.liked, liked |-> doc.liked]

Init ==
    /\ record \in {doc \in Docs : ~doc.deleted}
    /\ \E does \in {"archive", "restore"} : btn = RenderButtons(does)
    /\ like = RenderLike(record)
    /\ likeTag = record.liked
    /\ flight = [c \in Conns |-> None]
    /\ cached = None
    /\ view = None
    /\ held = [t \in Tasks |-> None]
    /\ deleting = FALSE
    /\ sure = TRUE

--------------------------------------------------------------------------------
\* LoadingManager.

LoadingStart(buttons, b) == [buttons EXCEPT ![b].loading = TRUE]
\* done and error; error also sets the class btn-error for 400 ms, which nothing reads.
LoadingDone(buttons, b) == [buttons EXCEPT ![b].loading = FALSE]

Busy == Cardinality({c \in Conns : flight[c] # None}) + Cardinality({t \in Tasks : held[t] # None})
        + (IF view = None THEN 0 ELSE 1)

\* As if the disabled attribute would stop clicks on an <a>.
MayAskAgain(b) == btn[b].there

MayAsk(b) == btn[b].there /\ ~btn[b].loading

Ask(b, op) ==
    /\ MayAsk(b) /\ Busy < MaxBusy
    /\ \E c \in Conns :
        /\ flight[c] = None
        /\ flight' = [flight EXCEPT ![c] = [op |-> op, btn |-> b, answer |-> "none"]]
    /\ btn' = LoadingStart(btn, b)

--------------------------------------------------------------------------------
\* Clicks.

OptimisticToggle(shown) == [on |-> ~shown.on, liked |-> ~shown.on]
RollbackForgotten(was) == like
Rollback(was) == [on |-> was, liked |-> was]

AddLikeGroup ==
    /\ Ask("like", IF like.on THEN "unlike" ELSE "like")
    /\ like' = OptimisticToggle(like)
    /\ UNCHANGED <<likeTag, server, sure>>

\* The sidebar's archive button, or reArchive(), which asks for an archive whatever the button says.
ArchiveComic ==
    /\ Ask("archive", "archive")
    /\ UNCHANGED <<like, likeTag, server, sure>>

ArchiveComicForce ==
    /\ btn["force"].does = "force"
    /\ Ask("force", "force")
    /\ UNCHANGED <<like, likeTag, server, sure>>

\* restoreComic always works on sidebarArchiveBtn, also when the forced-archive button calls it.
RestoreComic ==
    /\ \E b \in {"archive", "force"} : btn[b].there /\ btn[b].does = "restore"
    /\ Ask("archive", "restore")
    /\ UNCHANGED <<like, likeTag, server, sure>>

VerifyComic ==
    /\ Ask("fix", "verify")
    /\ UNCHANGED <<like, likeTag, server, sure>>

--------------------------------------------------------------------------------
\* The server: GetComicInfo and UpdateComicInfo.

Got == IF cached = None THEN record ELSE cached    \* what GetComicInfo returns
Stored == IF record = None THEN [liked |-> FALSE, deleted |-> FALSE] ELSE record

\* Faulty variant: the whole document without omitempty, so that its zero values are written too.
WrittenPlainly(doc) == {doc}

\* $set of a whole document.  omitempty takes what is empty out of it: a missing mark stays
\* what it was, and so does the like when the document has no tag at all.
Written(doc) ==
    {[liked |-> liked, deleted |-> Stored.deleted \/ doc.deleted] :
        liked \in {doc.liked, doc.liked \/ Stored.liked}}

Updated(rec) == record' = rec /\ cached' = None

\* The like is the same before and after.
SameLike == record # None /\ record' # None /\ record'.liked = record.liked

\* AddLikeTag: nothing to write when the document it got has the tag.
AddLikeTag ==
    /\ Got # None
    /\ \/ Got.liked /\ record' = record /\ cached' = Got
       \/ ~Got.liked /\ \E rec \in Written([Got EXCEPT !.liked = TRUE]) : Updated(rec)
    /\ UNCHANGED <<view, held, deleting>>

\* ArchiveByID sets the archive only; tryGetArchived then reads the comic again.
ArchiveByID ==
    /\ Got # None
    /\ record' = Stored
    /\ cached' = record'
    /\ UNCHANGED <<view, held, deleting>>

\* A handler that has only read, or not come that far.
OnlyRead ==
    /\ cached' \in {cached, Got}
    /\ UNCHANGED <<record, view, held, deleting>>

\* What the handlers answer.  Whether the images pass the check is a free choice; RemoveLikeTag
\* reads cid with FormValue, which does not read the body of a DELETE; a verification task that
\* was started goes on as VerifyReads and VerifyStores.
Refusals(op) ==
    CASE op \in {"like", "unlike", "force"} -> {"failed"}
      [] op = "archive"                     -> {"invalid", "failed"}
      [] op = "restore"                     -> {"refused", "failed"}
      [] op = "verify"                      -> {"ok", "refused", "failed"}

Serve(c) ==
    /\ flight[c] # None /\ flight[c].answer = "none"
    /\ \E answer \in Answers \ {"lost"} :
        /\ flight' = [flight EXCEPT ![c].answer = answer]
        /\ \/ OnlyRead /\ answer \in Refusals(flight[c].op) /\ sure' = sure
           \/ OnlyRead /\ flight[c].op = "restore" /\ answer = "ok"
              /\ Got # None /\ sure' = sure
           \/ AddLikeTag /\ flight[c].op = "like" /\ answer = "ok"
              /\ sure' = (sure /\ Got.liked = record.liked)
           \/ ArchiveByID /\ flight[c].op \in {"archive", "force"} /\ answer = "ok" /\ sure' = sure
    /\ UNCHANGED page

\* The connection breaks: before the request arrived, while the server works on it, or after.
\* What the server still makes of it is one of OtherTab's requests.
Lose(c) ==
    /\ flight[c] # None /\ flight[c].answer # "lost"
    /\ flight' = [flight EXCEPT ![c].answer = "lost"]
    /\ sure' = FALSE
    /\ UNCHANGED <<page, server>>

\* Another tab, or a request nobody waits for any more, likes or archives the comic; the tag
\* editor sets its list of tags, with or without the like.
OtherTab ==
    /\ \/ AddLikeTag
       \/ ArchiveByID
       \/ /\ Got # None
          /\ \E liked \in BOOLEAN : Updated([Stored EXCEPT !.liked = liked])
          /\ UNCHANGED <<view, held, deleting>>
    /\ sure' = (sure /\ SameLike)
    /\ UNCHANGED <<page, flight>>

\* A verification task reads the comic's document, works, and stores it with its result as
\* a whole.  It takes no lock.
VerifyReads(t) ==
    /\ held[t] = None /\ record # None /\ Busy < MaxBusy
    /\ held' = [held EXCEPT ![t] = record]
    /\ UNCHANGED <<page, flight, record, cached, view, deleting, sure>>

VerifyStores(t) ==
    /\ held[t] # None
    /\ \/ \E rec \in Written(held[t]) : Updated(rec)
       \/ UNCHANGED <<record, cached>>    \* the update fails
    /\ held' = [held EXCEPT ![t] = None]
    /\ sure' = (sure /\ SameLike)
    /\ UNCHANGED <<page, flight, view, deleting>>

\* DeleteComicByID removes the document, then inserts the one with the mark and empties the
\* cache.  When a handler or a task has stored a document in between there are two, and the
\* database finds the older one; the insertion may fail, or the server stop before it.
DeleteStarts ==
    /\ Got # None /\ ~deleting
    /\ record' = None
    /\ deleting' = TRUE
    /\ sure' = FALSE
    /\ UNCHANGED <<page, flight, cached, view, held>>

Tombstone == [liked |-> FALSE, deleted |-> TRUE]
DeleteEnds ==
    /\ deleting
    /\ \/ record' = (IF record = None THEN Tombstone ELSE record) /\ cached' = None
       \/ UNCHANGED <<record, cached>>
    /\ deleting' = FALSE
    /\ UNCHANGED <<page, flight, view, held, sure>>

\* A view of the comic that missed the cache reads the document in one step and puts it into
\* the cache in another; a copy in the cache expires, or somebody empties the cache.
ViewReads ==
    /\ cached = None /\ view = None /\ record # None /\ Busy < MaxBusy
    /\ view' = record
    /\ UNCHANGED <<page, flight, record, cached, held, deleting, sure>>

ViewStores ==
    /\ view # None
    /\ cached' = view
    /\ view' = None
    /\ UNCHANGED <<page, flight, record, held, deleting, sure>>

Evict ==
    /\ cached' = None
    /\ UNCHANGED <<page, flight, record, view, held, deleting, sure>>

--------------------------------------------------------------------------------
\* Answers: the onload and onerror handlers, each on the button of its request.

LikeAnswered(r) ==
    /\ r.op \in {"like", "unlike"}
    /\ btn' = LoadingDone(btn, r.btn)
    /\ like' = IF r.answer = "ok" THEN like ELSE Rollback(r.op = "unlike")
    /\ likeTag' = IF r.answer = "ok" THEN r.op = "like" ELSE likeTag

Archived(r) == r.op \in {"archive", "force"} /\ r.answer = "ok"

\* Success turns the button into the one for the opposite; a refusal for invalid images outlines
\* them and offers force.
ArchiveAnswered(r) ==
    /\ r.op \in {"archive", "force", "restore"}
    /\ LET rested == LoadingDone(btn, r.btn) IN
        btn' = IF Archived(r) THEN [rested EXCEPT ![r.btn].does = "restore"]
               ELSE IF r.answer = "ok" /\ r.op = "restore" THEN [rested EXCEPT !["archive"].does = "archive"]
               ELSE IF r.answer = "invalid" THEN [rested EXCEPT !["force"].there = TRUE]
               ELSE rested
    /\ UNCHANGED <<like, likeTag>>

VerifyAnswered(r) ==
    /\ r.op = "verify"
    /\ btn' = LoadingDone(btn, r.btn)
    /\ UNCHANGED <<like, likeTag>>

\* As without the onerror handlers.
ArrivedOnLoad(c) == flight[c] # None /\ flight[c].answer \notin {"none", "lost"}
Arrived(c) == flight[c] # None /\ flight[c].answer # "none"

Answer(c) ==
    /\ Arrived(c)
    /\ LikeAnswered(flight[c]) \/ ArchiveAnswered(flight[c]) \/ VerifyAnswered(flight[c])
    /\ flight' = [flight EXCEPT ![c] = None]
    /\ UNCHANGED <<server, sure>>

\* The page is loaded again, from a copy in the cache or as a view whose read is over; requests
\* under way lose their reader, the server may go on with them.
Reload ==
    \E doc \in {cached, view} \ {None} :
        /\ ~doc.deleted    \* instead of a deleted comic's page there is another
        /\ \E does \in {"archive", "restore"} : btn' = RenderButtons(does)
        /\ like' = RenderLike(doc)
        /\ likeTag' = doc.liked
        /\ flight' = [c \in Conns |-> None]
        /\ \/ doc = cached /\ UNCHANGED <<cached, view>>
           \/ doc = view /\ cached' = doc /\ view' = None
        /\ sure' = (record # None /\ doc.liked = record.liked)
        /\ UNCHANGED <<record, held, deleting>>

Next ==
    \/ AddLikeGroup \/ ArchiveComic \/ ArchiveComicForce \/ RestoreComic \/ VerifyComic
    \/ \E c \in Conns : Serve(c) \/ Lose(c) \/ Answer(c)
    \/ OtherTab \/ DeleteStarts \/ DeleteEnds
    \/ \E t \in Tasks : VerifyReads(t) \/ VerifyStores(t)
    \/ ViewReads \/ ViewStores \/ Evict \/ Reload

\* A request is carried out or lost, and what the browser has received it hands to the handler.
Spec == Init /\ [][Next]_vars /\ \A c \in Conns : WF_vars(Serve(c)) /\ WF_vars(Answer(c))

--------------------------------------------------------------------------------

TypeOK ==
    /\ btn \in [Buttons -> OnPage]
    /\ like \in [on : BOOLEAN, liked : BOOLEAN]
    /\ likeTag \in BOOLEAN /\ sure \in BOOLEAN
    /\ flight \in [Conns -> Requests \cup {None}]
    /\ record \in Docs \cup {None} /\ cached \in Docs \cup {None} /\ view \in Docs \cup {None}
    /\ held \in [Tasks -> Docs \cup {None}] /\ deleting \in BOOLEAN

Waiting(b) == {c \in Conns : flight[c] # None /\ flight[c].btn = b}

\* A button waits for at most one answer, and it shows its loading state exactly
\* while it waits: however clicks, answers, losses and reloads interleave, an <a>
\* that the browser does not disable neither asks twice nor stays loading
\* (LoadingManager and the loading guards of gallery-actions.js).
LoadingIsOneRequest ==
    \A b \in Buttons : Cardinality(Waiting(b)) = IF btn[b].loading THEN 1 ELSE 0

\* When the like button rests and nothing but this page has decided about the like since
\* it was rendered, class, label, listed tag and the document on the server all agree: the
\* optimistic toggle and its rollback lose nothing (addLikeGroup, AddLikeTag).
LikeSettles ==
    sure /\ ~btn["like"].loading
        => /\ record # None
           /\ like.on = record.liked
           /\ like.liked = record.liked
           /\ likeTag = record.liked

\* A comic that bears the mark of a deletion keeps it, until it is deleted once more: the
\* documents that handlers, page views and verification tasks have read before the deletion
\* and write back as a whole after it do not bring it back (DeleteComicByID, UpdateComicInfo).
DeletionStays ==
    [][record # None /\ record.deleted => record' = None \/ record'.deleted]_vars

\* Every button comes back from its loading state (onload and onerror).
ButtonsComeBack == \A b \in Buttons : btn[b].loading ~> ~btn[b].loading
=================================================================================
