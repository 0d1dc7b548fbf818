------------------------------- MODULE PageManager -------------------------------
(***************************************************************************)
(* The page manager of a gallery page: the user marks pages for deletion,  *)
(* replacement or reordering and chooses pages of another comic to insert; *)
(* the changes pile up in the browser and are saved in one request, which  *)
(* savePages applies to the stored list.  Pages are named by their place   *)
(* in the list the page was rendered from (data-page).                     *)
(***************************************************************************)
EXTENDS Naturals, Sequences, SequencesExt, FiniteSets, Filtering

CONSTANTS NPages,      \* pages of the comic
          Sources,     \* comics pages can be inserted from
          PagesOf,     \* the pages each of them has
          MaxChanges,  \* bound: changes not yet saved
          Posts,       \* the save requests that can be under way together
          Nothing         \* nothing

ASSUME PagesAssumption == NPages \in Nat \ {0} /\ PagesOf \in [Sources -> SUBSET Nat]

Thumbs == 1..NPages
Modes == {"none", "delete", "insert", "replace", "reorder"}

\* An entry of state.changes.  Which pages are replaced or moved, and to where, decides
\* nothing here.
DeleteChange == [type : {"delete"}, page : Thumbs]
InsertChange == [type : {"insert"}, source : Sources, pages : SUBSET Nat]
Change == DeleteChange \cup InsertChange \cup [type : {"replace", "reorder"}]
SaveAnswers == {"none", "ok", "failed"}

VARIABLES
    active, mode,    \* state.active, state.mode
    changes,         \* state.changes
    selected,        \* state.selectedPages
    pending,         \* state._pendingReorder: the page to swap, 0 when there is none
    greyed,          \* thumbnails with class page-deleted
    framed,          \* thumbnails with class page-selected
    count, guarded,  \* the number the status shows; whether leaving asks (beforeunload)
    form,            \* the insert form is shown
    offer,           \* the comic whose pages the preview shows
    insertedPages,   \* state.insertedPages
    fetches,         \* getComicPages requests under way
    posts,           \* savePages requests under way: the deletions in them, their answer, their reader
    stored,          \* the server's list of pages, <<>> as well when the comic is deleted
    rendered         \* how many pages the gallery page was rendered with

editing == <<active, mode, changes, selected, pending, greyed, framed, count, guarded>>
inserting == <<form, offer, insertedPages, fetches>>
remote == <<posts, stored, rendered>>
pagesVars == <<editing, inserting, remote>>

InitPage ==
    /\ active = FALSE /\ mode = "none" /\ changes = <<>>
    /\ selected = {} /\ pending = 0 /\ greyed = {} /\ framed = {}
    /\ count = 0 /\ guarded = FALSE
    /\ form = FALSE /\ offer = Nothing /\ insertedPages = {} /\ fetches = {}

PagesInit ==
    /\ InitPage
    /\ posts = [k \in Posts |-> Nothing]
    /\ stored = [i \in Thumbs |-> i] /\ rendered = NPages

--------------------------------------------------------------------------------
\* The functions the handlers share.

\* The page asks before it is left while there are changes.
updateBeforeUnload(list) == guarded' = (list # <<>>)
\* As without the wrapper around updateStatus.
StatusOnly(list) == count' = Len(list) /\ guarded' = guarded
updateStatus(list) == count' = Len(list) /\ updateBeforeUnload(list)

\* As if only the choice were forgotten.
FrameStays == pending' = 0 /\ UNCHANGED framed
clearPendingState ==
    /\ pending' = 0
    /\ framed' = framed \ {pending}

WithoutDelete(p) == Without(changes, {[type |-> "delete", page |-> p]})

--------------------------------------------------------------------------------
\* Entering, leaving and the four modes.

pmEnter ==
    /\ ~active /\ active' = TRUE
    /\ updateStatus(changes)
    /\ UNCHANGED <<mode, changes, selected, pending, greyed, framed, inserting, remote>>

\* Leaving clears what is shown; changes and selectedPages stay.
Closed ==
    /\ active' = FALSE /\ mode' = "none" /\ pending' = 0
    /\ greyed' = {} /\ framed' = {}
    /\ form' = FALSE

pmExit ==
    /\ active /\ Closed
    /\ UNCHANGED <<changes, selected, count, guarded, offer, insertedPages, fetches, remote>>

SetMode(m) ==
    /\ active
    /\ clearPendingState
    /\ mode' = m
    /\ updateStatus(changes)
    /\ UNCHANGED <<active, changes, greyed, offer, insertedPages, fetches, remote>>

pmDeleteMode == SetMode("delete") /\ selected' = {} /\ UNCHANGED form
pmInsertMode == SetMode("insert") /\ form' = TRUE /\ UNCHANGED selected
pmReplaceMode == SetMode("replace") /\ UNCHANGED <<selected, form>>
pmReorderMode == SetMode("reorder") /\ UNCHANGED <<selected, form>>

--------------------------------------------------------------------------------
\* onThumbClick, by mode; without a mode and in insert mode the link is followed.

togglePageDelete(p) ==
    /\ active /\ mode = "delete" /\ p <= rendered
    /\ \/ /\ p \in selected
          /\ selected' = selected \ {p} /\ greyed' = greyed \ {p}
          /\ changes' = WithoutDelete(p)
       \/ /\ p \notin selected /\ Len(changes) < MaxChanges
          /\ selected' = selected \cup {p} /\ greyed' = greyed \cup {p}
          /\ changes' = Append(changes, [type |-> "delete", page |-> p])
    /\ updateStatus(changes')
    /\ UNCHANGED <<active, mode, pending, framed, inserting, remote>>

\* The prompt's number is checked against 1 only.
triggerPageReplace(p) ==
    /\ active /\ mode = "replace" /\ p <= rendered /\ Len(changes) < MaxChanges
    /\ changes' = Append(changes, [type |-> "replace"])
    /\ updateStatus(changes')
    /\ UNCHANGED <<active, mode, selected, pending, greyed, framed, inserting, remote>>

ReorderFirst(p) ==
    /\ active /\ mode = "reorder" /\ p <= rendered /\ pending = 0
    /\ pending' = p /\ framed' = framed \cup {p}
    /\ updateStatus(changes)
    /\ UNCHANGED <<active, mode, changes, selected, greyed, inserting, remote>>

\* The second click may be on the same page.
ReorderSecond(p) ==
    /\ active /\ mode = "reorder" /\ p <= rendered /\ pending # 0 /\ Len(changes) < MaxChanges
    /\ changes' = Append(changes, [type |-> "reorder"])
    /\ clearPendingState
    /\ updateStatus(changes')
    /\ UNCHANGED <<active, mode, selected, greyed, inserting, remote>>

--------------------------------------------------------------------------------
\* Inserting: the preview is fetched, answered in any order, and picked from.

pmFetchPreview(s) ==
    /\ form /\ fetches' = fetches \cup {s}
    /\ UNCHANGED <<editing, form, offer, insertedPages, remote>>

renderInsertPreview(s) ==
    /\ s \in fetches /\ fetches' = fetches \ {s}
    /\ offer' = s /\ insertedPages' = {}
    /\ UNCHANGED <<editing, form, remote>>

PreviewFails(s) ==
    /\ s \in fetches /\ fetches' = fetches \ {s}
    /\ UNCHANGED <<editing, form, offer, insertedPages, remote>>

PickPreview(n) ==
    /\ form /\ offer # Nothing /\ n \in PagesOf[offer]
    /\ insertedPages' = IF n \in insertedPages THEN insertedPages \ {n} ELSE insertedPages \cup {n}
    /\ UNCHANGED <<editing, form, offer, fetches, remote>>

\* The number in the form may already be another comic's.
SourceTyped == IF fetches = {} THEN offer ELSE CHOOSE s \in fetches : TRUE
SourceFetched == offer

CloseInsert ==
    /\ form' = FALSE /\ insertedPages' = {} /\ offer' = Nothing
    /\ mode' = "none"
    /\ UNCHANGED fetches

pmConfirmInsert ==
    /\ form /\ insertedPages # {} /\ Len(changes) < MaxChanges
    /\ changes' = Append(changes, [type |-> "insert", source |-> SourceFetched, pages |-> insertedPages])
    /\ CloseInsert
    /\ updateStatus(changes')
    /\ UNCHANGED <<active, selected, pending, greyed, framed, remote>>

pmCancelInsert ==
    /\ form /\ CloseInsert
    /\ UNCHANGED <<active, changes, selected, pending, greyed, framed, count, guarded, remote>>

--------------------------------------------------------------------------------
\* Undo.

UndoDelete(c) ==
    /\ c.type = "delete"
    /\ greyed' = greyed \ {c.page} /\ selected' = selected \ {c.page}
    /\ UNCHANGED <<pending, framed>>

UndoReorder(c) ==
    /\ c.type = "reorder"
    /\ pending' = 0 /\ framed' = {}
    /\ UNCHANGED <<selected, greyed>>

UndoReplace(c) ==
    /\ c.type = "replace"
    /\ UNCHANGED <<selected, greyed, pending, framed>>

\* The last change if it is no insert: an insert is pushed back and nothing happens.
pmUndo ==
    /\ active /\ changes # <<>>
    /\ LET last == Last(changes) IN UndoDelete(last) \/ UndoReorder(last) \/ UndoReplace(last)
    /\ changes' = Front(changes)
    /\ updateStatus(changes')
    /\ UNCHANGED <<active, mode, inserting, remote>>

--------------------------------------------------------------------------------
\* Saving.  Nothing stops a second save while the first is under way.

Deletions(list) ==
    LET marked == SelectSeq(list, LAMBDA c : c.type = "delete") IN
    [i \in DOMAIN marked |-> marked[i].page]

NewPost(op, deletes) == [op |-> op, deletes |-> deletes, answer |-> "none", read |-> TRUE]

pmSave ==
    /\ active /\ changes # <<>>
    /\ \E k \in Posts :
        /\ posts[k] = Nothing
        /\ posts' = [posts EXCEPT ![k] = NewPost("save", Deletions(changes))]
    /\ UNCHANGED <<editing, inserting, stored, rendered>>

\* The number of the comic has been typed.
openDeleteConfirm ==
    /\ \E k \in Posts :
        /\ posts[k] = Nothing
        /\ posts' = [posts EXCEPT ![k] = NewPost("delete", <<>>)]
    /\ UNCHANGED <<editing, inserting, stored, rendered>>

\* SavePages cuts Pages[p-1] and Pages[p] for a page p; for the last page the slice panics.
Cut(list, p) == SubSeq(list, 1, p - 1) \o SubSeq(list, p + 2, Len(list))
Panic == <<0>>
ApplyDelete(list, p) ==
    IF list = Panic \/ p > Len(list) THEN list
    ELSE IF p = Len(list) THEN Panic ELSE Cut(list, p)
SavePages(list, deletes) == FoldLeft(ApplyDelete, list, deletes)

\* Nobody reads the answer of a request whose page was left.
Answered(post, result) ==
    IF post.read THEN [post EXCEPT !.deletes = <<>>, !.answer = result] ELSE Nothing

\* SavePages reads the comic's document, from the cache too, changes and writes it, without the
\* comic's lock; the model has the three as one step, so that of two requests at once
\* the later works on what the earlier wrote.
ServeSave(k) ==
    /\ posts[k] # Nothing /\ posts[k].answer = "none"
    /\ LET result == IF posts[k].op = "delete" THEN <<>> ELSE SavePages(stored, posts[k].deletes) IN
        \/ /\ result # Panic
           /\ stored' = result
           /\ posts' = [posts EXCEPT ![k] = Answered(@, "ok")]
        \/ /\ posts' = [posts EXCEPT ![k] = Answered(@, "failed")]
           /\ UNCHANGED stored
    /\ UNCHANGED <<editing, inserting, rendered>>

\* On success the changes are dropped, those made since the request left as well.
SaveSucceeds(k) ==
    /\ posts[k] # Nothing /\ posts[k].op = "save" /\ posts[k].read /\ posts[k].answer = "ok"
    /\ changes' = <<>>
    /\ Closed
    /\ posts' = [posts EXCEPT ![k] = Nothing]
    /\ UNCHANGED <<selected, count, guarded, offer, insertedPages, fetches, stored, rendered>>

Fails(k) ==
    /\ posts[k] # Nothing /\ posts[k].read
    /\ posts[k].answer # "none"                  \* the answer may be lost on its way
    /\ posts' = [posts EXCEPT ![k] = Nothing]
    /\ UNCHANGED <<editing, inserting, stored, rendered>>

LeavePage(last) ==
    /\ active' = FALSE /\ mode' = "none" /\ changes' = <<>>
    /\ selected' = {} /\ pending' = 0 /\ greyed' = {} /\ framed' = {}
    /\ count' = 0 /\ guarded' = FALSE
    /\ form' = FALSE /\ offer' = Nothing /\ insertedPages' = {} /\ fetches' = {}
    /\ posts' = [k \in Posts |->
                    IF k = last \/ posts[k] = Nothing \/ posts[k].answer # "none" THEN Nothing
                    ELSE [posts[k] EXCEPT !.read = FALSE]]
    /\ rendered' = Len(stored) /\ UNCHANGED stored

\* Leaving the page; with unsaved changes the browser has asked.
Leave == LeavePage(Nothing)

\* The front page is opened, unless the user answers the browser's question with no.
DeleteSucceeds(k) ==
    /\ posts[k] # Nothing /\ posts[k].op = "delete" /\ posts[k].read /\ posts[k].answer = "ok"
    /\ \/ LeavePage(k)
       \/ /\ guarded
          /\ posts' = [posts EXCEPT ![k] = Nothing]
          /\ UNCHANGED <<editing, inserting, stored, rendered>>

PagesNext ==
    \/ pmEnter \/ pmExit \/ pmDeleteMode \/ pmInsertMode \/ pmReplaceMode \/ pmReorderMode
    \/ \E p \in Thumbs :
        togglePageDelete(p) \/ triggerPageReplace(p) \/ ReorderFirst(p) \/ ReorderSecond(p)
    \/ \E s \in Sources : pmFetchPreview(s) \/ renderInsertPreview(s) \/ PreviewFails(s)
    \/ \E s \in Sources : \E n \in PagesOf[s] : PickPreview(n)
    \/ pmConfirmInsert \/ pmCancelInsert \/ pmUndo \/ pmSave \/ openDeleteConfirm \/ Leave
    \/ \E k \in Posts : ServeSave(k) \/ SaveSucceeds(k) \/ DeleteSucceeds(k) \/ Fails(k)

PagesSpec == PagesInit /\ [][PagesNext]_pagesVars

--------------------------------------------------------------------------------

Post == [op : {"save", "delete"}, deletes : Seq(Thumbs), answer : SaveAnswers, read : BOOLEAN]

PagesTypeOK ==
    /\ active \in BOOLEAN /\ mode \in Modes /\ changes \in Seq(Change)
    /\ selected \subseteq Thumbs /\ greyed \subseteq Thumbs /\ framed \subseteq Thumbs
    /\ pending \in 0..NPages
    /\ count \in Nat /\ guarded \in BOOLEAN /\ form \in BOOLEAN
    /\ offer \in Sources \cup {Nothing}
    /\ insertedPages \subseteq Nat /\ fetches \subseteq Sources
    /\ posts \in [Posts -> Post \cup {Nothing}]
    /\ stored \in Seq(Thumbs) /\ rendered \in 0..NPages

Targets(list) == {list[i].page : i \in {j \in DOMAIN list : list[j].type = "delete"}}

\* Whoever leaves with unsaved changes is asked, and while the page manager is
\* open the status shows their exact number (updateStatus and beforeunload, over
\* every way a change is made, undone, saved or kept across pmExit and pmEnter).
UnsavedIsGuarded ==
    /\ changes # <<>> => guarded
    /\ active => count = Len(changes) /\ guarded = (changes # <<>>)

\* A page greyed out as deleted has its deletion pending, in delete mode the pages
\* that a click would take back are greyed out, and the framed page is the one
\* that waits to be swapped, also after undo, exit, mode changes and late answers.
MarksMeanChanges ==
    /\ greyed \subseteq Targets(changes)
    /\ mode = "delete" => selected \subseteq greyed
    /\ framed = {pending} \ {0}

\* A pending insertion names pages its source comic has, whichever comic's preview
\* was asked for or answered last (renderInsertPreview and data-source-cid).
InsertNamesItsSource ==
    \A i \in DOMAIN changes :
        changes[i].type = "insert" => changes[i].pages \subseteq PagesOf[changes[i].source]

\* A save removes from the stored list only pages marked for deletion (design
\* document, B3): what the code does not do, see the run pages_delete.
DeletesOnlyMarked ==
    [][\A k \in Posts :
        posts'[k] # posts[k] /\ posts[k] # Nothing /\ posts[k].op = "save"
            => ToSet(stored) \ ToSet(stored') \subseteq {stored[p] : p \in ToSet(posts[k].deletes)}]_pagesVars
=================================================================================
