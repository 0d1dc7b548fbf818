-------------------------------- MODULE TagEditor --------------------------------
(***************************************************************************)
(* The tag editor of a gallery page: a dialog in which tags of the comic   *)
(* are dropped and others, found by search or typed, are added, and whose  *)
(* differences are sent to UpdateComicTags.  Others write the tags too,    *)
(* and the server reads them through a cache that page views fill.         *)
(* A tag's type is part of its name here.                                  *)
(***************************************************************************)
EXTENDS Naturals, FiniteSets, Modal

CONSTANTS Found,     \* tags the search can offer: records with an id and a name
          Names,     \* names that can be typed
          Saves,     \* the save requests that can be under way together
          MaxEdits,  \* bound: changes made in one dialog
          MaxId,     \* bound: ids given to new tags
          Patient    \* bound: nobody goes on editing while a save is under way

VARIABLES
    tags,     \* the comic's tags, on the server
    cached,   \* those of the document in the cache
    view,     \* those a page view has read and not yet put there
    edits,    \* for each dialog: the tags it was opened with, and those added and removed in it
    saves     \* save requests under way; copy: the tags the server started from; known: the
              \* highest id could be looked up

info == <<tags, cached, view>>
editor == <<info, edits, saves>>

Tag == [id : 0..MaxId, name : Names \cup {t.name : t \in Found}]
\* No tag in the database has the id 0; two may have one name, or one id.
ASSUME EditorAssumption ==
    /\ MaxId \in Nat /\ Patient \in BOOLEAN
    /\ Found \subseteq Tag /\ \A t \in Found : t.id # 0

NamesOf(set) == {t.name : t \in set}

\* Also the server's tagKey.  A tag typed in has no id yet.
dedupKey(t) == IF t.id > 0 THEN <<"id", t.id>> ELSE <<"name", t.name>>
Keys(set) == {dedupKey(t) : t \in set}

Kept(e) == {t \in e.current : dedupKey(t) \notin Keys(e.removed)}
Chips(e) == Kept(e) \cup ToSet(e.added)

EditorInit ==
    /\ tags \in SUBSET Found
    /\ cached = None /\ view = None
    /\ edits = [d \in Dialogs |-> None]
    /\ saves = [s \in Saves |-> None]

--------------------------------------------------------------------------------

\* Nobody works in a dialog that is fading out.
EditsLeft == [d \in Dialogs |-> IF shown'[d] = "open" THEN edits[d] ELSE None]

Got == IF cached = None THEN tags ELSE cached     \* what GetComicInfo returns

\* The save that holds the comic's lock.
Serving == {s \in Saves : saves[s] # None /\ saves[s].copy # None}

\* The click and the answer that opens the dialog; as many clicks, as many dialogs.
openTagEditor(d) ==
    /\ Serving = {}
    /\ ShowModal(d) /\ \A s \in Saves : saves[s] # None => saves[s].from # d
    /\ edits' = [EditsLeft EXCEPT ![d] = [current |-> Got, added |-> <<>>, removed |-> {}]]
    /\ cached' = Got
    /\ UNCHANGED <<tags, view, saves>>

Editing(d) == IsOpen(d) /\ (Patient => \A s \in Saves : saves[s] = None)

MoreEdits(d) == Len(edits[d].added) + Cardinality(edits[d].removed) < MaxEdits

\* As without the look at the tags that are there.
ExistsAdded(e, t) == dedupKey(t) \in Keys(ToSet(e.added))
Exists(e, t) == dedupKey(t) \in Keys(Chips(e))

AddTag(d, t) ==
    /\ Editing(d) /\ MoreEdits(d) /\ ~Exists(edits[d], t)
    /\ edits' = [edits EXCEPT ![d].added = Append(@, t)]
    /\ UNCHANGED <<modal, info, saves>>

\* An item of the search (renderAutocomplete), and addBtn with the name typed.
PickTag(d) == \E t \in Found : AddTag(d, t)
AddNewTag(d) == \E n \in Names : AddTag(d, [id |-> 0, name |-> n])

\* The x of a chip (renderTags): an addition is taken back, another tag is removed.
DropChip(d) ==
    /\ Editing(d)
    /\ \E t \in Chips(edits[d]) :
        LET e == edits[d] IN
        \/ /\ dedupKey(t) \in Keys(ToSet(e.added))
           /\ edits' = [edits EXCEPT ![d].added = Without(@, {a \in ToSet(@) : dedupKey(a) = dedupKey(t)})]
        \/ /\ dedupKey(t) \notin Keys(ToSet(e.added)) /\ MoreEdits(d)
           /\ edits' = [edits EXCEPT ![d].removed = @ \cup {t}]
    /\ UNCHANGED <<modal, info, saves>>

\* The loading class keeps the mouse off the button, not the keyboard.
SaveTags(d) ==
    /\ IsOpen(d)
    /\ edits[d].added # <<>> \/ edits[d].removed # {}
    /\ \E s \in Saves :
        /\ saves[s] = None
        /\ saves' = [saves EXCEPT ![s] = [from |-> d, sent |-> edits[d], answer |-> "none", copy |-> None, known |-> TRUE]]
    /\ UNCHANGED <<modal, info, edits>>

--------------------------------------------------------------------------------
\* UpdateComicTags, under the comic's lock.

MaxIdOf(set) == Max({0} \cup {t.id : t \in Found \cup set})

\* New tags get the ids after the highest one in use.
Numbered(added, base) ==
    [i \in DOMAIN added |->
        IF added[i].id > 0 THEN added[i]
        ELSE [added[i] EXCEPT !.id = base + Cardinality({j \in 1..i : added[j].id = 0})]]

\* Additions with the key of a tag that stays change nothing.
WithAdded(kept, added) == kept \cup {t \in added : dedupKey(t) \notin Keys(kept)}

Left(set, sent) == {t \in set : dedupKey(t) \notin Keys(sent.removed)}

\* As with the two loops the other way round.
UpdateAddsFirst(set, sent, base) == Left(WithAdded(set, ToSet(Numbered(sent.added, base))), sent)
UpdateTags(set, sent, base) == WithAdded(Left(set, sent), ToSet(Numbered(sent.added, base)))

HasRoom(base, sent) == base + Len(sent.added) <= MaxId

\* The lock is taken and the document read.
ReadTags(s) ==
    /\ saves[s] # None /\ saves[s].answer = "none" /\ Serving = {}
    /\ saves' = [saves EXCEPT ![s].copy = Got]
    /\ cached' = Got
    /\ UNCHANGED <<modal, tags, view, edits>>

\* The whole list is written, made of what was read, unless nothing is changed in it.
\* If the highest id cannot be looked up, the ids start where new ones start, above all
\* those the search knows, although they may be in use.
WriteTags(s) ==
    /\ s \in Serving
    /\ \E known \in BOOLEAN :
        LET copy == saves[s].copy
            sent == saves[s].sent
            base == MaxIdOf(IF known THEN tags ELSE {})
            new  == UpdateTags(copy, sent, base)
        IN
        /\ HasRoom(base, sent)
        /\ \/ (new # copy \/ Left(copy, sent) # copy) /\ tags' = new /\ cached' = None
           \/ new = copy /\ Left(copy, sent) = copy /\ UNCHANGED <<tags, cached>>
        /\ saves' = [saves EXCEPT ![s].sent = None, ![s].answer = "ok", ![s].copy = None, ![s].known = known]
    /\ UNCHANGED <<modal, view, edits>>

\* The lock, the reading or the writing fails.
FailTags(s) ==
    /\ saves[s] # None /\ saves[s].answer = "none"
    /\ saves' = [saves EXCEPT ![s].sent = None, ![s].answer = "failed", ![s].copy = None]
    /\ UNCHANGED <<modal, info, edits>>

\* The request to show the new tags names no comic and is refused with a message: the
\* page keeps the tags it had.
refreshContainer == UNCHANGED info

TagsSaved(s) ==
    /\ saves[s] # None /\ saves[s].answer = "ok"
    /\ CloseModal({saves[s].from})
    /\ edits' = EditsLeft
    /\ saves' = [saves EXCEPT ![s] = None]
    /\ refreshContainer

\* Refused, or the answer is lost.
TagsNotSaved(s) ==
    /\ saves[s] # None /\ saves[s].answer # "none"
    /\ saves' = [saves EXCEPT ![s] = None]
    /\ UNCHANGED <<modal, info, edits>>

\* Somebody else adds a tag the search offers, or removes one: another tab, or a writer
\* of the comic's document that takes no lock.
OtherTabTags ==
    /\ \E t \in Found : tags' = IF t \in tags THEN tags \ {t} ELSE tags \cup {t}
    /\ cached' = None
    /\ UNCHANGED <<modal, view, edits, saves>>

\* A page view finds nothing in the cache, reads the document, and puts it there when
\* others may have written since.
ViewReads ==
    /\ cached = None /\ view = None /\ view' = tags
    /\ UNCHANGED <<modal, tags, cached, edits, saves>>

ViewStores ==
    /\ view # None /\ view' = None /\ cached' = view
    /\ UNCHANGED <<modal, tags, edits, saves>>

EditorModal ==
    /\ ModalStep /\ edits' = EditsLeft
    /\ UNCHANGED <<info, saves>>

EditorNext ==
    \/ \E d \in Dialogs :
        openTagEditor(d) \/ PickTag(d) \/ AddNewTag(d) \/ DropChip(d) \/ SaveTags(d)
    \/ \E s \in Saves : ReadTags(s) \/ WriteTags(s) \/ FailTags(s) \/ TagsSaved(s) \/ TagsNotSaved(s)
    \/ OtherTabTags \/ ViewReads \/ ViewStores \/ EditorModal

--------------------------------------------------------------------------------

Edit == [current : SUBSET Tag, added : Seq(Tag), removed : SUBSET Tag]

EditorTypeOK ==
    /\ tags \subseteq Tag
    /\ cached \in (SUBSET Tag) \cup {None} /\ view \in (SUBSET Tag) \cup {None}
    /\ edits \in [Dialogs -> Edit \cup {None}]
    /\ saves \in [Saves -> [from : Dialogs, sent : Edit \cup {None}, answer : {"none", "ok", "failed"},
                            copy : (SUBSET Tag) \cup {None}, known : BOOLEAN] \cup {None}]

\* No dialog shows a tag twice, and what it removes were tags of the comic: through any
\* order of dropping, searching, typing and adding again (dedupKey in three places).
ChipsAreDistinct ==
    \A d \in Dialogs : edits[d] # None =>
        LET e == edits[d] IN
        /\ \A i, j \in DOMAIN e.added : dedupKey(e.added[i]) = dedupKey(e.added[j]) => i = j
        /\ Keys(Kept(e)) \cap Keys(ToSet(e.added)) = {}
        /\ e.removed \subseteq e.current

\* Carrying out a save loses no tag that the dialog showed, of those both in the record
\* and in the document the server started from, whatever others wrote since either was
\* read.  And when the server started from the document the dialog was opened with, the
\* ids in use were known and it had no others, the comic has afterwards the very tags the
\* dialog showed (the diff of tag-editor.js, UpdateComicTags).
SaveMeansWhatItShows ==
    [][\A s \in Saves : s \in Serving /\ saves'[s] # saves[s] /\ saves'[s] # None =>
        LET e == saves[s].sent
            copy == saves[s].copy
        IN
        /\ Keys(tags \cap copy) \cap Keys(Chips(e)) \subseteq Keys(tags')
        /\ saves'[s].answer = "ok" /\ saves'[s].known /\ copy = e.current /\ copy \subseteq tags \cup Found =>
                NamesOf(tags') = NamesOf(Chips(e))]_editor
==================================================================================
