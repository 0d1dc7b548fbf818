-------------------------------- MODULE TagAligner -------------------------------
(***************************************************************************)
(* The tag aligner of a search page: one tag is chosen and added to all    *)
(* comics found, which BatchAddTagToComics does comic by comic, each under *)
(* its own lock, starting from what the cache holds.                       *)
(***************************************************************************)
EXTENDS Naturals, FiniteSets, Modal

CONSTANTS Comics,    \* the comics found, in the order they are worked on
          AlignTags, \* the tags offered
          Batches    \* the batches that can be under way together

ASSUME AlignerAssumption == Comics \in Seq(ToSet(Comics))

VARIABLES
    has,       \* for each comic the tags it has, a sequence
    copies,    \* for each comic the tags of the document in the cache
    chosen,    \* selectedTag of the dialog opened last
    waiting,   \* the class and mark of loading on its Apply button
    batches    \* batches under way: the tag and the comics left

aligner == <<has, copies, chosen, waiting, batches>>

AlignerInit ==
    /\ has \in [ToSet(Comics) -> {<<>>} \cup {<<t>> : t \in AlignTags}]
    /\ copies = [c \in ToSet(Comics) |-> None]
    /\ chosen = None /\ waiting = FALSE
    /\ batches = [b \in Batches |-> None]

openTagAligner(d) ==
    /\ ShowModal(d) /\ \A b \in Batches : batches[b] # None => batches[b].from # d
    /\ chosen' = None /\ waiting' = FALSE
    /\ UNCHANGED <<has, copies, batches>>

\* Also while a batch is under way; it also sets the Apply button's pointer-events, which
\* the loading class had set to none.
ChooseTag(t) ==
    /\ \E d \in Dialogs : IsOpen(d)
    /\ chosen' = t
    /\ UNCHANGED <<modal, has, copies, waiting, batches>>

ApplyToAll ==
    \E d \in Dialogs : \E b \in Batches :
        /\ IsOpen(d) /\ chosen # None /\ batches[b] = None
        /\ batches' = [batches EXCEPT ![b] =
                [from |-> d, tag |-> chosen, left |-> Comics, answer |-> "none"]]
        /\ waiting' = TRUE
        /\ UNCHANGED <<modal, has, copies, chosen>>

Copy(c) == IF copies[c] = None THEN has[c] ELSE copies[c]

\* As without the look for the tag.
CarriesNever(c, t) == FALSE
Carries(c, t) == t \in ToSet(Copy(c))

\* One turn of the loop: the comic's document is read and its list of tags written, under
\* the comic's lock.
ServeComic(b) ==
    /\ batches[b] # None /\ batches[b].left # <<>>
    /\ LET c == Head(batches[b].left)
           t == batches[b].tag
       IN
       \/ /\ ~Carries(c, t)
          /\ has' = [has EXCEPT ![c] = Append(Copy(c), t)]
          /\ copies' = [copies EXCEPT ![c] = None]
       \/ /\ copies' \in {copies, [copies EXCEPT ![c] = Copy(c)]}     \* it has the tag, or an error
          /\ UNCHANGED has
    /\ batches' = [batches EXCEPT ![b].left = Tail(@)]
    /\ UNCHANGED <<modal, chosen, waiting>>

ServedBatch(b) ==
    /\ batches[b] # None /\ batches[b].left = <<>> /\ batches[b].answer = "none"
    /\ batches' = [batches EXCEPT ![b].answer = "ok"]
    /\ copies' = [c \in ToSet(Comics) |-> None]
    /\ UNCHANGED <<modal, has, chosen, waiting>>

\* The toast names the tag chosen by now.
BatchAnswered(b) ==
    /\ batches[b] # None /\ batches[b].answer = "ok"
    /\ CloseModal({batches[b].from})
    /\ waiting' = FALSE
    /\ batches' = [batches EXCEPT ![b] = None]
    /\ chosen' = (IF StaysOpen THEN chosen ELSE None)
    /\ UNCHANGED <<has, copies>>

\* Refused, or the connection breaks; the server has worked on some comics or all.
BatchFails(b) ==
    /\ batches[b] # None
    /\ waiting' = FALSE
    /\ batches' = [batches EXCEPT ![b] = None]
    /\ UNCHANGED <<modal, has, copies, chosen>>

\* Another tab takes a tag away; a page view that read the document before may put it
\* into the cache after.
OtherTabDrops(c) ==
    /\ \E t \in ToSet(has[c]) : has' = [has EXCEPT ![c] = Without(@, {t})]
    /\ \E copy \in {None, has[c]} : copies' = [copies EXCEPT ![c] = copy]
    /\ UNCHANGED <<modal, chosen, waiting, batches>>

AlignerModal ==
    /\ ModalStep
    /\ chosen' = (IF StaysOpen THEN chosen ELSE None) /\ waiting' = (waiting /\ StaysOpen)
    /\ UNCHANGED <<has, copies, batches>>

AlignerNext ==
    \/ \E d \in Dialogs : openTagAligner(d)
    \/ \E t \in AlignTags : ChooseTag(t)
    \/ ApplyToAll \/ AlignerModal
    \/ \E b \in Batches : ServeComic(b) \/ ServedBatch(b) \/ BatchAnswered(b) \/ BatchFails(b)
    \/ \E c \in ToSet(Comics) : OtherTabDrops(c)

--------------------------------------------------------------------------------

Batch == [from : Dialogs, tag : AlignTags, left : Seq(ToSet(Comics)), answer : {"none", "ok"}]

AlignerTypeOK ==
    /\ has \in [ToSet(Comics) -> Seq(AlignTags)]
    /\ copies \in [ToSet(Comics) -> Seq(AlignTags) \cup {None}]
    /\ chosen \in AlignTags \cup {None} /\ waiting \in BOOLEAN
    /\ batches \in [Batches -> Batch \cup {None}]

\* However often the tag is applied, by batches that overlap comic by comic, no comic
\* carries it twice, however old what the cache holds (the look for the tag, and the
\* list written whole, under each comic's lock).
TagsStayDistinct == \A c \in ToSet(Comics) : IsInjective(has[c])
==================================================================================
