---------------------------------- MODULE Modal ----------------------------------
(***************************************************************************)
(* The dialogs the tag tools are shown in: showCustomModal and closeModal. *)
(* A closed dialog stays in the document while it fades out.  Where the    *)
(* focus goes is left out.                                                 *)
(***************************************************************************)
EXTENDS Sequences, SequencesExt, Filtering

CONSTANTS Dialogs,     \* the dialogs, made anew each time one is opened
          None         \* nothing

VARIABLES
    shown,    \* a dialog: open, closing (fading out), or gone from the document
    dom,      \* the dialogs in the document, in its order
    locked,   \* the class modal-open of the body: the page behind does not scroll
    keys      \* dialogs whose key listeners are registered with the document

modal == <<shown, dom, locked, keys>>

ModalInit ==
    /\ shown = [d \in Dialogs |-> "gone"] /\ dom = <<>>
    /\ locked = FALSE /\ keys = {}

IsOpen(d) == shown[d] = "open"
StaysOpen == \E d \in Dialogs : shown'[d] = "open"

\* As without the listeners being removed.
CloseKeepsKeys(closed) ==
    LET there == {d \in closed : shown[d] # "gone"} IN
    /\ shown' = [d \in Dialogs |-> IF d \in there THEN "closing" ELSE shown[d]]
    /\ locked' = (locked /\ StaysOpen)
    /\ UNCHANGED <<dom, keys>>
\* closeModal of the dialogs in closed; of one that left the document nothing but the
\* last test is made.
CloseModal(closed) ==
    LET there == {d \in closed : shown[d] # "gone"} IN
    /\ shown' = [d \in Dialogs |-> IF d \in there THEN "closing" ELSE shown[d]]
    /\ keys' = keys \ there
    /\ locked' = (locked /\ StaysOpen)
    /\ UNCHANGED dom

\* The first dialog of the document is closed before, although it may be closing already
\* while another one is open.
ShowModal(d) ==
    LET first == IF dom = <<>> THEN {} ELSE {Head(dom)} IN
    /\ shown[d] = "gone"
    /\ shown' = [e \in Dialogs |->
                    IF e = d THEN "open" ELSE IF e \in first THEN "closing" ELSE shown[e]]
    /\ dom' = Append(dom, d)
    /\ keys' = (keys \ first) \cup {d}
    /\ locked' = TRUE

\* A click beside the dialog, or on its Cancel or Close.
Dismiss(d) == shown[d] # "gone" /\ CloseModal({d})

\* Every registered listener hears the key.
Escape == keys # {} /\ CloseModal(keys)

\* The fade is over.
RemoveModal(d) ==
    /\ shown[d] = "closing"
    /\ shown' = [shown EXCEPT ![d] = "gone"]
    /\ dom' = Without(dom, {d})
    /\ UNCHANGED <<locked, keys>>

ModalStep == Escape \/ \E d \in Dialogs : Dismiss(d) \/ RemoveModal(d)

--------------------------------------------------------------------------------

ModalTypeOK ==
    /\ shown \in [Dialogs -> {"gone", "open", "closing"}]
    /\ dom \in Seq(Dialogs) /\ locked \in BOOLEAN /\ keys \subseteq Dialogs

\* The page behind is locked exactly while some dialog is open, and exactly the open
\* dialogs listen to keys, also when one dialog replaces another that is fading out
\* or when a late answer closes a dialog that is gone (showCustomModal, closeModal).
DialogsHoldThePage ==
    /\ locked <=> \E d \in Dialogs : IsOpen(d)
    /\ keys = {d \in Dialogs : IsOpen(d)}
==================================================================================
