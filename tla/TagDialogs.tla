-------------------------------- MODULE TagDialogs -------------------------------
(***************************************************************************)
(* The tag tools, each on its page: the editor on a gallery page, the      *)
(* relation manager on a tag page, the aligner on a search page.  The page *)
(* visited decides which of them runs; their dialogs are Modal's.  The     *)
(* search box of the first two is followed on its own, and so are three    *)
(* dialogs opened in quick succession.                                     *)
(***************************************************************************)
EXTENDS TagEditor, TagRelation, TagAligner, Suggest

CONSTANTS Spare,       \* bound: the dialog that the tools do without
          MaxEditors   \* bound: dialogs of the tag editor at once, one that fades out included

VARIABLE visit   \* the tool used on the page visited

Tools == {"editor", "relations", "aligner", "search", "dialogs"}
vars == <<visit, modal, editor, relation, aligner, suggest>>

Init ==
    /\ visit \in Tools
    /\ ModalInit
    /\ IF visit = "editor" THEN EditorInit
       ELSE tags = {} /\ cached = None /\ view = None /\ edits = [d \in Dialogs |-> None] /\ saves = [s \in Saves |-> None]
    /\ IF visit = "relations" THEN RelationInit
       ELSE /\ groups = [g \in GroupIds |-> None] /\ gone = {} /\ chips = <<>> /\ listed = {}
            /\ calls = [c \in Calls |-> None] /\ reloading = FALSE
    /\ IF visit = "aligner" THEN AlignerInit
       ELSE /\ has = [c \in ToSet(Comics) |-> <<>>] /\ copies = [c \in ToSet(Comics) |-> None] /\ chosen = None /\ waiting = FALSE
            /\ batches = [b \in Batches |-> None]
    /\ SuggestInit

Next ==
    /\ UNCHANGED visit
    /\ \/ visit = "editor" /\ EditorNext /\ UNCHANGED <<relation, aligner, suggest>>
       \/ visit = "relations" /\ RelationNext /\ UNCHANGED <<editor, aligner, suggest>>
       \/ visit = "aligner" /\ AlignerNext /\ UNCHANGED <<editor, relation, suggest>>
       \/ /\ visit = "dialogs" /\ (ModalStep \/ \E d \in Dialogs : ShowModal(d))
          /\ UNCHANGED <<editor, relation, aligner, suggest>>
       \/ visit = "search" /\ SuggestNext /\ UNCHANGED <<modal, editor, relation, aligner>>
    /\ visit # "dialogs" => shown'[Spare] = "gone"
    /\ visit = "editor" => Cardinality({d \in Dialogs : shown'[d] # "gone"}) <= MaxEditors

Spec == Init /\ [][Next]_vars

TypeOK ==
    /\ visit \in Tools
    /\ ModalTypeOK /\ EditorTypeOK /\ RelationTypeOK /\ AlignerTypeOK /\ SuggestTypeOK
==================================================================================
