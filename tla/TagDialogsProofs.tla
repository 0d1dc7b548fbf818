----------------------------- MODULE TagDialogsProofs ----------------------------
(***************************************************************************)
(* What holds of the tag tools for every number of dialogs, tags, requests *)
(* and names.                                                              *)
(***************************************************************************)
EXTENDS TagDialogs, FilteringTheorems, SequenceTheorems, TLAPS

--------------------------------------------------------------------------------
(* The dialogs.                                                            *)

Holding ==
    /\ shown \in [Dialogs -> {"gone", "open", "closing"}]
    /\ locked \in BOOLEAN
    /\ DialogsHoldThePage

LEMMA NoDialog == ModalInit => Holding
BY DEF ModalInit, Holding, DialogsHoldThePage, IsOpen

\* Whatever the first dialog of the document is, open or fading out.
LEMMA ShowStep ==
    ASSUME Holding, NEW d \in Dialogs, ShowModal(d)
    PROVE  Holding'
BY DEF Holding, DialogsHoldThePage, IsOpen, ShowModal

\* Whether the dialogs closed are open, fading out or gone.
LEMMA CloseStep ==
    ASSUME Holding, NEW closed, CloseModal(closed)
    PROVE  Holding'
BY DEF Holding, DialogsHoldThePage, IsOpen, CloseModal, StaysOpen

LEMMA RemoveStep ==
    ASSUME Holding, NEW d \in Dialogs, RemoveModal(d)
    PROVE  Holding'
BY DEF Holding, DialogsHoldThePage, IsOpen, RemoveModal

LEMMA ModalStepHolds ==
    ASSUME Holding, ModalStep
    PROVE  Holding'
BY CloseStep, RemoveStep DEF ModalStep, Escape, Dismiss

LEMMA StillHolding ==
    ASSUME Holding, UNCHANGED modal
    PROVE  Holding'
BY DEF Holding, DialogsHoldThePage, IsOpen, modal

LEMMA EditorHolds ==
    ASSUME Holding, EditorNext
    PROVE  Holding'
<1>1. ASSUME NEW d \in Dialogs, openTagEditor(d) \/ DropChip(d) \/ SaveTags(d)
      PROVE  Holding'
    BY <1>1, ShowStep, StillHolding DEF openTagEditor, DropChip, SaveTags
<1>2. ASSUME NEW d \in Dialogs, NEW t, AddTag(d, t)
      PROVE  Holding'
    BY <1>2, StillHolding DEF AddTag
<1>3. ASSUME NEW s \in Saves,
             ReadTags(s) \/ WriteTags(s) \/ FailTags(s) \/ TagsSaved(s) \/ TagsNotSaved(s)
      PROVE  Holding'
    BY <1>3, CloseStep, StillHolding DEF ReadTags, WriteTags, FailTags, TagsSaved, TagsNotSaved
<1>4. CASE OtherTabTags \/ ViewReads \/ ViewStores \/ EditorModal
    BY <1>4, ModalStepHolds, StillHolding DEF OtherTabTags, ViewReads, ViewStores, EditorModal
<1> QED  BY <1>1, <1>2, <1>3, <1>4 DEF EditorNext, PickTag, AddNewTag

LEMMA RelationHolds ==
    ASSUME Holding, RelationNext
    PROVE  Holding'
<1>1. ASSUME NEW d \in Dialogs, openTagRelationManager(d)
      PROVE  Holding'
    BY <1>1, ShowStep DEF openTagRelationManager
<1>2. ASSUME NEW t, AddChip(t)
      PROVE  Holding'
    BY <1>2, StillHolding DEF AddChip
<1>3. ASSUME NEW r, Call(r)
      PROVE  Holding'
    BY <1>3, StillHolding DEF Call
<1>4. ASSUME NEW c \in Calls, ServeRelation(c) \/ RelationAnswered(c) \/ RelationRefused(c)
      PROVE  Holding'
    BY <1>4, CloseStep, StillHolding DEF ServeRelation, RelationAnswered, RelationRefused
<1>5. CASE ReloadTagPage
    BY <1>5 DEF ReloadTagPage, Holding, DialogsHoldThePage, IsOpen
<1>6. CASE DropRelationChip \/ RelationModal
    BY <1>6, ModalStepHolds, StillHolding DEF DropRelationChip, RelationModal
<1> QED
    BY <1>1, <1>2, <1>3, <1>4, <1>5, <1>6
    DEF RelationNext, PickChip, AddNewChip, SaveGroup, deleteRelationGroup

LEMMA AlignerHolds ==
    ASSUME Holding, AlignerNext
    PROVE  Holding'
<1>1. ASSUME NEW d \in Dialogs, openTagAligner(d)
      PROVE  Holding'
    BY <1>1, ShowStep DEF openTagAligner
<1>2. ASSUME NEW b \in Batches,
             ServeComic(b) \/ ServedBatch(b) \/ BatchAnswered(b) \/ BatchFails(b)
      PROVE  Holding'
    BY <1>2, CloseStep, StillHolding DEF ServeComic, ServedBatch, BatchAnswered, BatchFails
<1>3. CASE (\E t \in AlignTags : ChooseTag(t)) \/ ApplyToAll \/ AlignerModal
    BY <1>3, ModalStepHolds, StillHolding DEF ChooseTag, ApplyToAll, AlignerModal
<1>4. CASE \E c \in ToSet(Comics) : OtherTabDrops(c)
    BY <1>4, StillHolding DEF OtherTabDrops
<1> QED  BY <1>1, <1>2, <1>3, <1>4 DEF AlignerNext

LEMMA HoldingStep ==
    ASSUME Holding, [Next]_vars
    PROVE  Holding'
BY EditorHolds, RelationHolds, AlignerHolds, ModalStepHolds, ShowStep, StillHolding
DEF Next, vars

\* The page behind is locked exactly while a dialog is open, and exactly the open ones
\* listen to keys, for every number of dialogs and whichever tool opens and closes them
\* (showCustomModal, closeModal).
THEOREM DialogsCorrect == Spec => []DialogsHoldThePage
<1>1. Init => Holding
    BY NoDialog DEF Init
<1>2. Holding => DialogsHoldThePage
    BY DEF Holding
<1> QED  BY <1>1, <1>2, HoldingStep, PTL DEF Spec

--------------------------------------------------------------------------------
(* The groups of related tags.                                             *)

Distinct(s) == \A i, j \in DOMAIN s : s[i].name = s[j].name => i = j
Group(s) == s \in Seq(RelTag) /\ Len(s) >= 2 /\ Distinct(s)

LEMMA StoredBefore ==
    ASSUME NEW p \in Pairs
    PROVE  Group(p)
<1>1. PICK t \in Offered, u \in Offered : p = <<t, u>> /\ t.name # u.name
    BY DEF Pairs
<1>2. t \in RelTag /\ u \in RelTag
    BY OfferedAssumption DEF RelTag
<1>3. p \in Seq(RelTag) /\ Len(p) = 2 /\ DOMAIN p = {1, 2} /\ p[1] = t /\ p[2] = u
    BY <1>1, <1>2
<1> QED  BY <1>1, <1>3 DEF Group, Distinct

LEMMA AppendDistinct ==
    ASSUME NEW s \in Seq(RelTag), Distinct(s), NEW t \in RelTag,
           \A i \in DOMAIN s : s[i].name # t.name
    PROVE  Append(s, t) \in Seq(RelTag) /\ Distinct(Append(s, t))
BY DEF Distinct

LEMMA RemoveDistinct ==
    ASSUME NEW s \in Seq(RelTag), Distinct(s), NEW k \in DOMAIN s
    PROVE  RemoveAt(s, k) \in Seq(RelTag) /\ Distinct(RemoveAt(s, k))
<1> DEFINE before == SubSeq(s, 1, k - 1)
           after == SubSeq(s, k + 1, Len(s))
           r == before \o after
<1>1. k \in 1..Len(s) /\ Len(s) \in Nat
    BY LenProperties
<1>2. /\ before \in Seq(RelTag) /\ Len(before) = k - 1
      /\ \A i \in 1..(k - 1) : before[i] = s[i]
    BY <1>1, SubSeqProperties
<1>3. /\ after \in Seq(RelTag) /\ Len(after) = Len(s) - k
      /\ \A i \in 1..(Len(s) - k) : after[i] = s[i + k]
    BY <1>1, SubSeqProperties
<1> HIDE DEF before, after
<1>4. /\ r \in Seq(RelTag) /\ Len(r) = Len(s) - 1
      /\ \A i \in 1..(Len(s) - 1) : r[i] = s[IF i < k THEN i ELSE i + 1]
    BY <1>1, <1>2, <1>3, ConcatProperties
<1> HIDE DEF r
<1>5. Distinct(r)
    <2> SUFFICES ASSUME NEW i \in 1..(Len(s) - 1), NEW j \in 1..(Len(s) - 1), r[i].name = r[j].name
                 PROVE  i = j
        BY <1>1, <1>4, LenProperties DEF Distinct
    <2> DEFINE at(x) == IF x < k THEN x ELSE x + 1
    <2>1. at(i) \in DOMAIN s /\ at(j) \in DOMAIN s
        BY <1>1, LenProperties
    <2>2. r[i] = s[at(i)] /\ r[j] = s[at(j)]
        BY <1>4
    <2>3. at(i) = at(j)
        BY <2>1, <2>2 DEF Distinct
    <2> QED  BY <1>1, <2>3
<1> QED  BY <1>4, <1>5 DEF r, RemoveAt, before, after

\* What is collected could be saved but for its number, and what is sent can be stored.
Grouping ==
    /\ chips \in Seq(RelTag) /\ Distinct(chips)
    /\ calls \in [Calls -> Request \cup {None}]
    /\ \A c \in Calls : calls[c] # None /\ calls[c].op = "create" => Group(calls[c].group)
    /\ DOMAIN groups = GroupIds
    /\ \A g \in GroupIds : groups[g] # None => Group(groups[g])

LEMMA GroupingStarts == Init => Grouping
<1>1. <<>> \in Seq(RelTag) /\ Distinct(<<>>)
    BY DEF Distinct
<1> QED  BY <1>1, StoredBefore DEF Init, RelationInit, Grouping

LEMMA ChipAdded ==
    ASSUME Grouping, NEW t \in RelTag, \A i \in DOMAIN chips : chips[i].name # t.name, AddChip(t)
    PROVE  Grouping'
<1>1. chips' \in Seq(RelTag) /\ Distinct(chips')
    BY AppendDistinct DEF Grouping, AddChip
<1> QED  BY <1>1 DEF Grouping, AddChip

LEMMA CollectStep ==
    ASSUME Grouping,
           \/ \E d \in Dialogs : openTagRelationManager(d)
           \/ \E t \in Offered : PickChip(t)
           \/ \E n \in Typed : AddNewChip(n)
           \/ DropRelationChip
    PROVE  Grouping'
<1>0. <<>> \in Seq(RelTag) /\ Distinct(<<>>)
    BY DEF Distinct
<1>1. CASE \E d \in Dialogs : openTagRelationManager(d)
    BY <1>0, <1>1 DEF openTagRelationManager, Grouping
<1>2. ASSUME NEW t \in Offered, PickChip(t)
      PROVE  Grouping'
    BY <1>2, ChipAdded, OfferedAssumption DEF PickChip, SameTag, RelTag
<1>3. ASSUME NEW n \in Typed, AddNewChip(n)
      PROVE  Grouping'
    BY <1>3, ChipAdded DEF AddNewChip, NewToGroup, RelTag
<1>4. CASE DropRelationChip
    <2>1. chips' \in Seq(RelTag) /\ Distinct(chips')
        BY <1>4, RemoveDistinct DEF DropRelationChip, Grouping
    <2> QED  BY <1>4, <2>1 DEF DropRelationChip, Grouping
<1> QED  BY <1>1, <1>2, <1>3, <1>4

LEMMA CalledStep ==
    ASSUME Grouping, NEW r \in Request, r.op = "create" => Group(r.group), Call(r)
    PROVE  Grouping'
<1>1. PICK c \in Calls : calls' = [calls EXCEPT ![c] = r]
    BY DEF Call
<1> QED  BY <1>1 DEF Call, Grouping

LEMMA CallStep ==
    ASSUME Grouping, SaveGroup \/ \E g \in GroupIds : deleteRelationGroup(g)
    PROVE  Grouping'
<1>1. CASE SaveGroup
    <2>1. PICK d \in Dialogs :
            Call([from |-> d, op |-> "create", group |-> chips, id |-> None, answer |-> "none"])
        BY <1>1 DEF SaveGroup, Manager
    <2>2. Group(chips)
        BY <1>1 DEF SaveGroup, EnoughTags, Grouping, Group
    <2>3. [from |-> d, op |-> "create", group |-> chips, id |-> None, answer |-> "none"] \in Request
        BY <2>2 DEF Request, Group
    <2> QED  BY <2>1, <2>2, <2>3, CalledStep
<1>2. ASSUME NEW g \in GroupIds, deleteRelationGroup(g)
      PROVE  Grouping'
    <2>1. PICK d \in Dialogs :
            Call([from |-> d, op |-> "delete", group |-> <<>>, id |-> g, answer |-> "none"])
        BY <1>2 DEF deleteRelationGroup, Manager
    <2>2. [from |-> d, op |-> "delete", group |-> <<>>, id |-> g, answer |-> "none"] \in Request
        BY DEF Request
    <2> QED  BY <2>1, <2>2, CalledStep
<1> QED  BY <1>1, <1>2

\* An answer changes neither what was asked nor what it was about.
LEMMA ServedCalls ==
    ASSUME Grouping, NEW c \in Calls, calls[c] # None, NEW a \in {"ok", "failed"},
           calls' = [calls EXCEPT ![c].answer = a]
    PROVE  /\ calls' \in [Calls -> Request \cup {None}]
           /\ \A k \in Calls : calls'[k] # None /\ calls'[k].op = "create" => Group(calls'[k].group)
<1>1. calls[c] \in Request
    BY DEF Grouping
<1>2. /\ calls'[c] \in Request
      /\ calls'[c].op = calls[c].op /\ calls'[c].group = calls[c].group
    BY <1>1 DEF Request, Grouping
<1>3. \A k \in Calls \ {c} : calls'[k] = calls[k]
    BY DEF Grouping
<1> QED  BY <1>2, <1>3 DEF Grouping

LEMMA ServeStep ==
    ASSUME Grouping, NEW c \in Calls, ServeRelation(c)
    PROVE  Grouping'
<1>1. PICK a \in {"ok", "failed"} : calls' = [calls EXCEPT ![c].answer = a]
    BY DEF ServeRelation
<1>2. calls[c] # None /\ UNCHANGED chips
    BY DEF ServeRelation
<1>3. \/ calls[c].op = "create" /\ \E g \in GroupIds : groups' = [groups EXCEPT ![g] = calls[c].group]
      \/ \E g \in GroupIds \cup {None} : groups' = [groups EXCEPT ![g] = None]
      \/ groups' = groups
    BY DEF ServeRelation, Stored
<1>4. DOMAIN groups' = GroupIds /\ \A g \in GroupIds : groups'[g] # None => Group(groups'[g])
    BY <1>2, <1>3 DEF Grouping
<1> QED  BY <1>1, <1>2, <1>4, ServedCalls DEF Grouping

LEMMA AnswerStep ==
    ASSUME Grouping,
           \/ \E c \in Calls : RelationAnswered(c) \/ RelationRefused(c)
           \/ ReloadTagPage \/ RelationModal
    PROVE  Grouping'
<1>0. <<>> \in Seq(RelTag) /\ Distinct(<<>>)
    BY DEF Distinct
<1>1. ASSUME NEW c \in Calls, RelationAnswered(c)
      PROVE  Grouping'
    BY <1>0, <1>1 DEF RelationAnswered, Grouping
<1>2. ASSUME NEW c \in Calls, RelationRefused(c)
      PROVE  Grouping'
    BY <1>2 DEF RelationRefused, Grouping
<1>3. CASE ReloadTagPage
    BY <1>0, <1>3 DEF ReloadTagPage, Grouping
<1>4. CASE RelationModal
    BY <1>0, <1>4 DEF RelationModal, Grouping
<1> QED  BY <1>1, <1>2, <1>3, <1>4

LEMMA GroupingStep ==
    ASSUME Grouping, [Next]_vars
    PROVE  Grouping'
<1>1. CASE UNCHANGED relation
    BY <1>1 DEF relation, Grouping
<1>2. CASE RelationNext
    BY <1>2, CollectStep, CallStep, ServeStep, AnswerStep DEF RelationNext
<1> QED  BY <1>1, <1>2 DEF Next, vars

\* Every group stored from a tag's page relates two tags or more, all of different names,
\* for every number of tags, groups and requests (openTagRelationManager).
THEOREM GroupsCorrect == Spec => []GroupsRelateTags
<1>1. Grouping => GroupsRelateTags
    BY DEF Grouping, Group, Distinct, GroupsRelateTags, Stored
<1> QED  BY <1>1, GroupingStarts, GroupingStep, PTL DEF Spec

--------------------------------------------------------------------------------
(* The search box.                                                         *)

\* What the keys act on is on the list, for every list of results (bindAutocompleteKeys).
THEOREM HighlightCorrect ==
    ASSUME NEW Items, Results \in [Queries -> Seq(Items)]
    PROVE  Spec => []HighlightIsOnTheList
<1> DEFINE Listed == list \in Seq(Items) /\ hot \in Nat /\ HighlightIsOnTheList
<1>1. Init => Listed
    BY DEF Init, SuggestInit, HighlightIsOnTheList
<1>2. ASSUME Listed, [Next]_vars
      PROVE  Listed'
    <2>0. Len(list) \in Nat /\ (list # <<>> => Len(list) > 0)
        BY <1>2
    <2>1. CASE UNCHANGED <<list, visible, hot>>
        BY <1>2, <2>1 DEF HighlightIsOnTheList
    <2>2. CASE Hidden
        BY <1>2, <2>2 DEF Hidden, HighlightIsOnTheList
    <2>3. ASSUME NEW q \in Queries, ListArrives(q)
          PROVE  Listed'
        <3>1. /\ Results[q] \in Seq(Items) /\ Len(Results[q]) \in Nat
              /\ list' = Results[q] /\ hot' = 0
            BY <2>3 DEF ListArrives, RenderList
        <3>2. visible' => list' # <<>>
            BY <2>3, Zenon DEF ListArrives, RenderList
        <3> QED  BY <3>1, <3>2 DEF HighlightIsOnTheList
    <2>4. CASE ArrowDown
        BY <1>2, <2>0, <2>4 DEF ArrowDown, MoveHot, Down, HighlightIsOnTheList
    <2>5. CASE ArrowUp
        <3>1. Len(list) > 0 /\ visible /\ hot \in 0..Len(list)
            BY <1>2, <2>0, <2>5 DEF ArrowUp, MoveHot, HighlightIsOnTheList
        <3>2. Up(hot, Len(list)) \in 1..Len(list)
            BY <3>1 DEF Up
        <3> QED  BY <1>2, <2>0, <2>5, <3>1, <3>2 DEF ArrowUp, MoveHot, HighlightIsOnTheList
    <2>6. CASE HideList
        BY <1>2, <2>6 DEF HideList, HighlightIsOnTheList
    <2>7. CASE SuggestNext
        BY <1>2, <2>1, <2>2, <2>3, <2>4, <2>5, <2>6, <2>7
        DEF SuggestNext, TypeQuery, PauseOver, BlurInput, HideLater, ClickItem, EnterKey, Pick, SearchFails
    <2> QED  BY <1>2, <2>1, <2>7 DEF Next, vars, suggest
<1> QED  BY <1>1, <1>2, PTL DEF Spec

--------------------------------------------------------------------------------
(* The tag aligner.                                                        *)

\* What the cache holds was read from a record.
CopiesDistinct == \A c \in ToSet(Comics) : copies[c] # None => IsInjective(copies[c])
Aligning == AlignerTypeOK /\ TagsStayDistinct /\ CopiesDistinct

LEMMA AlignerStart == Init => Aligning
<1>1. ASSUME NEW c \in ToSet(Comics), has[c] = <<>> \/ \E t \in AlignTags : has[c] = <<t>>
      PROVE  has[c] \in Seq(AlignTags) /\ IsInjective(has[c])
    <2>1. CASE has[c] = <<>>
        BY <2>1 DEF IsInjective
    <2>2. ASSUME NEW t \in AlignTags, has[c] = <<t>>
          PROVE  has[c] \in Seq(AlignTags) /\ IsInjective(has[c])
        <3>1. <<t>> \in Seq(AlignTags) /\ DOMAIN <<t>> = {1}
            OBVIOUS
        <3> QED  BY <2>2, <3>1 DEF IsInjective
    <2> QED  BY <1>1, <2>1, <2>2
<1>2. CASE AlignerInit
    BY <1>1, <1>2 DEF AlignerInit, Aligning, CopiesDistinct, AlignerTypeOK, TagsStayDistinct
<1>3. CASE /\ has = [c \in ToSet(Comics) |-> <<>>] /\ copies = [c \in ToSet(Comics) |-> None] /\ chosen = None /\ waiting = FALSE
           /\ batches = [b \in Batches |-> None]
    BY <1>1, <1>3 DEF Aligning, CopiesDistinct, AlignerTypeOK, TagsStayDistinct
<1> QED  BY <1>2, <1>3 DEF Init

\* One turn of a batch: the tag is added where it is not.
LEMMA ServeComicStep ==
    ASSUME Aligning, NEW b \in Batches, ServeComic(b)
    PROVE  Aligning'
<1> DEFINE c == Head(batches[b].left)
           t == batches[b].tag
<1>1. batches[b] \in Batch
    BY DEF ServeComic, Aligning, AlignerTypeOK
<1>2. t \in AlignTags /\ c \in ToSet(Comics) /\ Tail(batches[b].left) \in Seq(ToSet(Comics))
    BY <1>1 DEF ServeComic, Batch
<1>3. batches' \in [Batches -> Batch \cup {None}]
    <2>1. batches' = [batches EXCEPT ![b].left = Tail(@)]
        BY DEF ServeComic
    <2>2. [batches[b] EXCEPT !.left = Tail(@)] \in Batch
        BY <1>1, <1>2 DEF Batch
    <2> QED  BY <2>1, <2>2 DEF Aligning, AlignerTypeOK
<1>0. Copy(c) \in Seq(AlignTags) /\ IsInjective(Copy(c))
    BY <1>2 DEF Copy, Aligning, AlignerTypeOK, TagsStayDistinct, CopiesDistinct
<1>4. CASE has' = has /\ copies' \in {copies, [copies EXCEPT ![c] = Copy(c)]}
    <2>1. /\ copies' \in [ToSet(Comics) -> Seq(AlignTags) \cup {None}]
          /\ \A d \in ToSet(Comics) : copies'[d] = copies[d] \/ copies'[d] = Copy(c)
        <3> HIDE DEF c
        <3> QED  BY <1>0, <1>2, <1>4 DEF Aligning, AlignerTypeOK
    <2> HIDE DEF c
    <2> QED  BY <1>0, <1>3, <1>4, <2>1 DEF ServeComic, Aligning, CopiesDistinct, AlignerTypeOK, TagsStayDistinct
<1>5. CASE ~Carries(c, t) /\ has' = [has EXCEPT ![c] = Append(Copy(c), t)] /\ copies' = [copies EXCEPT ![c] = None]
    <2>1. t \notin Range(Copy(c))
        BY <1>5 DEF Carries, ToSet, Range
    <2> HIDE DEF c, t
    <2>2. Append(Copy(c), t) \in Seq(AlignTags) /\ IsInjective(Append(Copy(c), t))
        BY <1>0, <1>2, <2>1, AppendRange
    <2> QED
        BY <1>2, <1>3, <1>5, <2>2
        DEF ServeComic, Aligning, CopiesDistinct, AlignerTypeOK, TagsStayDistinct
<1> QED  BY <1>4, <1>5 DEF ServeComic

LEMMA AlignerStep ==
    ASSUME Aligning, [AlignerNext]_aligner
    PROVE  Aligning'
<1> USE DEF Aligning, CopiesDistinct, AlignerTypeOK, TagsStayDistinct
<1>1. CASE UNCHANGED aligner
    BY <1>1 DEF aligner
<1>2. ASSUME NEW d \in Dialogs, openTagAligner(d)
      PROVE  Aligning'
    BY <1>2 DEF openTagAligner
<1>3. CASE (\E t \in AlignTags : ChooseTag(t)) \/ AlignerModal
    BY <1>3 DEF ChooseTag, AlignerModal
<1>4. CASE ApplyToAll
    BY <1>4, AlignerAssumption DEF ApplyToAll, Batch
<1>5. ASSUME NEW b \in Batches, ServedBatch(b) \/ BatchAnswered(b) \/ BatchFails(b)
      PROVE  Aligning'
    BY <1>5 DEF ServedBatch, BatchAnswered, BatchFails, Batch
<1>6. ASSUME NEW c \in ToSet(Comics), OtherTabDrops(c)
      PROVE  Aligning'
    BY <1>6, WithoutCorrect, WithoutRange DEF OtherTabDrops
<1> QED
    BY <1>1, <1>2, <1>3, <1>4, <1>5, <1>6, ServeComicStep DEF AlignerNext

\* No comic carries a tag twice, for any comics, tags and batches that overlap.
THEOREM AlignerCorrect == Spec => []TagsStayDistinct
<1>1. Aligning /\ [Next]_vars => Aligning'
    BY AlignerStep DEF Next, vars
<1>2. Aligning => TagsStayDistinct
    BY DEF Aligning
<1> QED  BY AlignerStart, <1>1, <1>2, PTL DEF Spec

--------------------------------------------------------------------------------
(* The tag editor.                                                         *)

\* A tag of the comic has an id.
Real(t) == t \in Tag /\ t.id > 0
AllReal(set) == \A t \in set : Real(t)

\* What a dialog has collected, and what is sent.
Sound(e) ==
    /\ e \in Edit
    /\ AllReal(e.current)
    /\ \A i \in DOMAIN e.added : e.added[i] \in Found \/ e.added[i].id = 0
    /\ \A i, j \in DOMAIN e.added : dedupKey(e.added[i]) = dedupKey(e.added[j]) => i = j
    /\ Keys(Kept(e)) \cap Keys(ToSet(e.added)) = {}
    /\ e.removed \subseteq e.current

EditsSound ==
    /\ DOMAIN edits = Dialogs
    /\ \A d \in Dialogs : IF visit = "editor" /\ IsOpen(d) THEN Sound(edits[d]) ELSE edits[d] = None

Changing(e) == e.added # <<>> \/ e.removed # {}

MaybeEdit == Edit \cup {None}
MaybeTags == (SUBSET Tag) \cup {None}
Answers == {"none", "ok", "failed"}
Save == [from : Dialogs, sent : MaybeEdit, answer : Answers, copy : MaybeTags, known : BOOLEAN]

LEMMA Maybe == None \in MaybeEdit /\ None \in MaybeTags /\ Edit \subseteq MaybeEdit /\ SUBSET Tag \subseteq MaybeTags
BY DEF MaybeEdit, MaybeTags

SavesSound ==
    /\ DOMAIN saves = Saves
    /\ \A s \in Saves : saves[s] # None =>
        /\ saves[s] \in Save
        /\ saves[s].answer = "none" => Sound(saves[s].sent) /\ Changing(saves[s].sent)
        /\ saves[s].copy # None => AllReal(saves[s].copy) /\ saves[s].answer = "none"

\* The record, and what was read of it.
StoredReal ==
    /\ AllReal(tags)
    /\ cached # None => AllReal(cached)
    /\ view # None => AllReal(view)

EditorInv ==
    /\ shown \in [Dialogs -> {"gone", "open", "closing"}]
    /\ StoredReal
    /\ EditsSound /\ SavesSound

LEMMA EditorStart == Init => EditorInv
<1> SUFFICES ASSUME Init PROVE EditorInv
    OBVIOUS
<1>1. StoredReal
    BY EditorAssumption DEF Init, EditorInit, StoredReal, AllReal, Real, Tag
<1>2. /\ edits = [d \in Dialogs |-> None] /\ saves = [s \in Saves |-> None]
      /\ shown = [d \in Dialogs |-> "gone"]
    BY DEF Init, EditorInit, ModalInit
<1> QED  BY <1>1, <1>2 DEF EditorInv, EditsSound, SavesSound, IsOpen

\* A dialog as it is opened.
LEMMA Opened ==
    ASSUME NEW set, AllReal(set)
    PROVE  Sound([current |-> set, added |-> <<>>, removed |-> {}])
<1> DEFINE e == [current |-> set, added |-> <<>>, removed |-> {}]
<1>1. set \in SUBSET Tag
    BY DEF AllReal, Real
<1>2. e \in Edit /\ e.current = set /\ e.added = <<>> /\ e.removed = {}
    BY <1>1 DEF Edit
<1> HIDE DEF e
<1>3. ToSet(e.added) = {}
    BY <1>2 DEF ToSet
<1> QED  BY <1>2, <1>3 DEF Sound, Keys, e

\* A tag whose key no chip has.
LEMMA WithTag ==
    ASSUME NEW e, Sound(e), NEW t \in Tag, t \in Found \/ t.id = 0, ~Exists(e, t)
    PROVE  Sound([e EXCEPT !.added = Append(@, t)])
<1> DEFINE new == [e EXCEPT !.added = Append(@, t)]
<1>1. e.added \in Seq(Tag)
    BY DEF Sound, Edit
<1>2. /\ new \in Edit /\ new.current = e.current /\ new.removed = e.removed
      /\ new.added = Append(e.added, t)
    <2>1. Append(e.added, t) \in Seq(Tag)
        BY <1>1
    <2> QED  BY <2>1 DEF Sound, Edit
<1> HIDE DEF new
<1>3. /\ DOMAIN e.added = 1..Len(e.added) /\ Len(e.added) \in Nat
      /\ DOMAIN new.added = 1..Len(e.added) + 1
      /\ \A i \in DOMAIN new.added : new.added[i] = IF i = Len(e.added) + 1 THEN t ELSE e.added[i]
    BY <1>1, <1>2
<1>4. Range(new.added) = Range(e.added) \cup {t}
    BY <1>1, <1>2, AppendRange
<1>5. ToSet(new.added) = ToSet(e.added) \cup {t} /\ Kept(new) = Kept(e)
    BY <1>2, <1>4 DEF ToSet, Range, Kept
<1>6. dedupKey(t) \notin Keys(Kept(e)) /\ dedupKey(t) \notin Keys(ToSet(e.added))
    BY DEF Exists, Chips, Keys
<1>7. \A i \in DOMAIN e.added : dedupKey(e.added[i]) # dedupKey(t)
    BY <1>6 DEF Keys, ToSet
<1>8. \A i, j \in DOMAIN new.added : dedupKey(new.added[i]) = dedupKey(new.added[j]) => i = j
    BY <1>3, <1>7 DEF Sound
<1>9. Keys(Kept(new)) \cap Keys(ToSet(new.added)) = {}
    BY <1>5, <1>6 DEF Sound, Keys
<1>10. \A i \in DOMAIN new.added : new.added[i] \in Found \/ new.added[i].id = 0
    BY <1>3 DEF Sound
<1> QED  BY <1>2, <1>8, <1>9, <1>10 DEF Sound, new

\* An addition taken back.
LEMMA WithoutTag ==
    ASSUME NEW e, Sound(e), NEW X
    PROVE  Sound([e EXCEPT !.added = Without(@, X)])
<1> DEFINE new == [e EXCEPT !.added = Without(@, X)]
           w == Without(e.added, X)
<1>1. e.added \in Seq(Tag)
    BY DEF Sound, Edit
<1>2. /\ w \in Seq(Tag)
      /\ \A n \in DOMAIN w : \E i \in DOMAIN e.added : e.added[i] \notin X /\ w[n] = e.added[i]
      /\ IsInjective(e.added) => IsInjective(w)
    BY <1>1, WithoutCorrect, WithoutRange
<1> HIDE DEF w
<1>3. new \in Edit /\ new.current = e.current /\ new.removed = e.removed /\ new.added = w
    BY <1>2 DEF Sound, Edit, w
<1> HIDE DEF new
<1>4. Kept(new) = Kept(e) /\ ToSet(new.added) \subseteq ToSet(e.added)
    BY <1>2, <1>3 DEF Kept, ToSet
<1>5. IsInjective(e.added)
    BY DEF Sound, IsInjective
<1>6. \A i, j \in DOMAIN new.added : dedupKey(new.added[i]) = dedupKey(new.added[j]) => i = j
    <2> SUFFICES ASSUME NEW m \in DOMAIN w, NEW n \in DOMAIN w, dedupKey(w[m]) = dedupKey(w[n])
                 PROVE  m = n
        BY <1>3
    <2>1. PICK i \in DOMAIN e.added, j \in DOMAIN e.added : w[m] = e.added[i] /\ w[n] = e.added[j]
        BY <1>2
    <2>2. i = j
        BY <2>1 DEF Sound
    <2> QED  BY <1>2, <1>5, <2>1, <2>2 DEF IsInjective
<1>7. Keys(Kept(new)) \cap Keys(ToSet(new.added)) = {}
    BY <1>4 DEF Sound, Keys
<1>8. \A i \in DOMAIN new.added : new.added[i] \in Found \/ new.added[i].id = 0
    BY <1>2, <1>3 DEF Sound
<1> QED  BY <1>3, <1>6, <1>7, <1>8 DEF Sound, new

\* A tag of the comic removed.
LEMMA WithRemoval ==
    ASSUME NEW e, Sound(e), NEW t \in e.current
    PROVE  Sound([e EXCEPT !.removed = @ \cup {t}])
<1> DEFINE new == [e EXCEPT !.removed = @ \cup {t}]
<1>1. /\ new \in Edit /\ new.current = e.current /\ new.added = e.added
      /\ new.removed = e.removed \cup {t}
    BY DEF Sound, Edit
<1> HIDE DEF new
<1>2. Keys(Kept(new)) \subseteq Keys(Kept(e))
    BY <1>1 DEF Kept, Keys
<1> QED  BY <1>1, <1>2 DEF Sound, new

\* What a click in a dialog does to its edit.
LEMMA EditStep ==
    ASSUME EditorInv, visit' = visit, visit = "editor", NEW d \in Dialogs, IsOpen(d),
           NEW new, Sound(edits[d]) => Sound(new), edits' = [edits EXCEPT ![d] = new],
           UNCHANGED <<modal, info, saves>>
    PROVE  EditorInv'
<1>1. Sound(edits[d])
    BY DEF EditorInv, EditsSound
<1>2. EditsSound'
    BY <1>1 DEF EditorInv, EditsSound, modal, IsOpen
<1> QED  BY <1>2 DEF EditorInv, StoredReal, SavesSound, modal, info

LEMMA DropStep ==
    ASSUME EditorInv, visit' = visit, visit = "editor", NEW d \in Dialogs, DropChip(d)
    PROVE  EditorInv'
<1> DEFINE e == edits[d]
<1>1. PICK t \in Chips(e) :
        \/ edits' = [edits EXCEPT ![d].added = Without(@, {a \in ToSet(@) : dedupKey(a) = dedupKey(t)})]
        \/ /\ dedupKey(t) \notin Keys(ToSet(e.added))
           /\ edits' = [edits EXCEPT ![d].removed = @ \cup {t}]
    BY DEF DropChip
<1>2. CASE edits' = [edits EXCEPT ![d].added = Without(@, {a \in ToSet(@) : dedupKey(a) = dedupKey(t)})]
    <2> DEFINE X == {a \in ToSet(e.added) : dedupKey(a) = dedupKey(t)}
               new == [e EXCEPT !.added = Without(@, X)]
    <2>1. Sound(e) => Sound(new)
        <3> HIDE DEF e, X
        <3> QED  BY WithoutTag
    <2>2. edits' = [edits EXCEPT ![d] = new]
        BY <1>2
    <2> HIDE DEF new
    <2> QED  BY <2>1, <2>2, EditStep DEF DropChip, Editing
<1>3. CASE /\ dedupKey(t) \notin Keys(ToSet(e.added))
           /\ edits' = [edits EXCEPT ![d].removed = @ \cup {t}]
    <2> DEFINE new == [e EXCEPT !.removed = @ \cup {t}]
    <2>1. t \in e.current
        BY <1>3 DEF Chips, Kept, Keys
    <2>2. Sound(e) => Sound(new)
        <3> HIDE DEF e
        <3> QED  BY <2>1, WithRemoval
    <2>3. edits' = [edits EXCEPT ![d] = new]
        BY <1>3
    <2> HIDE DEF new
    <2> QED  BY <2>2, <2>3, EditStep DEF DropChip, Editing
<1> QED  BY <1>1, <1>2, <1>3

\* Nobody works in a dialog that fades out; one that stays open keeps its edit.
LEMMA LeftStep ==
    ASSUME EditorInv, visit' = visit, visit = "editor", edits' = EditsLeft,
           shown' \in [Dialogs -> {"gone", "open", "closing"}],
           \A d \in Dialogs : shown'[d] = "open" => shown[d] = "open",
           info' = info, SavesSound'
    PROVE  EditorInv'
<1>1. EditsSound'
    BY DEF EditorInv, EditsSound, EditsLeft, IsOpen
<1> QED  BY <1>1 DEF EditorInv, StoredReal, info

LEMMA OpenStep ==
    ASSUME EditorInv, visit' = visit, visit = "editor", NEW d \in Dialogs, openTagEditor(d)
    PROVE  EditorInv'
<1> DEFINE new == [current |-> Got, added |-> <<>>, removed |-> {}]
<1>0. AllReal(Got)
    BY DEF Got, EditorInv, StoredReal
<1>1. Sound(new)
    BY <1>0, Opened
<1>2. edits' = [EditsLeft EXCEPT ![d] = new]
    BY DEF openTagEditor
<1> HIDE DEF new
<1>3. /\ shown' \in [Dialogs -> {"gone", "open", "closing"}] /\ shown'[d] = "open"
      /\ \A e \in Dialogs \ {d} : shown'[e] = "open" => shown[e] = "open"
    BY DEF openTagEditor, ShowModal, EditorInv
<1>4. EditsSound'
    BY <1>1, <1>2, <1>3 DEF EditorInv, EditsSound, EditsLeft, IsOpen
<1> QED  BY <1>0, <1>3, <1>4 DEF openTagEditor, EditorInv, StoredReal, SavesSound

LEMMA SaveStep ==
    ASSUME EditorInv, visit' = visit, visit = "editor", NEW d \in Dialogs, SaveTags(d)
    PROVE  EditorInv'
<1>1. Sound(edits[d]) /\ edits[d] \in Edit
    BY DEF SaveTags, EditorInv, EditsSound, Sound
<1>2. PICK s \in Saves :
        saves' = [saves EXCEPT ![s] = [from |-> d, sent |-> edits[d], answer |-> "none", copy |-> None, known |-> TRUE]]
    BY DEF SaveTags
<1>3. SavesSound'
    <2> DEFINE new == [from |-> d, sent |-> edits[d], answer |-> "none", copy |-> None, known |-> TRUE]
    <2>1. new \in Save /\ new.copy = None /\ new.sent = edits[d]
        BY <1>1, Maybe DEF Save, Answers
    <2>2. Changing(edits[d])
        BY DEF SaveTags, Changing
    <2>3. saves' = [saves EXCEPT ![s] = new]
        BY <1>2
    <2> HIDE DEF new
    <2> QED  BY <1>1, <2>1, <2>2, <2>3 DEF EditorInv, SavesSound
<1>4. EditsSound'
    BY DEF SaveTags, modal, EditorInv, EditsSound, IsOpen
<1> QED  BY <1>3, <1>4 DEF SaveTags, modal, info, StoredReal, EditorInv

--------------------------------------------------------------------------------
(* Saving, on the server.                                                  *)

\* The highest id is one, and no tag that is looked at has a higher one.
LEMMA HighestId ==
    ASSUME NEW set \in SUBSET Tag
    PROVE  MaxIdOf(set) \in Nat /\ \A t \in Found \cup set : t.id <= MaxIdOf(set)
<1> DEFINE ids == {0} \cup {t.id : t \in Found \cup set}
<1>1. ids \in SUBSET (0..MaxId)
    BY EditorAssumption DEF Tag
<1>2. PICK m \in ids : \A n \in ids : m >= n
    BY <1>1, EditorAssumption, HasGreatest
<1>3. MaxIdOf(set) \in ids /\ \A n \in ids : MaxIdOf(set) >= n
    BY <1>2 DEF MaxIdOf, Max
<1>4. MaxIdOf(set) \in Nat
    BY <1>1, <1>3
<1>5. \A t \in Found \cup set : t.id \in ids /\ t.id \in Nat
    BY <1>1
<1> QED  BY <1>3, <1>4, <1>5

\* New tags get ids above the highest, the names stay.
LEMMA NumberedTags ==
    ASSUME NEW e, Sound(e), NEW base \in Nat, HasRoom(base, e), NEW i \in DOMAIN e.added
    PROVE  /\ DOMAIN Numbered(e.added, base) = DOMAIN e.added
           /\ Numbered(e.added, base)[i] \in Tag
           /\ Numbered(e.added, base)[i].name = e.added[i].name
           /\ e.added[i].id > 0 => Numbered(e.added, base)[i] = e.added[i]
           /\ e.added[i].id = 0 => Numbered(e.added, base)[i].id > base
<1> DEFINE added == e.added
           before == {j \in 1..i : added[j].id = 0}
<1>1. added \in Seq(Tag) /\ added[i] \in Tag /\ Len(added) \in Nat /\ i \in 1..Len(added)
    BY DEF Sound, Edit
<1>2. IsFiniteSet(1..i) /\ Cardinality(1..i) = i
    <2>1. i \in Int /\ 1 \in Int /\ i >= 1
        BY <1>1
    <2> QED  BY <2>1, FS_Interval
<1>3. IsFiniteSet(before) /\ Cardinality(before) <= i /\ Cardinality(before) \in Nat
    <2>1. before \in SUBSET (1..i)
        OBVIOUS
    <2> HIDE DEF before
    <2> QED  BY <1>2, <2>1, FS_Subset, FS_CardinalityType
<1>4. CASE added[i].id > 0
    BY <1>1, <1>4 DEF Numbered, Tag
<1>5. CASE added[i].id = 0
    <2>1. i \in before
        BY <1>1, <1>5
    <2>2. Cardinality(before) # 0
        BY <1>3, <2>1, FS_EmptySet
    <2>3. Cardinality(before) \in 1..Len(added)
        BY <1>1, <1>3, <2>2
    <2>4. base + Cardinality(before) \in 0..MaxId /\ base + Cardinality(before) > base
        BY <1>1, <2>3, EditorAssumption DEF HasRoom
    <2>5. Numbered(added, base)[i] = [added[i] EXCEPT !.id = base + Cardinality(before)]
        BY <1>1, <1>5 DEF Numbered
    <2> HIDE DEF before
    <2>6. /\ Numbered(added, base)[i] \in Tag /\ Numbered(added, base)[i].name = added[i].name
          /\ Numbered(added, base)[i].id = base + Cardinality(before)
        BY <1>1, <2>4, <2>5 DEF Tag
    <2> QED  BY <1>1, <1>5, <2>4, <2>6 DEF Numbered
<1> QED  BY <1>1, <1>4, <1>5 DEF Tag

LEMMA UpdateKeepsReal ==
    ASSUME NEW copy, AllReal(copy), NEW e, Sound(e), NEW base \in Nat, HasRoom(base, e)
    PROVE  AllReal(UpdateTags(copy, e, base))
<1>1. ASSUME NEW i \in DOMAIN e.added
      PROVE  Real(Numbered(e.added, base)[i])
    <2>1. /\ Numbered(e.added, base)[i] \in Tag
          /\ e.added[i].id > 0 => Numbered(e.added, base)[i] = e.added[i]
          /\ e.added[i].id = 0 => Numbered(e.added, base)[i].id > base
        BY NumberedTags
    <2>2. e.added[i] \in Found \/ e.added[i].id = 0
        BY DEF Sound
    <2>3. \A f \in Found : f.id \in Nat /\ f.id > 0
        BY EditorAssumption DEF Tag
    <2>4. CASE e.added[i] \in Found
        BY <2>1, <2>3, <2>4 DEF Real
    <2>5. CASE e.added[i].id = 0
        <3>1. Numbered(e.added, base)[i].id \in Nat
            BY <2>1, EditorAssumption DEF Tag
        <3> QED  BY <2>1, <2>5, <3>1 DEF Real
    <2> QED  BY <2>2, <2>4, <2>5
<1>2. \A t \in ToSet(Numbered(e.added, base)) : Real(t)
    <2>1. DOMAIN Numbered(e.added, base) = DOMAIN e.added
        BY DEF Numbered
    <2> QED  BY <1>1, <2>1 DEF ToSet
<1> QED  BY <1>2 DEF UpdateTags, Left, WithAdded, AllReal

LEMMA ReadTagsStep ==
    ASSUME EditorInv, visit' = visit, NEW s \in Saves, ReadTags(s)
    PROVE  EditorInv'
<1>0. AllReal(Got) /\ Got \in SUBSET Tag
    BY DEF Got, EditorInv, StoredReal, AllReal, Real
<1>1. /\ saves[s] \in Save /\ saves[s].answer = "none"
      /\ Sound(saves[s].sent) /\ Changing(saves[s].sent)
    BY DEF ReadTags, EditorInv, SavesSound
<1>2. SavesSound'
    <2> DEFINE new == [saves[s] EXCEPT !.copy = Got]
    <2>1. /\ new \in Save /\ new.copy = Got /\ new.answer = "none"
          /\ new.sent = saves[s].sent
        BY <1>0, <1>1, Maybe DEF Save
    <2>2. saves' = [saves EXCEPT ![s] = new]
        BY DEF ReadTags
    <2> HIDE DEF new
    <2> QED  BY <1>0, <1>1, <2>1, <2>2 DEF EditorInv, SavesSound
<1>3. EditsSound' /\ shown' = shown
    BY DEF ReadTags, modal, EditorInv, EditsSound, IsOpen
<1> QED  BY <1>0, <1>2, <1>3 DEF ReadTags, EditorInv, StoredReal

\* A save that is answered is not looked at again.
LEMMA AnsweredSaves ==
    ASSUME EditorInv, NEW s \in Saves, saves[s] # None, NEW a \in {"ok", "failed"}, NEW k \in BOOLEAN,
           saves' = [saves EXCEPT ![s] = [saves[s] EXCEPT !.sent = None, !.answer = a, !.copy = None, !.known = k]]
    PROVE  SavesSound'
<1> DEFINE new == [saves[s] EXCEPT !.sent = None, !.answer = a, !.copy = None, !.known = k]
<1>1. saves[s] \in Save
    BY DEF EditorInv, SavesSound
<1>2. new \in Save /\ new.copy = None /\ new.answer = a
    BY <1>1, Maybe DEF Save, Answers
<1> HIDE DEF new
<1>3. saves' = [saves EXCEPT ![s] = new]
    BY DEF new
<1> QED  BY <1>2, <1>3 DEF EditorInv, SavesSound

LEMMA WriteTagsStep ==
    ASSUME EditorInv, visit' = visit, NEW s \in Saves, WriteTags(s)
    PROVE  EditorInv'
<1>1. /\ saves[s] # None /\ saves[s] \in Save
      /\ Sound(saves[s].sent) /\ AllReal(saves[s].copy)
    BY DEF WriteTags, Serving, EditorInv, SavesSound
<1>2. SavesSound'
    <2>1. PICK k \in BOOLEAN :
            saves' = [saves EXCEPT ![s].sent = None, ![s].answer = "ok", ![s].copy = None, ![s].known = k]
        BY DEF WriteTags
    <2>2. saves' = [saves EXCEPT ![s] = [saves[s] EXCEPT !.sent = None, !.answer = "ok", !.copy = None, !.known = k]]
        BY <2>1
    <2> QED  BY <1>1, <2>2, AnsweredSaves
<1>3. StoredReal'
    <2>0. tags \in SUBSET Tag
        BY DEF EditorInv, StoredReal, AllReal, Real
    <2>1. CASE tags' = tags /\ cached' = cached
        BY <2>1 DEF WriteTags, EditorInv, StoredReal
    <2>2. ASSUME NEW set \in SUBSET Tag, HasRoom(MaxIdOf(set), saves[s].sent), cached' = None,
                 tags' = UpdateTags(saves[s].copy, saves[s].sent, MaxIdOf(set))
          PROVE  StoredReal'
        <3>1. AllReal(tags')
            BY <1>1, <2>2, HighestId, UpdateKeepsReal
        <3> QED  BY <2>2, <3>1 DEF WriteTags, EditorInv, StoredReal
    <2> QED  BY <2>0, <2>1, <2>2 DEF WriteTags
<1>4. EditsSound' /\ shown' = shown
    BY DEF WriteTags, modal, EditorInv, EditsSound, IsOpen
<1> QED  BY <1>2, <1>3, <1>4 DEF EditorInv

LEMMA FailTagsStep ==
    ASSUME EditorInv, visit' = visit, NEW s \in Saves, FailTags(s)
    PROVE  EditorInv'
<1>1. saves[s] # None /\ saves[s] \in Save /\ saves[s].known \in BOOLEAN
    BY DEF FailTags, EditorInv, SavesSound, Save
<1>2. saves' = [saves EXCEPT ![s] =
            [saves[s] EXCEPT !.sent = None, !.answer = "failed", !.copy = None, !.known = saves[s].known]]
    <2>1. [saves[s] EXCEPT !.sent = None, !.answer = "failed", !.copy = None]
            = [saves[s] EXCEPT !.sent = None, !.answer = "failed", !.copy = None, !.known = saves[s].known]
        BY <1>1 DEF Save
    <2>2. saves' = [saves EXCEPT ![s] = [saves[s] EXCEPT !.sent = None, !.answer = "failed", !.copy = None]]
        BY DEF FailTags
    <2> QED  BY <2>1, <2>2
<1>3. SavesSound'
    BY <1>1, <1>2, AnsweredSaves
<1> QED  BY <1>3 DEF FailTags, modal, info, EditorInv, StoredReal, EditsSound, IsOpen

LEMMA EditorStep ==
    ASSUME EditorInv, visit' = visit, visit = "editor", EditorNext
    PROVE  EditorInv'
<1>a. ASSUME NEW closed, CloseModal(closed)
      PROVE  /\ shown' \in [Dialogs -> {"gone", "open", "closing"}]
             /\ \A d \in Dialogs : shown'[d] = "open" => shown[d] = "open"
    BY <1>a DEF CloseModal, EditorInv
<1>1. ASSUME NEW d \in Dialogs, PickTag(d) \/ AddNewTag(d)
      PROVE  EditorInv'
    <2>1. \E t \in Tag : (t \in Found \/ t.id = 0) /\ AddTag(d, t)
        <3>1. CASE PickTag(d)
            BY <3>1, EditorAssumption DEF PickTag
        <3>2. CASE AddNewTag(d)
            <4>1. PICK n \in Names : AddTag(d, [id |-> 0, name |-> n])
                BY <3>2 DEF AddNewTag
            <4> DEFINE t == [id |-> 0, name |-> n]
            <4>2. t \in Tag /\ t.id = 0
                BY EditorAssumption DEF Tag
            <4> HIDE DEF t
            <4>3. AddTag(d, t)
                BY <4>1 DEF t
            <4> QED  BY <4>2, <4>3
        <3> QED  BY <1>1, <3>1, <3>2
    <2>0. PICK t \in Tag : (t \in Found \/ t.id = 0) /\ AddTag(d, t)
        BY <2>1
    <2> DEFINE new == [edits[d] EXCEPT !.added = Append(@, t)]
    <2>2. edits' = [edits EXCEPT ![d] = new] /\ IsOpen(d) /\ UNCHANGED <<modal, info, saves>>
        BY <2>0 DEF AddTag, Editing
    <2>3. Sound(edits[d]) => Sound(new)
        BY <2>0, WithTag DEF AddTag
    <2> HIDE DEF new
    <2> QED  BY <2>2, <2>3, EditStep
<1>2. CASE EditorModal
    <2>1. /\ shown' \in [Dialogs -> {"gone", "open", "closing"}]
          /\ \A d \in Dialogs : shown'[d] = "open" => shown[d] = "open"
        BY <1>2, <1>a DEF EditorModal, ModalStep, Escape, Dismiss, RemoveModal, EditorInv
    <2> QED  BY <1>2, <2>1, LeftStep DEF EditorModal, EditorInv, SavesSound
<1>3. ASSUME NEW s \in Saves, TagsSaved(s)
      PROVE  EditorInv'
    <2>1. SavesSound'
        BY <1>3 DEF TagsSaved, EditorInv, SavesSound
    <2> QED  BY <1>3, <1>a, <2>1, LeftStep DEF TagsSaved, refreshContainer
<1>4. ASSUME NEW s \in Saves, TagsNotSaved(s)
      PROVE  EditorInv'
    BY <1>4 DEF TagsNotSaved, modal, info, EditorInv, StoredReal, SavesSound, EditsSound, IsOpen
<1>5. CASE OtherTabTags
    <2>1. \A t \in Found : Real(t)
        BY EditorAssumption DEF Real, Tag
    <2>2. StoredReal'
        BY <1>5, <2>1 DEF OtherTabTags, EditorInv, StoredReal, AllReal
    <2> QED  BY <1>5, <2>2 DEF OtherTabTags, modal, EditorInv, SavesSound, EditsSound, IsOpen
<1>8. CASE ViewReads \/ ViewStores
    <2>1. StoredReal'
        BY <1>8 DEF ViewReads, ViewStores, EditorInv, StoredReal
    <2> QED  BY <1>8, <2>1 DEF ViewReads, ViewStores, modal, EditorInv, SavesSound, EditsSound, IsOpen
<1>6. ASSUME NEW d \in Dialogs,
             openTagEditor(d) \/ PickTag(d) \/ AddNewTag(d) \/ DropChip(d) \/ SaveTags(d)
      PROVE  EditorInv'
    BY <1>1, <1>6, OpenStep, DropStep, SaveStep
<1>7. ASSUME NEW s \in Saves,
             ReadTags(s) \/ WriteTags(s) \/ FailTags(s) \/ TagsSaved(s) \/ TagsNotSaved(s)
      PROVE  EditorInv'
    BY <1>3, <1>4, <1>7, ReadTagsStep, WriteTagsStep, FailTagsStep
<1> QED  BY <1>2, <1>5, <1>6, <1>7, <1>8 DEF EditorNext

LEMMA EditorAlways == Spec => []EditorInv
<1>1. ASSUME Holding, EditorInv, [Next]_vars
      PROVE  EditorInv'
    <2>1. CASE visit = "editor" /\ EditorNext /\ visit' = visit
        BY <1>1, <2>1, EditorStep
    <2>2. CASE UNCHANGED vars
        BY <1>1, <2>2 DEF vars, modal, editor, info, EditorInv, StoredReal, EditsSound, SavesSound, IsOpen
    <2>3. CASE visit # "editor" /\ visit' = visit /\ UNCHANGED editor
        <3>1. shown' \in [Dialogs -> {"gone", "open", "closing"}]
            BY <1>1, HoldingStep DEF Holding
        <3> QED  BY <1>1, <2>3, <3>1 DEF editor, info, EditorInv, StoredReal, EditsSound, SavesSound
    <2> QED  BY <1>1, <2>1, <2>2, <2>3 DEF Next
<1>2. Init => Holding
    BY NoDialog DEF Init
<1> QED  BY <1>1, <1>2, EditorStart, HoldingStep, PTL DEF Spec

\* No dialog shows a tag twice, for any tags, dialogs and number of edits.
THEOREM ChipsCorrect == Spec => []ChipsAreDistinct
<1>1. EditorInv => ChipsAreDistinct
    BY DEF EditorInv, EditsSound, Sound, ChipsAreDistinct
<1> QED  BY <1>1, EditorAlways, PTL

\* What is taken from the list was removed in the dialog, and is not shown there; what is
\* added there besides joins.
LEMMA NoneShownIsLost ==
    ASSUME NEW copy, AllReal(copy), NEW e, Sound(e), NEW base \in Nat,
           NEW t \in copy, dedupKey(t) \in Keys(Chips(e))
    PROVE  dedupKey(t) \in Keys(UpdateTags(copy, e, base))
<1> DEFINE new == UpdateTags(copy, e, base)
           added == Numbered(e.added, base)
<1>1. CASE dedupKey(t) \notin Keys(e.removed)
    BY <1>1 DEF UpdateTags, Left, WithAdded, Keys
<1>2. CASE dedupKey(t) \in Keys(e.removed)
    <2>1. PICK c \in ToSet(e.added) : dedupKey(c) = dedupKey(t)
        BY <1>2 DEF Chips, Kept, Keys
    <2>2. PICK i \in DOMAIN e.added : e.added[i] = c
        BY <2>1 DEF ToSet
    <2>3. c.id > 0
        BY <2>1 DEF AllReal, Real, dedupKey
    <2>4. c \in ToSet(added)
        BY <2>2, <2>3 DEF Numbered, ToSet
    <2>5. c \in new \/ dedupKey(c) \in Keys(Left(copy, e))
        BY <2>4 DEF UpdateTags, WithAdded
    <2>6. Left(copy, e) \subseteq new
        BY DEF UpdateTags, WithAdded
    <2> QED  BY <2>1, <2>5, <2>6 DEF Keys
<1> QED  BY <1>1, <1>2

\* When the list is the one the dialog was opened with and the ids in use were known, the
\* additions all join, by their names.
LEMMA ComicShows ==
    ASSUME NEW e, Sound(e), NEW base \in Nat, HasRoom(base, e), \A t \in e.current : t.id <= base
    PROVE  /\ NamesOf(UpdateTags(e.current, e, base)) = NamesOf(Chips(e))
           /\ Changing(e) => Left(e.current, e) # e.current \/ UpdateTags(e.current, e, base) # e.current
<1> DEFINE added == Numbered(e.added, base)
<1>2. DOMAIN added = DOMAIN e.added
    BY DEF Numbered
<1>3. ASSUME NEW i \in DOMAIN e.added
      PROVE  added[i].name = e.added[i].name /\ dedupKey(added[i]) \notin Keys(Kept(e))
    <2>1. /\ added[i] \in Tag /\ added[i].name = e.added[i].name
          /\ e.added[i].id > 0 => added[i] = e.added[i]
          /\ e.added[i].id = 0 => added[i].id > base
        BY NumberedTags
    <2>2. e.added[i] \in Tag /\ e.added[i].id \in Nat
        <3>1. e.added \in Seq(Tag)
            BY DEF Sound, Edit
        <3>2. e.added[i] \in Tag
            BY <3>1
        <3> QED  BY <3>2, EditorAssumption DEF Tag
    <2>3. CASE e.added[i].id > 0
        BY <2>1, <2>3 DEF Sound, Keys, ToSet
    <2>4. CASE e.added[i].id = 0
        <3>1. added[i].id \in Nat /\ added[i].id > base
            BY <2>1, <2>4, EditorAssumption DEF Tag
        <3>2. \A t \in Kept(e) : t.id > 0 /\ t.id <= base /\ t.id \in Nat
            BY EditorAssumption DEF Sound, Kept, AllReal, Real, Tag
        <3>3. \A t \in Kept(e) : dedupKey(t) = <<"id", t.id>> /\ t.id < added[i].id
            BY <3>1, <3>2 DEF dedupKey
        <3>4. dedupKey(added[i]) = <<"id", added[i].id>>
            BY <3>1 DEF dedupKey
        <3>5. \A t \in Kept(e) : dedupKey(t) # dedupKey(added[i])
            BY <3>1, <3>2, <3>3, <3>4
        <3> QED  BY <2>1, <3>5 DEF Keys
    <2> QED  BY <2>2, <2>3, <2>4
<1>4. UpdateTags(e.current, e, base) = Kept(e) \cup ToSet(added)
    <2> HIDE DEF added
    <2> QED  BY <1>2, <1>3 DEF UpdateTags, Left, WithAdded, Kept, ToSet, added
<1>5. NamesOf(ToSet(added)) = NamesOf(ToSet(e.added))
    <2> HIDE DEF added
    <2> QED  BY <1>2, <1>3 DEF NamesOf, ToSet
<1> HIDE DEF added
<1>6. NamesOf(Kept(e) \cup ToSet(added)) = NamesOf(Kept(e)) \cup NamesOf(ToSet(added))
    BY DEF NamesOf
<1>7. NamesOf(Chips(e)) = NamesOf(Kept(e)) \cup NamesOf(ToSet(e.added))
    BY DEF NamesOf, Chips
<1>8. ASSUME Changing(e), Left(e.current, e) = e.current
      PROVE  UpdateTags(e.current, e, base) # e.current
    <2>1. Kept(e) = e.current
        BY <1>8 DEF Left, Kept
    <2>2. e.removed = {}
        BY <1>8 DEF Left, Keys, Sound
    <2>3. e.added \in Seq(Tag) /\ e.added # <<>>
        BY <1>8, <2>2 DEF Changing, Sound, Edit
    <2>4. 1 \in DOMAIN e.added
        BY <2>3
    <2>5. added[1] \in ToSet(added)
        BY <1>2, <2>4 DEF ToSet
    <2>6. added[1] \notin e.current
        BY <1>3, <2>1, <2>4 DEF Keys
    <2> QED  BY <1>4, <2>5, <2>6
<1> QED  BY <1>4, <1>5, <1>6, <1>7, <1>8

\* What the property says of one save.
AsShown(s) ==
    LET e == saves[s].sent
        copy == saves[s].copy
    IN
    /\ Keys(tags \cap copy) \cap Keys(Chips(e)) \subseteq Keys(tags')
    /\ saves'[s].answer = "ok" /\ saves'[s].known /\ copy = e.current /\ copy \subseteq tags \cup Found =>
            NamesOf(tags') = NamesOf(Chips(e))

\* Nothing is lost where nothing is written.
LEMMA UnwrittenShows ==
    ASSUME NEW s \in Saves, tags' = tags, saves'[s].answer # "ok"
    PROVE  AsShown(s)
BY DEF AsShown, Keys

\* What serving a save may do to the comic.
LEMMA WrittenShows ==
    ASSUME EditorInv, NEW s \in Saves, WriteTags(s)
    PROVE  AsShown(s)
<1> DEFINE e == saves[s].sent
           copy == saves[s].copy
<1>1. /\ saves[s] # None /\ saves[s] \in Save /\ Sound(e) /\ Changing(e) /\ AllReal(copy) /\ s \in DOMAIN saves
    BY DEF WriteTags, Serving, EditorInv, SavesSound
<1>2. tags \in SUBSET Tag
    BY DEF EditorInv, StoredReal, AllReal, Real
<1>3. PICK known \in BOOLEAN :
        LET base == MaxIdOf(IF known THEN tags ELSE {})
            new == UpdateTags(copy, e, base)
        IN
        /\ HasRoom(base, e)
        /\ \/ tags' = new
           \/ new = copy /\ Left(copy, e) = copy /\ tags' = tags
        /\ saves' = [saves EXCEPT ![s].sent = None, ![s].answer = "ok", ![s].copy = None, ![s].known = known]
    BY DEF WriteTags
<1> DEFINE set == IF known THEN tags ELSE {}
           base == MaxIdOf(set)
           new == UpdateTags(copy, e, base)
<1>4. base \in Nat /\ \A t \in Found \cup set : t.id <= base
    BY <1>2, HighestId
<1>5. saves'[s].known = known
    BY <1>1, <1>3
<1>6. Keys(tags \cap copy) \cap Keys(Chips(e)) \subseteq Keys(tags')
    <2> SUFFICES ASSUME NEW t \in tags \cap copy, dedupKey(t) \in Keys(Chips(e))
                 PROVE  dedupKey(t) \in Keys(tags')
        BY DEF Keys
    <2>1. CASE tags' = tags
        BY <2>1 DEF Keys
    <2>2. CASE tags' = new
        <3> HIDE DEF base, e, copy
        <3> QED  BY <1>1, <1>4, <2>2, NoneShownIsLost
    <2> QED  BY <1>3, <2>1, <2>2
<1>7. ASSUME known, copy = e.current, copy \subseteq tags \cup Found
      PROVE  NamesOf(tags') = NamesOf(Chips(e))
    <2>1. \A t \in e.current : t.id <= base
        BY <1>4, <1>7
    <2>2. NamesOf(new) = NamesOf(Chips(e)) /\ (Left(copy, e) # copy \/ new # copy)
        <3> HIDE DEF base, e, copy
        <3> QED  BY <1>1, <1>3, <1>4, <1>7, <2>1, ComicShows DEF base, e, copy
    <2>3. tags' = new
        BY <1>3, <2>2
    <2> QED  BY <2>2, <2>3
<1> QED  BY <1>5, <1>6, <1>7 DEF AsShown

\* Carrying out a save loses no tag that the dialog showed and the server knew of; when it
\* started from what the dialog was opened with and the ids in use were known, the comic
\* has afterwards just what the dialog showed: for any tags, names, dialogs and saves
\* under way together, whatever others write and whatever page views put into the cache.
THEOREM SavesCorrect == Spec => SaveMeansWhatItShows
<1> DEFINE Shown(s) ==
        s \in Serving /\ saves'[s] # saves[s] /\ saves'[s] # None => AsShown(s)
<1>1. ASSUME EditorInv, [Next]_vars, NEW s \in Saves
      PROVE  Shown(s)
    <2>1. ASSUME NEW r \in Saves, WriteTags(r)
          PROVE  Shown(s)
        <3>1. CASE r = s
            BY <1>1, <2>1, <3>1, WrittenShows
        <3>2. CASE r # s
            BY <1>1, <2>1, <3>2 DEF WriteTags, EditorInv, SavesSound
        <3> QED  BY <3>1, <3>2
    <2>2. ASSUME NEW r \in Saves, FailTags(r)
          PROVE  Shown(s)
        <3>1. CASE r = s
            <4>1. saves[s] \in Save /\ s \in DOMAIN saves /\ tags' = tags
                BY <1>1, <2>2, <3>1 DEF FailTags, info, EditorInv, SavesSound
            <4>2. saves'[s].answer = "failed"
                BY <2>2, <3>1, <4>1 DEF FailTags, Save
            <4> QED  BY <4>1, <4>2, UnwrittenShows
        <3>2. CASE r # s
            BY <1>1, <2>2, <3>2 DEF FailTags, EditorInv, SavesSound
        <3> QED  BY <3>1, <3>2
    <2>3. ASSUME NEW r \in Saves, ReadTags(r) \/ TagsSaved(r) \/ TagsNotSaved(r)
          PROVE  Shown(s)
        BY <1>1, <2>3 DEF ReadTags, Serving, TagsSaved, TagsNotSaved, EditorInv, SavesSound
    <2>4. ASSUME NEW d \in Dialogs, SaveTags(d)
          PROVE  Shown(s)
        BY <1>1, <2>4 DEF SaveTags, Serving, EditorInv, SavesSound
    <2>5. CASE saves' = saves
        BY <2>5
    <2>6. CASE EditorNext
        BY <2>1, <2>2, <2>3, <2>4, <2>5, <2>6
        DEF EditorNext, openTagEditor, PickTag, AddNewTag, AddTag, DropChip, OtherTabTags, ViewReads,
            ViewStores, EditorModal
    <2> QED  BY <1>1, <2>5, <2>6 DEF Next, vars, editor
<1>2. EditorInv /\ [Next]_vars => [\A s \in Saves : Shown(s)]_editor
    BY <1>1
<1>3. [\A s \in Saves : Shown(s)]_editor =>
        [\A s \in Saves : s \in Serving /\ saves'[s] # saves[s] /\ saves'[s] # None =>
            LET e == saves[s].sent
                copy == saves[s].copy
            IN
            /\ Keys(tags \cap copy) \cap Keys(Chips(e)) \subseteq Keys(tags')
            /\ saves'[s].answer = "ok" /\ saves'[s].known /\ copy = e.current /\ copy \subseteq tags \cup Found =>
                    NamesOf(tags') = NamesOf(Chips(e))]_editor
    BY DEF AsShown
<1> QED  BY <1>2, <1>3, EditorAlways, PTL DEF Spec, SaveMeansWhatItShows
==================================================================================
