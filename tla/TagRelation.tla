------------------------------- MODULE TagRelation -------------------------------
(***************************************************************************)
(* The relation manager of a tag page: a dialog that collects tags into a  *)
(* group, saves the group, and deletes groups.  The groups on the server   *)
(* are kept by an id of their own.                                         *)
(***************************************************************************)
EXTENDS Naturals, FiniteSets, Modal

CONSTANTS Offered,   \* tags the search can offer: records with an id and a name
          Typed,     \* names that can be typed
          Source,    \* the tag the page is about
          GroupIds,  \* bound: groups ever stored
          Calls,     \* the requests that can be under way together
          MaxChips   \* bound: tags collected

\* Several tags of one name may be offered: a name typed in gets an id of its own.
ASSUME OfferedAssumption ==
    \A t \in Offered : t \in [id : Nat, name : {u.name : u \in Offered}]

VARIABLES
    groups,     \* the stored groups: a sequence of tags, or None
    gone,       \* ids of groups deleted
    chips,      \* the tags collected in the dialog last opened
    listed,     \* the groups it lists
    calls,      \* requests under way
    reloading   \* the page will be loaded again

relation == <<groups, gone, chips, listed, calls, reloading>>

\* The groups stored before were made here, of two tags offered.
Pairs == {p \in {<<t, u>> : t, u \in Offered} : p[1].name # p[2].name}

RelationInit ==
    /\ groups \in [GroupIds -> Pairs \cup {None}]
    /\ gone = {} /\ chips = <<>> /\ listed = {}
    /\ calls = [c \in Calls |-> None]
    /\ reloading = FALSE

Stored == {g \in GroupIds : groups[g] # None}

\* GetTagRelations lists the groups the tag is in; a group saved from its page is not one of them.
RelationsOf(t) == {g \in Stored : t \in ToSet(groups[g])}

openTagRelationManager(d) ==
    /\ ShowModal(d) /\ \A c \in Calls : calls[c] # None => calls[c].from # d
    /\ chips' = <<>> /\ listed' = RelationsOf(Source)
    /\ UNCHANGED <<groups, gone, calls, reloading>>

\* The dialog whose chips are modelled is the one opened last.
Manager == {d \in Dialogs : IsOpen(d) /\ \A e \in Dialogs : IsOpen(e) => e = d}

SameTag(a, b) == a.name = b.name \/ a.id = b.id

AddChip(t) ==
    /\ Len(chips) < MaxChips
    /\ chips' = Append(chips, t)
    /\ UNCHANGED <<modal, groups, gone, listed, calls, reloading>>

\* An item of the search.
PickChip(t) ==
    /\ Manager # {} /\ t.name # Source.name
    /\ ~\E i \in DOMAIN chips : SameTag(chips[i], t)
    /\ AddChip(t)

\* As if a name were looked for among the tags typed only.
NewAmongNew(n) == ~\E i \in DOMAIN chips : chips[i].id = 0 /\ chips[i].name = n
NewToGroup(n) == ~\E i \in DOMAIN chips : chips[i].name = n

\* relAddNewBtn, with the name typed.
AddNewChip(n) ==
    /\ Manager # {} /\ n # Source.name /\ NewToGroup(n)
    /\ AddChip([id |-> 0, name |-> n])

DropRelationChip ==
    /\ Manager # {}
    /\ \E i \in DOMAIN chips : chips' = RemoveAt(chips, i)
    /\ UNCHANGED <<modal, groups, gone, listed, calls, reloading>>

Call(request) ==
    /\ \E c \in Calls : calls[c] = None /\ calls' = [calls EXCEPT ![c] = request]
    /\ UNCHANGED <<modal, groups, gone, chips, listed, reloading>>

EnoughTags == Len(chips) >= 2

\* relUpdateBtn keeps the mouse off the button, the length is tested again; nothing
\* stops a second click while the first is under way.
SaveGroup ==
    \E d \in Manager :
        EnoughTags /\ Call([from |-> d, op |-> "create", group |-> chips, id |-> None, answer |-> "none"])

\* The confirmation is answered with yes.
deleteRelationGroup(g) ==
    \E d \in Manager :
        g \in listed /\ Call([from |-> d, op |-> "delete", group |-> <<>>, id |-> g, answer |-> "none"])

ServeRelation(c) ==
    /\ calls[c] # None /\ calls[c].answer = "none"
    /\ \/ /\ calls[c].op = "create"
          /\ \E g \in GroupIds \ (Stored \cup gone) : groups' = [groups EXCEPT ![g] = calls[c].group]
          /\ calls' = [calls EXCEPT ![c].answer = "ok"] /\ UNCHANGED gone
       \/ /\ calls[c].op = "delete" /\ calls[c].id \in Stored
          /\ groups' = [groups EXCEPT ![calls[c].id] = None]
          /\ gone' = gone \cup {calls[c].id}
          /\ calls' = [calls EXCEPT ![c].answer = "ok"]
       \/ /\ calls' = [calls EXCEPT ![c].answer = "failed"]
          /\ UNCHANGED <<groups, gone>>
    /\ UNCHANGED <<modal, chips, listed, reloading>>

\* A group saved closes the dialog; both then load the page again, half a second later.
RelationAnswered(c) ==
    /\ calls[c] # None /\ calls[c].answer = "ok"
    /\ CloseModal(IF calls[c].op = "create" THEN {calls[c].from} ELSE {})
    /\ calls' = [calls EXCEPT ![c] = None]
    /\ chips' = (IF StaysOpen THEN chips ELSE <<>>) /\ listed' = (IF StaysOpen THEN listed ELSE {})
    /\ reloading' = TRUE
    /\ UNCHANGED <<groups, gone>>

RelationRefused(c) ==
    /\ calls[c] # None /\ calls[c].answer # "none"
    /\ calls' = [calls EXCEPT ![c] = None]
    /\ UNCHANGED <<modal, groups, gone, chips, listed, reloading>>

ReloadTagPage ==
    /\ reloading /\ reloading' = FALSE
    /\ shown' = [d \in Dialogs |-> "gone"] /\ dom' = <<>> /\ locked' = FALSE /\ keys' = {}
    /\ chips' = <<>> /\ listed' = {}
    /\ calls' = [c \in Calls |-> None]
    /\ UNCHANGED <<groups, gone>>

\* What was collected goes with the dialog.
RelationModal ==
    /\ ModalStep
    /\ chips' = (IF StaysOpen THEN chips ELSE <<>>) /\ listed' = (IF StaysOpen THEN listed ELSE {})
    /\ UNCHANGED <<groups, gone, calls, reloading>>

RelationNext ==
    \/ \E d \in Dialogs : openTagRelationManager(d)
    \/ \E t \in Offered : PickChip(t)
    \/ \E n \in Typed : AddNewChip(n)
    \/ DropRelationChip \/ SaveGroup \/ ReloadTagPage \/ RelationModal
    \/ \E g \in GroupIds : deleteRelationGroup(g)
    \/ \E c \in Calls : ServeRelation(c) \/ RelationAnswered(c) \/ RelationRefused(c)

--------------------------------------------------------------------------------

RelTag == [id : Nat, name : Typed \cup {t.name : t \in Offered}]
Request == [from : Dialogs, op : {"create", "delete"}, group : Seq(RelTag),
            id : GroupIds \cup {None}, answer : {"none", "ok", "failed"}]

RelationTypeOK ==
    /\ groups \in [GroupIds -> Seq(RelTag) \cup {None}]
    /\ gone \subseteq GroupIds /\ listed \subseteq GroupIds
    /\ chips \in Seq(RelTag) /\ reloading \in BOOLEAN
    /\ calls \in [Calls -> Request \cup {None}]

\* Every group a relation manager stored relates at least two tags, all of different
\* names, whichever way they were collected, dropped and typed in between (item.onclick,
\* relAddNewBtn, relCollectTags).
GroupsRelateTags ==
    \A g \in Stored :
        /\ Len(groups[g]) >= 2
        /\ \A i, j \in DOMAIN groups[g] : groups[g][i].name = groups[g][j].name => i = j
==================================================================================
