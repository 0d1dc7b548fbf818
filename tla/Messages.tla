-------------------------------- MODULE Messages ---------------------------------
(***************************************************************************)
(* The messages of a page: the toasts of the page's own scripts and the    *)
(* alerts of the site's, in one element, each closed by its own timer or   *)
(* by a click.  Jumping to a page that is not there gives a toast.         *)
(***************************************************************************)
EXTENDS Naturals, Sequences, SequencesExt, Filtering

CONSTANTS MaxAlerts,    \* bound: the messages that can exist together
          AlertLimit,   \* the alerts a new alert leaves alone: 5 in the code
          LastPage      \* the last page of the list on display

ASSUME MessagesAssumption == MaxAlerts \in Nat /\ AlertLimit \in Nat /\ LastPage \in Nat

Alerts == 1..MaxAlerts

VARIABLES
    messages,    \* the elements with class alert in #messages, in its order
    toasts,      \* those that showToast made
    opened,      \* those with class open
    armed,       \* those whose time is running
    closing,     \* those to be removed 100 ms after a click
    onList,      \* a list page, whose pages can be jumped to, or a gallery page
    jumpedTo     \* the page left for, 0 while it is not

alerts == <<messages, toasts, opened, armed, closing, onList, jumpedTo>>

MessagesInit ==
    /\ messages = <<>> /\ toasts = {} /\ opened = {} /\ armed = {} /\ closing = {}
    /\ onList \in BOOLEAN /\ jumpedTo = 0

Used == Range(messages) \cup armed \cup closing
\* The new element takes the first number that is free.
New(a) == a \notin Used /\ 1..a - 1 \subseteq Used

Add(a, left) == messages' = Append(left, a) /\ armed' = armed \cup {a}

showToast(a) ==
    /\ New(a)
    /\ Add(a, messages)
    /\ toasts' = toasts \cup {a} /\ opened' = opened \cup {a}
    /\ UNCHANGED <<closing, onList, jumpedTo>>

\* Clicks on elements of #messages: its listener closes them and removes them later, a
\* toast removes itself at once.
AfterClick(X) == Without(messages, X \cap toasts)

\* Those after the first ones, if there are more.
surplus ==
    IF Len(messages) > AlertLimit THEN Range(SubSeq(messages, AlertLimit + 1, Len(messages))) ELSE {}

showAlert(a) ==
    /\ New(a)
    /\ Add(a, AfterClick(surplus))
    /\ toasts' = toasts \ {a}
    /\ opened' = (opened \ surplus) \cup {a}
    /\ closing' = closing \cup surplus
    /\ UNCHANGED <<onList, jumpedTo>>

\* A second click starts a second removal, which fails and changes nothing.
Click(a) ==
    /\ a \in Range(messages)
    /\ messages' = AfterClick({a})
    /\ opened' = opened \ {a} /\ closing' = closing \cup {a}
    /\ UNCHANGED <<toasts, armed, onList, jumpedTo>>

TakeAway(a) ==
    /\ a \in closing /\ closing' = closing \ {a}
    /\ messages' = Without(messages, {a})
    /\ UNCHANGED <<toasts, opened, armed, onList, jumpedTo>>

\* As if the time being up only took the class away.
TimeUpFades(a) ==
    /\ a \in armed /\ armed' = armed \ {a}
    /\ messages' = AfterClick({a}) /\ opened' = opened \ {a}
    /\ UNCHANGED <<toasts, closing, onList, jumpedTo>>
\* A toast is removed, an alert clicked: outside the document that does nothing.
TimeUp(a) ==
    /\ a \in armed /\ armed' = armed \ {a}
    /\ messages' = AfterClick({a}) /\ opened' = opened \ {a}
    /\ closing' = closing \cup (({a} \cap Range(messages)) \ toasts)
    /\ UNCHANGED <<toasts, onList, jumpedTo>>

\* jumpToPage, jumpToTagPage: what is typed is a number of a page or it is not.
jumpToPage(page) ==
    IF page \in 1..LastPage
    THEN jumpedTo' = page /\ UNCHANGED <<messages, toasts, opened, armed, closing, onList>>
    ELSE \E a \in Alerts : showToast(a)

MessagesNext ==
    /\ jumpedTo = 0
    /\ \/ onList /\ \E page \in 0..LastPage + 1 : jumpToPage(page)
       \/ ~onList /\ \E a \in Alerts : showAlert(a)
       \/ \E a \in Alerts : showToast(a) \/ Click(a) \/ TakeAway(a) \/ TimeUp(a)

MessagesSpec == MessagesInit /\ [][MessagesNext]_alerts
--------------------------------------------------------------------------------

MessagesTypeOK ==
    /\ messages \in Seq(Alerts) /\ IsInjective(messages)
    /\ toasts \subseteq Alerts /\ opened \subseteq Range(messages)
    /\ armed \subseteq Alerts /\ closing \subseteq Alerts
    /\ onList \in BOOLEAN /\ jumpedTo \in 0..LastPage

\* No message stays for ever: one that is shown has its time running or its removal,
\* through clicks before, at and after its time, by the user and by newer alerts
\* (showToast, the site's alert and its closing listener).
MessagesEnd == Range(messages) \subseteq (armed \cup closing)
==================================================================================
