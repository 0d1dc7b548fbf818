------------------------------- MODULE IndexStore -------------------------------
(***************************************************************************)
(* What the archive manager expects of an index store, for the record of   *)
(* one archive: a call takes effect at once, at some moment between its    *)
(* start and its return, or fails without an effect.  ArchiveManager reads *)
(* and writes the record in this way.  A process may die in a call; a Save *)
(* that is interrupted may take the record with it.                        *)
(***************************************************************************)
CONSTANTS
    Clients,  \* goroutines or processes that use the index
    Metas,    \* records they write
    Ops,      \* operations they use
    None      \* "no record"

VARIABLES
    record,  \* the record, or None
    call,    \* [Clients -> idle, called, or done: it has had its effect]
    op,      \* [Clients -> the operation called last]
    arg,     \* [Clients -> the record it is to write]
    result   \* [Clients -> what the call returns]

vars == <<record, call, op, arg, result>>

-------------------------------------------------------------------------------
Init ==
    /\ record \in Metas \cup {None}
    /\ call = [c \in Clients |-> "idle"]
    /\ op \in [Clients -> Ops]
    /\ arg \in [Clients -> Metas]
    /\ result = [c \in Clients |-> None]

Begin(c) ==
    /\ call[c] = "idle"
    /\ \E o \in Ops, m \in Metas : op' = [op EXCEPT ![c] = o] /\ arg' = [arg EXCEPT ![c] = m]
    /\ call' = [call EXCEPT ![c] = "called"]
    /\ UNCHANGED <<record, result>>

\* The call has its effect and will return r.
Take(c, r) ==
    /\ call[c] = "called"
    /\ call' = [call EXCEPT ![c] = "done"]
    /\ result' = [result EXCEPT ![c] = r]
    /\ UNCHANGED <<op, arg>>

Get(c) == op[c] = "get" /\ Take(c, record) /\ UNCHANGED record

Save(c) == op[c] = "save" /\ Take(c, "ok") /\ record' = arg[c]

Register(c) ==
    /\ op[c] = "register"
    /\ \/ record = None /\ Take(c, "ok") /\ record' = arg[c]
       \/ record # None /\ Take(c, "exists") /\ UNCHANGED record

Delete(c) == op[c] = "delete" /\ Take(c, "ok") /\ record' = None

Fail(c) == op[c] \in {"save", "register"} /\ Take(c, "error") /\ UNCHANGED record

Return(c) ==
    /\ call[c] = "done"
    /\ call' = [call EXCEPT ![c] = "idle"]
    /\ result' = [result EXCEPT ![c] = None]
    /\ UNCHANGED <<record, op, arg>>

\* The process dies: the call has had its effect or not, or, if it is a Save that
\* replaces a record, has left none.
Crash(c) ==
    /\ call[c] # "idle"
    /\ call' = [call EXCEPT ![c] = "idle"]
    /\ result' = [result EXCEPT ![c] = None]
    /\ UNCHANGED record \/ (op[c] = "save" /\ record' = None)
    /\ UNCHANGED <<op, arg>>

Next == \E c \in Clients :
    Begin(c) \/ Get(c) \/ Save(c) \/ Register(c) \/ Delete(c) \/ Fail(c) \/ Return(c) \/ Crash(c)

Spec == Init /\ [][Next]_vars
===============================================================================
