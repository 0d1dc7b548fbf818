----------------------------- MODULE FileIndexStore -----------------------------
(***************************************************************************)
(* The file index store of pkg/archive/manager, with the manager's calls   *)
(* above it and the localfs storage below, for the record of one archive.  *)
(*                                                                         *)
(* manager.Put and Register look the record up and then Update or Create   *)
(* it.  Both write the new record to <id>.json.tmp and move that file to   *)
(* <id>.json, an Update after it has deleted the old one.  The name of the *)
(* temporary file is the same for everybody, and nothing locks the files.  *)
(* Of the storage's errors the model has those of writing the temporary    *)
(* file (a full disk) and of a file that is missing.                       *)
(***************************************************************************)
CONSTANTS
    Clients,    \* goroutines or processes that use the index
    Metas,      \* records they write
    Ops,        \* manager operations they use: get, save (Put), register, delete
    Crashes,    \* a client may die in a call
    None        \* "no file", "no record", "no client"

ASSUME IndexAssumption ==
    /\ Ops \subseteq {"get", "save", "register", "delete"} /\ Ops # {}
    /\ Crashes \in BOOLEAN
    /\ None \notin Metas \cup Clients /\ Metas # {}

VARIABLES
    file,       \* content of <id>.json
    tmp,        \* content of <id>.json.tmp
    pc,         \* [Clients -> control point]
    op,         \* [Clients -> the operation called last]
    arg,        \* [Clients -> the record it is to write]
    replacing,  \* [Clients -> it is in Update, not in Create]
    result,     \* [Clients -> what the call returns]
    alone       \* history: the client whose call no other has overlapped

vars == <<file, tmp, pc, op, arg, replacing, result, alone>>

Goto(c, where) == pc' = [pc EXCEPT ![c] = where]

\* The call of c is about to return r.
Returns(c, r) == Goto(c, "return") /\ result' = [result EXCEPT ![c] = r]

-------------------------------------------------------------------------------
Init ==
    /\ file \in Metas \cup {None}
    /\ tmp = None
    /\ pc = [c \in Clients |-> "idle"]
    /\ op \in [Clients -> Ops]
    /\ arg \in [Clients -> Metas]
    /\ replacing = [c \in Clients |-> FALSE]
    /\ result = [c \in Clients |-> None]
    /\ alone = None

Begin(c) ==
    /\ pc[c] = "idle"
    /\ \E o \in Ops, m \in Metas : op' = [op EXCEPT ![c] = o] /\ arg' = [arg EXCEPT ![c] = m]
    /\ Goto(c, "begun")
    /\ alone' = IF \A d \in Clients : pc[d] = "idle" THEN c ELSE None
    /\ UNCHANGED <<file, tmp, replacing, result>>

\* IndexStoreFS.Get: the file is opened and read as it was then.
Get(c) ==
    /\ pc[c] = "begun" /\ op[c] = "get"
    /\ Returns(c, file)
    /\ UNCHANGED <<file, tmp, op, arg, replacing, alone>>

\* Faulty variant: Register does not return when it finds a record.
LookUpGoesOn(c) ==
    /\ pc[c] = "begun" /\ op[c] \in {"save", "register"}
    /\ replacing' = [replacing EXCEPT ![c] = (file # None)]
    /\ Goto(c, "check")
    /\ UNCHANGED <<file, tmp, op, arg, result, alone>>

\* Put and Register start with a Get.
LookUp(c) ==
    /\ pc[c] = "begun" /\ op[c] \in {"save", "register"}
    /\ replacing' = [replacing EXCEPT ![c] = (file # None)]
    /\ IF op[c] = "register" /\ file # None
       THEN Returns(c, "exists")
       ELSE Goto(c, "check") /\ UNCHANGED result
    /\ UNCHANGED <<file, tmp, op, arg, alone>>

\* Exists, at the start of Update and Create.
CheckExists(c) ==
    /\ pc[c] = "check"
    /\ IF replacing[c] <=> file # None
       THEN Goto(c, "put") /\ UNCHANGED result
       ELSE Returns(c, IF replacing[c] THEN "notfound" ELSE "exists")
    /\ UNCHANGED <<file, tmp, op, arg, replacing, alone>>

\* st.Put cannot write the record and leaves the temporary file as it was.
PutFails(c) ==
    /\ pc[c] = "put"
    /\ Returns(c, "error")
    /\ UNCHANGED <<file, tmp, op, arg, replacing, alone>>

\* Faulty variant: st.Put without overwrite, whose error is not looked at: a temporary
\* file that is there already is taken for the new one.
PutFindsOld(c) ==
    /\ pc[c] = "put"
    /\ Goto(c, IF tmp = None THEN "write" ELSE IF replacing[c] THEN "delete" ELSE "move")
    /\ UNCHANGED <<file, tmp, op, arg, replacing, result, alone>>

\* st.Put with overwrite removes the old temporary file ...
PutRemoves(c) ==
    /\ pc[c] = "put"
    /\ tmp' = None
    /\ Goto(c, "write")
    /\ UNCHANGED <<file, op, arg, replacing, result, alone>>

\* ... and renames the new one to its place.
PutWrites(c) ==
    /\ pc[c] = "write"
    /\ tmp' = arg[c]
    /\ Goto(c, IF replacing[c] THEN "delete" ELSE "move")
    /\ UNCHANGED <<file, op, arg, replacing, result, alone>>

\* Update deletes the old record; an error is ignored.
DeleteOld(c) ==
    /\ pc[c] = "delete"
    /\ file' = None
    /\ Goto(c, "move")
    /\ UNCHANGED <<tmp, op, arg, replacing, result, alone>>

\* st.Move renames the temporary file, if it is still there.
Move(c) ==
    /\ pc[c] = "move"
    /\ IF tmp = None THEN Returns(c, "error") /\ UNCHANGED file
                     ELSE Returns(c, "ok") /\ file' = tmp
    /\ tmp' = None
    /\ UNCHANGED <<op, arg, replacing, alone>>

\* IndexStoreFS.Delete: Exists, then st.Delete.
CheckDelete(c) ==
    /\ pc[c] = "begun" /\ op[c] = "delete"
    /\ IF file = None THEN Returns(c, "ok") ELSE Goto(c, "remove") /\ UNCHANGED result
    /\ UNCHANGED <<file, tmp, op, arg, replacing, alone>>

Remove(c) ==
    /\ pc[c] = "remove"
    /\ Returns(c, IF file = None THEN "error" ELSE "ok")
    /\ file' = None
    /\ UNCHANGED <<tmp, op, arg, replacing, alone>>

Return(c) ==
    /\ pc[c] = "return"
    /\ Goto(c, "idle")
    /\ result' = [result EXCEPT ![c] = None]
    /\ UNCHANGED <<file, tmp, op, arg, replacing, alone>>

\* The process dies: the files stay as they are.
Crash(c) ==
    /\ Crashes /\ pc[c] # "idle"
    /\ Goto(c, "idle")
    /\ result' = [result EXCEPT ![c] = None]
    /\ UNCHANGED <<file, tmp, op, arg, replacing, alone>>

Step(c) ==
    \/ Begin(c) \/ Get(c) \/ LookUp(c) \/ CheckExists(c) \/ PutFails(c) \/ PutRemoves(c)
    \/ PutWrites(c) \/ DeleteOld(c) \/ Move(c) \/ CheckDelete(c) \/ Remove(c)
    \/ Return(c) \/ Crash(c)

Next == \E c \in Clients : Step(c)

Spec == Init /\ [][Next]_vars

-------------------------------------------------------------------------------
TypeOK ==
    /\ file \in Metas \cup {None} /\ tmp \in Metas \cup {None}
    /\ pc \in [Clients -> {"idle", "begun", "check", "put", "write", "delete", "move",
                           "remove", "return"}]
    /\ op \in [Clients -> Ops]
    /\ arg \in [Clients -> Metas]
    /\ replacing \in [Clients -> BOOLEAN]
    /\ result \in [Clients -> Metas \cup {None, "ok", "exists", "notfound", "error"}]
    /\ alone \in Clients \cup {None}

\* What a client whose call no other has overlapped may rely on: the others rest,
\* what it has looked up still holds, and the temporary file is its own.
AloneInv ==
    \A c \in Clients : c = alone =>
        /\ \A d \in Clients \ {c} : pc[d] = "idle"
        /\ pc[c] \in {"check", "put", "write", "delete", "move"} =>
              op[c] = "save" \/ (op[c] = "register" /\ ~replacing[c])
        /\ pc[c] \in {"check", "put", "write", "delete"} => (replacing[c] <=> file # None)
        /\ pc[c] = "delete" => replacing[c]
        /\ pc[c] = "move" => file = None
        /\ pc[c] \in {"delete", "move"} => tmp = arg[c]
        /\ pc[c] = "remove" => op[c] = "delete" /\ file # None

IInv == TypeOK /\ AloneInv

-------------------------------------------------------------------------------
\* A client that replaces the record and has deleted the old one: the call has had
\* its effect, although the new record is in the temporary file still.
Replaced(c) == pc[c] = "move" /\ replacing[c]

\* The record, the progress and the result of the calls, as IndexStore has them
\* when one call at a time is under way.
Record == IF \E c \in Clients : Replaced(c) THEN tmp ELSE file
Call   == [c \in Clients |-> IF pc[c] = "idle" THEN "idle"
                             ELSE IF pc[c] = "return" \/ Replaced(c) THEN "done"
                             ELSE "called"]
Result == [c \in Clients |-> IF Replaced(c) THEN "ok" ELSE result[c]]

\* The step that ends the call of c gives it the effect that its result tells.
TakesEffect(c) ==
    \/ op[c] = "get" /\ result'[c] = file /\ file' = file
    \/ op[c] \in {"save", "register"} /\ result'[c] = "ok" /\ file' = arg[c]
    \/ op[c] = "register" /\ result'[c] = "exists" /\ file # None /\ file' = file
    \/ /\ op[c] \in {"save", "register"} /\ result'[c] = "error"
       /\ file' = file /\ (replacing[c] <=> file # None)
    \/ op[c] = "delete" /\ result'[c] = "ok" /\ file' = None

\* A call that no other overlaps does what it says, whatever overlapping calls and
\* crashes have left in the files before it: no temporary file of another becomes the
\* record, Put and Register end with the record they were called with or with an
\* error and the record as it was, Register replaces nothing, Delete leaves nothing.
AloneTakesEffect ==
    [][\A c \in Clients : c = alone /\ pc[c] # "return" /\ pc'[c] = "return" =>
            TakesEffect(c)]_vars
===============================================================================
