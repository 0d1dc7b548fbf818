---------------------------- MODULE ArchiveManager ----------------------------
(***************************************************************************)
(* The archive manager of pkg/archive/manager for one archive: the local   *)
(* file, its replicas on storage backends, and the index record that says  *)
(* which checksum the archive has and which copies are healthy.            *)
(*                                                                         *)
(* Check, ReplicateMore, ApplyRetention and Archive read the record, work  *)
(* on a copy of it through many slow steps, and write the copy back whole. *)
(* Nothing locks the record: the server's scheduler, its handlers and the  *)
(* command line run them concurrently, and a process may die in between.   *)
(*                                                                         *)
(* A file's content is a version of the archive, or Bad.  The checksum of  *)
(* the record is the version it was computed from.                         *)
(***************************************************************************)
EXTENDS Integers, FiniteSets

CONSTANTS
    Clients,      \* goroutines or processes that call the manager
    Backends,     \* storage backends of m.Replicates()
    Verifying,    \* those that compare a Put with the expected ETag, report
                  \* ETags and save a Get to the path asked for (baidupcs);
                  \* the others (localfs) do none of it
    Versions,     \* contents that archiving produces
    Ops,          \* operations the clients use
    Faults,       \* copies that fail while no client works: local, replica
    PutAttempts,  \* Put is tried three times
    None          \* "no backend", "no client"

Missing == -1
Bad == 0
Contents == Versions \cup {Missing, Bad}

ASSUME ManagerAssumption ==
    /\ IsFiniteSet(Backends)
    /\ Verifying \subseteq Backends /\ None \notin Backends \cup Clients
    /\ Versions \subseteq Nat \ {0}
    /\ Ops \subseteq {"check", "force", "replicate", "retention", "archive"}
    /\ Faults \subseteq {"local", "replica"}
    /\ PutAttempts \in Nat \ {0}

VARIABLES
    local,    \* content of the local archive file
    replica,  \* [Backends -> content of the replica]
    index,    \* the index record: ArchiveMeta with checksum, health, locators
    pc,       \* [Clients -> control point]
    op,       \* [Clients -> the operation it runs]
    meta,     \* [Clients -> its copy of the record]
    todo,     \* [Clients -> backends its loop has still to visit]
    backend,  \* [Clients -> the backend it works on]
    tries,    \* [Clients -> Puts that have not succeeded in this replicate]
    alone     \* history: the client whose operation began when no other was under way,
              \* and none has begun since

copies == <<local, replica>>
vars == <<local, replica, index, pc, op, meta, todo, backend, tries, alone>>

Metas == [sum : Versions, healthy : BOOLEAN,
          locs : [Backends -> {"none", "healthy", "unhealthy"}]]

Health(good) == IF good THEN "healthy" ELSE "unhealthy"

\* The record m with locator b marked h.
Mark(m, b, h) == [m EXCEPT !.locs[b] = h]

Goto(c, where) == pc' = [pc EXCEPT ![c] = where]

Located(m) == {b \in Backends : m.locs[b] # "none"}

-------------------------------------------------------------------------------
\* An archive that was registered and replicated to some of the backends.
Init ==
    /\ \E v \in Versions, s \in SUBSET Backends :
        /\ local = v
        /\ replica = [b \in Backends |-> IF b \in s THEN v ELSE Missing]
        /\ index = [sum |-> v, healthy |-> TRUE,
                    locs |-> [b \in Backends |-> IF b \in s THEN "healthy" ELSE "none"]]
    /\ pc = [c \in Clients |-> "idle"]
    /\ op = [c \in Clients |-> "none"]
    /\ meta = [c \in Clients |-> index]
    /\ todo = [c \in Clients |-> {}]
    /\ backend = [c \in Clients |-> None]
    /\ tries = [c \in Clients |-> 0]
    /\ alone = None

\* m.Get or m.List: the client takes a copy of the record.
Begin(c, o, where) ==
    /\ pc[c] = "idle" /\ o \in Ops
    /\ op' = [op EXCEPT ![c] = o]
    /\ meta' = [meta EXCEPT ![c] = index]
    /\ alone' = IF \A d \in Clients : pc[d] = "idle" THEN c ELSE None
    /\ Goto(c, where)
    /\ UNCHANGED <<copies, index, tries>>

BeginCheck(c) ==
    /\ \E o \in {"check", "force"} : Begin(c, o, "local")
    /\ UNCHANGED <<todo, backend>>

\* checksumFromFile, and the locators that the loop will not skip.
CheckLocal(c) ==
    /\ pc[c] = "local"
    /\ meta' = [meta EXCEPT ![c].healthy = (local = meta[c].sum)]
    /\ todo' = [todo EXCEPT ![c] = {b \in Located(meta[c]) :
                                    op[c] = "force" \/ meta[c].locs[b] # "healthy"}]
    /\ Goto(c, "verify")
    /\ UNCHANGED <<copies, index, op, alone, backend, tries>>

\* The locator of b is decided; the loop goes on.
Decide(c, b, good) ==
    /\ meta' = [meta EXCEPT ![c] = Mark(@, b, Health(good))]
    /\ todo' = [todo EXCEPT ![c] = @ \ {b}]
    /\ Goto(c, "verify")

\* Faulty variant: the replica is downloaded over the local file always.
SaveLocalAlways(c, b) ==
    local' = IF b \in Verifying /\ replica[b] # Missing THEN replica[b] ELSE local

\* checksumFromStorage with savePath: while the local file is unhealthy, a
\* backend that saves the download writes the replica over it, good or bad.
SaveLocal(c, b) ==
    local' = IF ~meta[c].healthy /\ b \in Verifying /\ replica[b] # Missing
             THEN replica[b] ELSE local

\* One locator of Check.  A bad replica of a healthy local file is replicated
\* again, every other one is decided at once.
Verify(c) ==
    /\ pc[c] = "verify"
    /\ \E b \in todo[c] :
        /\ SaveLocal(c, b)
        /\ backend' = [backend EXCEPT ![c] = b]
        /\ IF meta[c].healthy /\ replica[b] # meta[c].sum
           THEN Goto(c, "mark") /\ UNCHANGED <<meta, todo>>
           ELSE Decide(c, b, replica[b] = meta[c].sum)
    /\ UNCHANGED <<replica, index, op, alone, tries>>

\* A backend or a file cannot be read: Check returns without writing the record.
CheckFails(c) ==
    /\ pc[c] \in {"local", "recheck"} \/ (pc[c] = "verify" /\ todo[c] # {})
    /\ Goto(c, "idle")
    /\ UNCHANGED <<copies, index, op, alone, meta, todo, backend, tries>>

\* The second checksumFromStorage, after replicate has succeeded or failed.
Recheck(c) ==
    /\ pc[c] = "recheck"
    /\ Decide(c, backend[c], replica[backend[c]] = meta[c].sum)
    /\ UNCHANGED <<copies, index, op, alone, backend, tries>>

\* m.Put of the whole record at the end of Check.
CheckPut(c) ==
    /\ pc[c] = "verify" /\ todo[c] = {}
    /\ index' = meta[c]
    /\ Goto(c, "idle")
    /\ UNCHANGED <<copies, op, alone, meta, todo, backend, tries>>

-------------------------------------------------------------------------------
(* replicate, called by Check, by ReplicateMore and by Archive.             *)

BeginReplicate(c) ==
    /\ Begin(c, "replicate", "mark")
    /\ \E b \in Backends : backend' = [backend EXCEPT ![c] = b]
    /\ UNCHANGED todo

\* Where replicate returns to, with or without an error: Check logs the error
\* and goes on, Archive goes on only without one.
ReplicateReturns(c, ok) ==
    Goto(c, CASE op[c] \in {"check", "force"} -> "recheck"
              [] op[c] = "archive" /\ ok      -> "replicas"
              [] OTHER                        -> "idle")

\* Faulty variant: the locator keeps its mark while the replica is written.
MarkUnhealthyLate(c) ==
    /\ pc[c] = "mark"
    /\ tries' = [tries EXCEPT ![c] = 0]
    /\ IF local = Missing THEN ReplicateReturns(c, FALSE) ELSE Goto(c, "put")
    /\ UNCHANGED <<copies, index, op, alone, meta, todo, backend>>

\* The locator is marked unhealthy and the record written before the replica
\* is touched.  The file is opened; when it is missing replicate returns.
MarkUnhealthy(c) ==
    /\ pc[c] = "mark"
    /\ meta' = [meta EXCEPT ![c] = Mark(@, backend[c], "unhealthy")]
    /\ index' = meta'[c]
    /\ tries' = [tries EXCEPT ![c] = 0]
    /\ IF local = Missing THEN ReplicateReturns(c, FALSE) ELSE Goto(c, "put")
    /\ UNCHANGED <<copies, op, alone, todo, backend>>

\* Faulty variant: Put is tried until it succeeds.
PutFailedAgain(c) ==
    /\ tries' = [tries EXCEPT ![c] = @ + 1]
    /\ UNCHANGED pc

\* A Put that counts as failed; after the last one replicate returns the error.
PutFailed(c) ==
    /\ tries' = [tries EXCEPT ![c] = @ + 1]
    /\ IF tries[c] + 1 < PutAttempts THEN UNCHANGED pc ELSE ReplicateReturns(c, FALSE)

\* What Put reads from the open file: its present content, or any content that
\* it may have had when it has been removed meanwhile.
Read == IF local = Missing THEN Versions \cup {Bad} ELSE {local}

\* dst.Put reports an error.  A verifying backend refuses a file that has not
\* the expected checksum; otherwise the error may come before or after the
\* replica was written, and localfs removes the old replica before it renames
\* the new one to its place.
PutError(c) ==
    /\ pc[c] = "put"
    /\ \E x \in Read :
        /\ \/ UNCHANGED replica
           \/ /\ backend[c] \in Verifying => x = meta[c].sum
              /\ replica' = [replica EXCEPT ![backend[c]] = x]
           \/ /\ backend[c] \notin Verifying
              /\ replica' = [replica EXCEPT ![backend[c]] = Missing]
    /\ PutFailed(c)
    /\ UNCHANGED <<local, index, op, alone, meta, todo, backend>>

\* The replica is written and has the checksum of the record.
PutGood(c) ==
    /\ pc[c] = "put"
    /\ meta[c].sum \in Read
    /\ replica' = [replica EXCEPT ![backend[c]] = meta[c].sum]
    /\ Goto(c, "written")
    /\ UNCHANGED <<local, index, op, alone, meta, todo, backend, tries>>

\* localfs has written a file with another checksum.  This is tried again, but
\* it is no error: after the last attempt the loop ends as if it had succeeded.
PutMismatch(c) ==
    /\ pc[c] = "put" /\ backend[c] \notin Verifying
    /\ \E x \in Read \ {meta[c].sum} : replica' = [replica EXCEPT ![backend[c]] = x]
    /\ tries' = [tries EXCEPT ![c] = @ + 1]
    /\ Goto(c, IF tries[c] + 1 < PutAttempts THEN "put" ELSE "written")
    /\ UNCHANGED <<local, index, op, alone, meta, todo, backend>>

\* The locator is marked healthy and the record written.
MarkHealthy(c) ==
    /\ pc[c] = "written"
    /\ meta' = [meta EXCEPT ![c] = Mark(@, backend[c], "healthy")]
    /\ index' = meta'[c]
    /\ ReplicateReturns(c, TRUE)
    /\ UNCHANGED <<copies, op, alone, todo, backend, tries>>

-------------------------------------------------------------------------------
\* Faulty variant: any locator will do.
BeginRetentionAnyReplica(c) ==
    /\ Begin(c, "retention", "remove")
    /\ UNCHANGED <<todo, backend>>

\* ApplyRetention goes on only with a locator that is marked healthy.
BeginRetention(c) ==
    /\ Begin(c, "retention", "remove")
    /\ \E b \in Backends : index.locs[b] = "healthy"
    /\ UNCHANGED <<todo, backend>>

RemoveLocal(c) ==
    /\ pc[c] = "remove"
    /\ local' = Missing
    /\ Goto(c, "removed")
    /\ UNCHANGED <<replica, index, op, alone, meta, todo, backend, tries>>

RetentionPut(c) ==
    /\ pc[c] = "removed"
    /\ meta' = [meta EXCEPT ![c].healthy = FALSE]
    /\ index' = meta'[c]
    /\ Goto(c, "idle")
    /\ UNCHANGED <<copies, op, alone, todo, backend, tries>>

-------------------------------------------------------------------------------
\* Archive reads the old record for its history only.
BeginArchive(c) ==
    /\ Begin(c, "archive", "archive")
    /\ UNCHANGED <<todo, backend>>

\* The archiver writes the local file, and its checksum goes into a new record
\* without locators.
WriteArchive(c) ==
    /\ pc[c] = "archive"
    /\ \E v \in Versions :
        /\ local' = v
        /\ meta' = [meta EXCEPT ![c] = [sum |-> v, healthy |-> TRUE,
                                        locs |-> [b \in Backends |-> "none"]]]
    /\ Goto(c, "register")
    /\ UNCHANGED <<replica, index, op, alone, todo, backend, tries>>

\* m.Put of the new record; then the loop over m.Replicates(), if asked for.
ArchivePut(c) ==
    /\ pc[c] = "register"
    /\ index' = meta[c]
    /\ \E s \in {{}, Backends} : todo' = [todo EXCEPT ![c] = s]
    /\ Goto(c, "replicas")
    /\ UNCHANGED <<copies, op, alone, meta, backend, tries>>

NextReplica(c) ==
    /\ pc[c] = "replicas"
    /\ \E b \in todo[c] :
        /\ backend' = [backend EXCEPT ![c] = b]
        /\ todo' = [todo EXCEPT ![c] = @ \ {b}]
    /\ Goto(c, "mark")
    /\ UNCHANGED <<copies, index, op, alone, meta, tries>>

ArchiveReturns(c) ==
    /\ pc[c] = "replicas" /\ todo[c] = {}
    /\ Goto(c, "idle")
    /\ UNCHANGED <<copies, index, op, alone, meta, todo, backend, tries>>

-------------------------------------------------------------------------------
\* The process dies or its context is canceled: the operation stops where it is.
Crash(c) ==
    /\ pc[c] # "idle"
    /\ Goto(c, "idle")
    /\ UNCHANGED <<copies, index, op, alone, meta, todo, backend, tries>>

\* A copy is corrupted or lost while no operation is under way.
Fault ==
    /\ \A c \in Clients : pc[c] = "idle"
    /\ \/ "local" \in Faults /\ local' \in {Missing, Bad} /\ UNCHANGED replica
       \/ /\ "replica" \in Faults
          /\ \E b \in Backends, x \in {Missing, Bad} : replica' = [replica EXCEPT ![b] = x]
          /\ UNCHANGED local
    /\ UNCHANGED <<index, pc, op, alone, meta, todo, backend, tries>>

-------------------------------------------------------------------------------
Check(c) == BeginCheck(c) \/ CheckLocal(c) \/ Verify(c) \/ CheckFails(c) \/ Recheck(c) \/ CheckPut(c)

Replicate(c) == \/ BeginReplicate(c) \/ MarkUnhealthy(c) \/ PutError(c) \/ PutGood(c)
                \/ PutMismatch(c) \/ MarkHealthy(c)

ApplyRetention(c) == BeginRetention(c) \/ RemoveLocal(c) \/ RetentionPut(c)

Archive(c) == \/ BeginArchive(c) \/ WriteArchive(c) \/ ArchivePut(c)
              \/ NextReplica(c) \/ ArchiveReturns(c)

Step(c) == Check(c) \/ Replicate(c) \/ ApplyRetention(c) \/ Archive(c) \/ Crash(c)

Next == Fault \/ \E c \in Clients : Step(c)

Spec == Init /\ [][Next]_vars

-------------------------------------------------------------------------------
TypeOK ==
    /\ local \in Contents
    /\ replica \in [Backends -> Contents]
    /\ index \in Metas
    /\ pc \in [Clients -> {"idle", "local", "verify", "recheck", "mark", "put", "written",
                           "remove", "removed", "archive", "register", "replicas"}]
    /\ op \in [Clients -> Ops \cup {"none"}]
    /\ meta \in [Clients -> Metas]
    /\ todo \in [Clients -> SUBSET Backends]
    /\ backend \in [Clients -> Backends \cup {None}]
    /\ tries \in [Clients -> 0 .. PutAttempts]
    /\ alone \in Clients \cup {None}

\* Some copy, the local file or a replica, has the content of the record: the
\* archive can be restored.
GoodCopy == local = index.sum \/ \E b \in Backends : replica[b] = index.sum

\* No step of the manager destroys the last good copy of the archive: whatever
\* concurrent checks do with records and verdicts that are out of date, only a
\* fault loses data.
GoodCopySurvives == [][GoodCopy /\ ~Fault => GoodCopy']_vars

\* The record calls a replica healthy that is not.
WrongMark(b) == index.locs[b] = "healthy" /\ replica[b] # index.sum

\* A Put of ReplicateMore that can spoil a replica: the file is not what the record says,
\* nobody looks at it, and the backend takes it.
WrongFile(c) ==
    op[c] = "replicate" /\ backend[c] \notin Verifying /\ local # index.sum

\* An operation that no other overlaps gives up the last good copy of the archive
\* in three places only: archiving again moves the new file over the old one before
\* it writes the record, retention believes a mark that had become wrong before
\* it began, and ReplicateMore may put a wrong file over a good replica.  No check,
\* no interrupted operation and no failed Put does, in whatever state faults, crashes
\* and earlier operations have left file, replicas and record
\* (Archive, ApplyRetention, replicate, Check).
LossesAreKnown ==
    [][\A c \in Clients :
        alone = c /\ GoodCopy /\ ~GoodCopy' =>
            \/ Fault
            \/ WriteArchive(c)
            \/ RemoveLocal(c) /\ \E b \in Backends : WrongMark(b)
            \/ (PutError(c) \/ PutMismatch(c)) /\ WrongFile(c)]_vars

\* A mark in the record turns wrong by a fault, or when ReplicateMore has put a wrong
\* file three times; otherwise never, neither while an operation that no other overlaps
\* marks, writes and marks again, nor where a crash or a failed Put stops it
\* (replicate, Check, ApplyRetention, Archive).
MarksStayTrue ==
    [][\A c \in Clients, b \in Backends :
        alone = c /\ WrongMark(b)' =>
            \/ WrongMark(b)
            \/ Fault
            \/ MarkHealthy(c) /\ backend[c] = b /\ WrongFile(c)]_vars
===============================================================================
