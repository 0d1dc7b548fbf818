------------------------- MODULE ArchiveManagerProofs -------------------------
(***************************************************************************)
(* Proofs about the archive manager, for any clients, backends, versions   *)
(* and faults: its types, that concurrent checks never destroy the last    *)
(* good copy of an archive, and where alone an operation that no other     *)
(* overlaps loses the last good copy or leaves a wrong mark.               *)
(***************************************************************************)
EXTENDS ArchiveManager, TLAPS

\* Inside replicate a client has a backend, and inside its loop a try left.
Replicating == {"mark", "put", "written", "recheck"}

InReplicate ==
    \A c \in Clients : /\ pc[c] \in Replicating => backend[c] \in Backends
                       /\ pc[c] = "put" => tries[c] < PutAttempts

TypeInv == TypeOK /\ InReplicate

-------------------------------------------------------------------------------
(* Records. *)

LEMMA MarkFacts ==
    ASSUME NEW m \in Metas, NEW b \in Backends, NEW good \in BOOLEAN
    PROVE  LET n == Mark(m, b, Health(good)) IN n \in Metas /\ n.sum = m.sum /\ n.healthy = m.healthy
  BY DEF Mark, Metas, Health

LEMMA MarkedFacts ==
    ASSUME NEW m \in Metas, NEW b \in Backends
    PROVE  /\ Mark(m, b, "unhealthy") \in Metas /\ Mark(m, b, "unhealthy").sum = m.sum
           /\ Mark(m, b, "unhealthy").healthy = m.healthy
           /\ Mark(m, b, "healthy") \in Metas /\ Mark(m, b, "healthy").sum = m.sum
           /\ Mark(m, b, "healthy").healthy = m.healthy
  BY MarkFacts DEF Health

LEMMA InitTypeInv == Init => TypeInv
  BY ManagerAssumption DEF Init, TypeInv, TypeOK, InReplicate, Metas, Contents, Replicating

-------------------------------------------------------------------------------
(* Every step keeps the types. *)

LEMMA CheckTypeInv ==
    ASSUME TypeInv, NEW c \in Clients, Check(c)
    PROVE  TypeInv'
<1> USE ManagerAssumption DEF TypeInv, TypeOK, InReplicate, Replicating, copies, Goto
<1>1. CASE BeginCheck(c)
  BY <1>1 DEF BeginCheck, Begin
<1>2. CASE CheckLocal(c)
  <2>1. [meta[c] EXCEPT !.healthy = (local = meta[c].sum)] \in Metas
    BY DEF Metas
  <2>2. meta' \in [Clients -> Metas]
    BY <1>2, <2>1 DEF CheckLocal
  <2>3. todo' \in [Clients -> SUBSET Backends]
    BY <1>2 DEF CheckLocal, Located
  <2> QED BY <1>2, <2>2, <2>3 DEF CheckLocal
<1>3. CASE Verify(c)
  <2>1. PICK b \in todo[c] :
          /\ SaveLocal(c, b)
          /\ backend' = [backend EXCEPT ![c] = b]
          /\ IF meta[c].healthy /\ replica[b] # meta[c].sum
             THEN Goto(c, "mark") /\ UNCHANGED <<meta, todo>>
             ELSE Decide(c, b, replica[b] = meta[c].sum)
    BY <1>3 DEF Verify
  <2>2. b \in Backends
    OBVIOUS
  <2>3. local' \in Contents
    BY <2>1, <2>2 DEF SaveLocal
  <2>4. Mark(meta[c], b, Health(replica[b] = meta[c].sum)) \in Metas
    BY <2>2, MarkFacts
  <2>5. UNCHANGED <<replica, index, op, alone, tries>>
    BY <1>3 DEF Verify
  <2>6. CASE meta[c].healthy /\ replica[b] # meta[c].sum
    BY <2>1, <2>2, <2>3, <2>5, <2>6
  <2>7. CASE ~(meta[c].healthy /\ replica[b] # meta[c].sum)
    BY <2>1, <2>2, <2>3, <2>4, <2>5, <2>7 DEF Decide
  <2> QED BY <2>6, <2>7
<1>4. CASE CheckFails(c)
  BY <1>4 DEF CheckFails
<1>5. CASE Recheck(c)
  <2>1. Mark(meta[c], backend[c], Health(replica[backend[c]] = meta[c].sum)) \in Metas
    BY <1>5, MarkFacts DEF Recheck
  <2> QED BY <1>5, <2>1 DEF Recheck, Decide
<1>6. CASE CheckPut(c)
  BY <1>6 DEF CheckPut
<1> QED BY <1>1, <1>2, <1>3, <1>4, <1>5, <1>6 DEF Check

LEMMA ReplicateTypeInv ==
    ASSUME TypeInv, NEW c \in Clients, Replicate(c)
    PROVE  TypeInv'
<1> USE ManagerAssumption DEF TypeInv, TypeOK, InReplicate, Replicating, copies, Goto
<1>1. CASE BeginReplicate(c)
  BY <1>1 DEF BeginReplicate, Begin
<1>2. CASE MarkUnhealthy(c)
  <2>1. Mark(meta[c], backend[c], "unhealthy") \in Metas
    BY <1>2, MarkedFacts DEF MarkUnhealthy
  <2> QED BY <1>2, <2>1 DEF MarkUnhealthy, ReplicateReturns
<1>3. CASE PutError(c)
  <2>1. backend[c] \in Backends /\ Read \subseteq Contents
    BY <1>3 DEF PutError, Read, Contents
  <2>2. replica' \in [Backends -> Contents]
    BY <1>3, <2>1 DEF PutError, Contents
  <2> QED BY <1>3, <2>1, <2>2 DEF PutError, PutFailed, ReplicateReturns
<1>4. CASE PutGood(c)
  BY <1>4 DEF PutGood, Metas, Contents
<1>5. CASE PutMismatch(c)
  <2>1. backend[c] \in Backends /\ Read \subseteq Contents
    BY <1>5 DEF PutMismatch, Read, Contents
  <2>2. replica' \in [Backends -> Contents]
    BY <1>5, <2>1 DEF PutMismatch
  <2> QED BY <1>5, <2>1, <2>2 DEF PutMismatch
<1>6. CASE MarkHealthy(c)
  <2>1. Mark(meta[c], backend[c], "healthy") \in Metas
    BY <1>6, MarkedFacts DEF MarkHealthy
  <2> QED BY <1>6, <2>1 DEF MarkHealthy, ReplicateReturns
<1> QED BY <1>1, <1>2, <1>3, <1>4, <1>5, <1>6 DEF Replicate

LEMMA RestTypeInv ==
    ASSUME TypeInv, NEW c \in Clients, ApplyRetention(c) \/ Archive(c) \/ Crash(c)
    PROVE  TypeInv'
<1> USE ManagerAssumption DEF TypeInv, TypeOK, InReplicate, Replicating, copies, Goto
<1>1. CASE BeginRetention(c)
  BY <1>1 DEF BeginRetention, Begin
<1>2. CASE RemoveLocal(c)
  BY <1>2 DEF RemoveLocal, Contents
<1>3. CASE RetentionPut(c)
  BY <1>3 DEF RetentionPut, Metas
<1>4. CASE BeginArchive(c)
  BY <1>4 DEF BeginArchive, Begin
<1>5. CASE WriteArchive(c)
  BY <1>5 DEF WriteArchive, Metas, Contents
<1>6. CASE ArchivePut(c)
  BY <1>6 DEF ArchivePut
<1>7. CASE NextReplica(c)
  BY <1>7 DEF NextReplica
<1>8. CASE ArchiveReturns(c)
  BY <1>8 DEF ArchiveReturns
<1>9. CASE Crash(c)
  BY <1>9 DEF Crash
<1> QED BY <1>1, <1>2, <1>3, <1>4, <1>5, <1>6, <1>7, <1>8, <1>9 DEF ApplyRetention, Archive

LEMMA FaultTypeInv == TypeInv /\ Fault => TypeInv'
  BY DEF TypeInv, TypeOK, InReplicate, Replicating, Fault, Contents

LEMMA NextTypeInv == TypeInv /\ [Next]_vars => TypeInv'
<1> SUFFICES ASSUME TypeInv, [Next]_vars PROVE TypeInv'
  OBVIOUS
<1>1. CASE Next
  BY <1>1, FaultTypeInv, CheckTypeInv, ReplicateTypeInv, RestTypeInv DEF Next, Step
<1>2. CASE UNCHANGED vars
  BY <1>2 DEF vars, TypeInv, TypeOK, InReplicate
<1> QED BY <1>1, <1>2

\* Every variable keeps its type: the loop over Puts ends after PutAttempts, and
\* replicate always has a backend to work on.
THEOREM TypeCorrect == Spec => []TypeOK
<1>1. Spec => []TypeInv
  BY InitTypeInv, NextTypeInv, PTL DEF Spec
<1> QED BY <1>1, PTL DEF TypeInv

-------------------------------------------------------------------------------
(***************************************************************************)
(* Checks never destroy the last good copy.  While a fault-free stretch    *)
(* lasts, a good copy is safe for one of two reasons: the local file is    *)
(* good and every check has found it so, hence none downloads over it; or  *)
(* a replica is good and no check has it as its target, hence none writes  *)
(* it.  Both reasons survive every step of every check.                    *)
(***************************************************************************)
CheckOnly == Ops \subseteq {"check", "force"}

AtWork == {"local", "verify"} \cup Replicating

Checking   == \A c \in Clients : pc[c] \in {"idle"} \cup AtWork
SumKept    == \A c \in Clients : pc[c] \in AtWork => meta[c].sum = index.sum
FileOpened == \A c \in Clients : pc[c] = "put" => local # Missing
AllHealthy == \A c \in Clients : pc[c] \in {"verify"} \cup Replicating => meta[c].healthy

Untouched(b)   == \A c \in Clients : pc[c] \in {"mark", "put"} => backend[c] # b
LocalSafe      == local = index.sum /\ AllHealthy
ReplicaSafe(b) == replica[b] = index.sum /\ Untouched(b)

SafeCopy == GoodCopy => LocalSafe \/ \E b \in Backends : ReplicaSafe(b)

CheckInv == TypeInv /\ Checking /\ SumKept /\ FileOpened /\ SafeCopy

\* What every step of a check keeps.
Keeps == /\ Checking' /\ SumKept' /\ FileOpened'
         /\ LocalSafe => LocalSafe'
         /\ \A b \in Backends : ReplicaSafe(b) => ReplicaSafe(b)'
         /\ GoodCopy' => GoodCopy

LEMMA CheckKeeps ==
    ASSUME CheckOnly, CheckInv, NEW c \in Clients, Check(c)
    PROVE  Keeps
<1> USE DEF CheckInv, TypeInv, TypeOK, InReplicate, Replicating, AtWork, Checking, SumKept,
            FileOpened, AllHealthy, LocalSafe, ReplicaSafe, Untouched, GoodCopy, Keeps, copies, Goto
<1>1. CASE BeginCheck(c)
  BY <1>1 DEF BeginCheck, Begin
<1>2. CASE CheckLocal(c)
  <2>1. /\ meta[c] \in Metas
        /\ meta'[c] = [meta[c] EXCEPT !.healthy = (local = meta[c].sum)]
    BY <1>2 DEF CheckLocal
  <2>2. meta'[c].sum = meta[c].sum /\ meta'[c].healthy = (local = meta[c].sum)
    BY <2>1 DEF Metas
  <2>3. /\ \A d \in Clients \ {c} : meta'[d] = meta[d] /\ pc'[d] = pc[d]
        /\ pc[c] = "local" /\ pc'[c] = "verify"
        /\ UNCHANGED <<local, replica, index, backend>>
    BY <1>2 DEF CheckLocal
  <2> HIDE DEF Metas
  <2> QED BY <2>2, <2>3
<1>3. CASE Verify(c)
  <2>1. PICK b \in todo[c] :
          /\ SaveLocal(c, b)
          /\ backend' = [backend EXCEPT ![c] = b]
          /\ IF meta[c].healthy /\ replica[b] # meta[c].sum
             THEN Goto(c, "mark") /\ UNCHANGED <<meta, todo>>
             ELSE Decide(c, b, replica[b] = meta[c].sum)
    BY <1>3 DEF Verify
  <2>2. b \in Backends /\ pc[c] = "verify" /\ UNCHANGED <<replica, index>>
    BY <1>3 DEF Verify
  <2>3. local' = local \/ (~meta[c].healthy /\ local' = replica[b] /\ local' # Missing)
    BY <2>1 DEF SaveLocal
  <2>4. /\ meta'[c].sum = meta[c].sum /\ meta'[c].healthy = meta[c].healthy
        /\ pc'[c] = "verify" \/ (pc'[c] = "mark" /\ replica[b] # meta[c].sum)
    <3>1. LET n == Mark(meta[c], b, Health(replica[b] = meta[c].sum))
          IN  n.sum = meta[c].sum /\ n.healthy = meta[c].healthy
      BY <2>2, MarkFacts
    <3>2. CASE meta[c].healthy /\ replica[b] # meta[c].sum
      BY <2>1, <2>2, <3>2
    <3>3. CASE ~(meta[c].healthy /\ replica[b] # meta[c].sum)
      BY <2>1, <2>2, <3>1, <3>3 DEF Decide
    <3> QED BY <3>2, <3>3
  <2>5. /\ \A d \in Clients \ {c} : meta'[d] = meta[d] /\ pc'[d] = pc[d] /\ backend'[d] = backend[d]
        /\ backend'[c] = b
    BY <2>1 DEF Decide
  <2> QED BY <2>2, <2>3, <2>4, <2>5
<1>4. CASE CheckFails(c)
  BY <1>4 DEF CheckFails
<1>5. CASE Recheck(c)
  <2>1. /\ meta'[c].sum = meta[c].sum /\ meta'[c].healthy = meta[c].healthy
        /\ pc[c] = "recheck" /\ pc'[c] = "verify"
        /\ UNCHANGED <<local, replica, index, backend>>
    BY <1>5, MarkFacts DEF Recheck, Decide
  <2>2. \A d \in Clients \ {c} : meta'[d] = meta[d] /\ pc'[d] = pc[d]
    BY <1>5 DEF Recheck, Decide
  <2> QED BY <2>1, <2>2
<1>6. CASE CheckPut(c)
  BY <1>6 DEF CheckPut
<1> QED BY <1>1, <1>2, <1>3, <1>4, <1>5, <1>6 DEF Check

LEMMA ReplicateKeeps ==
    ASSUME CheckOnly, CheckInv, NEW c \in Clients, Replicate(c)
    PROVE  Keeps
<1> USE DEF CheckInv, TypeInv, TypeOK, InReplicate, Replicating, AtWork, Checking, SumKept,
            FileOpened, AllHealthy, LocalSafe, ReplicaSafe, Untouched, GoodCopy, Keeps, copies, Goto
<1>1. CASE BeginReplicate(c)
  BY <1>1 DEF BeginReplicate, Begin, CheckOnly
<1>2. CASE MarkUnhealthy(c)
  <2>1. meta'[c] = Mark(meta[c], backend[c], "unhealthy") /\ index' = meta'[c]
    BY <1>2 DEF MarkUnhealthy
  <2>2. meta'[c].sum = meta[c].sum /\ meta'[c].healthy = meta[c].healthy /\ index'.sum = index.sum
    BY <1>2, <2>1, MarkedFacts DEF MarkUnhealthy
  <2>3. /\ \A d \in Clients \ {c} : meta'[d] = meta[d] /\ pc'[d] = pc[d]
        /\ pc[c] = "mark" /\ pc'[c] \in {"idle", "recheck", "put"}
        /\ pc'[c] = "put" => local # Missing
        /\ UNCHANGED <<local, replica, backend>>
    BY <1>2 DEF MarkUnhealthy, ReplicateReturns, CheckOnly
  <2> QED BY <2>2, <2>3
<1>3. ASSUME pc[c] = "put", NEW x, x = local \/ x = Missing,
             replica' = replica \/ replica' = [replica EXCEPT ![backend[c]] = x],
             pc' = [pc EXCEPT ![c] = pc'[c]], pc'[c] \in {"idle", "recheck", "put", "written"},
             UNCHANGED <<local, index, meta, backend>>
      PROVE  Keeps
  <2>1. \A b \in Backends : replica'[b] = replica[b] \/ (b = backend[c] /\ replica'[b] = x)
    BY <1>3
  <2>2. \A d \in Clients \ {c} : pc'[d] = pc[d]
    BY <1>3
  <2>3. index.sum # Missing
    BY ManagerAssumption DEF Metas, Missing
  <2> QED BY <1>3, <2>1, <2>2, <2>3
<1>4. CASE PutError(c)
  <2>1. Read = {local}
    BY <1>4 DEF PutError, Read
  <2>2. pc'[c] \in {"idle", "recheck", "put"} /\ pc' = [pc EXCEPT ![c] = pc'[c]]
    BY <1>4 DEF PutError, PutFailed, ReplicateReturns, CheckOnly
  <2>3. PICK x \in {local, Missing} : replica' = replica \/ replica' = [replica EXCEPT ![backend[c]] = x]
    BY <1>4, <2>1 DEF PutError
  <2> QED BY <1>3, <1>4, <2>2, <2>3 DEF PutError
<1>5. CASE PutGood(c)
  BY <1>3, <1>5 DEF PutGood, Read
<1>6. CASE PutMismatch(c)
  <2>1. Read = {local}
    BY <1>6 DEF PutMismatch, Read
  <2>2. pc'[c] \in {"put", "written"} /\ pc' = [pc EXCEPT ![c] = pc'[c]]
    BY <1>6 DEF PutMismatch
  <2> QED BY <1>3, <1>6, <2>1, <2>2 DEF PutMismatch
<1>7. CASE MarkHealthy(c)
  <2>1. meta'[c] = Mark(meta[c], backend[c], "healthy") /\ index' = meta'[c]
    BY <1>7 DEF MarkHealthy
  <2>2. meta'[c].sum = meta[c].sum /\ meta'[c].healthy = meta[c].healthy /\ index'.sum = index.sum
    BY <1>7, <2>1, MarkedFacts DEF MarkHealthy
  <2>3. /\ \A d \in Clients \ {c} : meta'[d] = meta[d] /\ pc'[d] = pc[d]
        /\ pc[c] = "written" /\ pc'[c] \in {"idle", "recheck"}
        /\ UNCHANGED <<local, replica, backend>>
    BY <1>7 DEF MarkHealthy, ReplicateReturns, CheckOnly
  <2> QED BY <2>2, <2>3
<1> QED BY <1>1, <1>2, <1>4, <1>5, <1>6, <1>7 DEF Replicate

\* Retention and archiving are not among the operations; a crash only stops.
LEMMA RestKeeps ==
    ASSUME CheckOnly, CheckInv, NEW c \in Clients, ApplyRetention(c) \/ Archive(c) \/ Crash(c)
    PROVE  Keeps
<1> USE DEF CheckInv, TypeInv, TypeOK, InReplicate, Replicating, AtWork, Checking, SumKept,
            FileOpened, AllHealthy, LocalSafe, ReplicaSafe, Untouched, GoodCopy, Keeps, copies, Goto
<1>1. ASSUME ApplyRetention(c) PROVE FALSE
  BY <1>1 DEF ApplyRetention, BeginRetention, Begin, RemoveLocal, RetentionPut, CheckOnly
<1>2. ASSUME Archive(c) PROVE FALSE
  BY <1>2 DEF Archive, BeginArchive, Begin, WriteArchive, ArchivePut, NextReplica, ArchiveReturns, CheckOnly
<1>3. CASE Crash(c)
  BY <1>3 DEF Crash
<1> QED BY <1>1, <1>2, <1>3

LEMMA StepKeeps == ASSUME CheckOnly, CheckInv, NEW c \in Clients, Step(c) PROVE Keeps
  BY CheckKeeps, ReplicateKeeps, RestKeeps DEF Step

LEMMA InitCheckInv == Init => CheckInv
<1> SUFFICES ASSUME Init PROVE CheckInv
  OBVIOUS
<1>1. TypeInv
  BY InitTypeInv
<1>2. \A c \in Clients : pc[c] = "idle"
  BY DEF Init
<1>3. SafeCopy
  BY <1>2 DEF SafeCopy, GoodCopy, LocalSafe, ReplicaSafe, AllHealthy, Untouched, Replicating
<1> QED BY <1>1, <1>2, <1>3 DEF CheckInv, Checking, SumKept, FileOpened, AtWork, Replicating

LEMMA NextCheckInv == CheckOnly /\ CheckInv /\ [Next]_vars => CheckInv'
<1> SUFFICES ASSUME CheckOnly, CheckInv, [Next]_vars PROVE CheckInv'
  OBVIOUS
<1>0. TypeInv'
  BY NextTypeInv DEF CheckInv
<1>1. ASSUME NEW c \in Clients, Step(c) PROVE CheckInv'
  <2>1. Keeps
    BY <1>1, StepKeeps
  <2>2. SafeCopy'
    BY <2>1 DEF Keeps, SafeCopy, CheckInv
  <2> QED BY <1>0, <2>1, <2>2 DEF Keeps, CheckInv
<1>2. CASE Fault
  <2>1. \A c \in Clients : pc'[c] = "idle"
    BY <1>2 DEF Fault
  <2>2. SafeCopy'
    BY <2>1 DEF SafeCopy, GoodCopy, LocalSafe, ReplicaSafe, AllHealthy, Untouched, Replicating
  <2> QED BY <1>0, <2>1, <2>2 DEF CheckInv, Checking, SumKept, FileOpened, AtWork, Replicating
<1>3. CASE UNCHANGED vars
  <2>1. UNCHANGED <<Checking, SumKept, FileOpened, SafeCopy>>
    BY <1>3 DEF vars, Checking, SumKept, FileOpened, SafeCopy, GoodCopy, LocalSafe, ReplicaSafe,
                AllHealthy, Untouched
  <2> QED BY <1>0, <2>1 DEF CheckInv
<1> QED BY <1>1, <1>2, <1>3 DEF Next

\* Concurrent checks of an archive, forced or not, interrupted anywhere, never
\* destroy its last good copy; only a fault can.
THEOREM ChecksKeepCopy == CheckOnly /\ Spec => GoodCopySurvives
<1> SUFFICES ASSUME CheckOnly PROVE Spec => GoodCopySurvives
  OBVIOUS
<1>1. CheckInv /\ [Next]_vars => [GoodCopy /\ ~Fault => GoodCopy']_vars
  <2> SUFFICES ASSUME CheckInv, Next, GoodCopy, ~Fault PROVE GoodCopy'
    OBVIOUS
  <2>1. PICK c \in Clients : Step(c)
    BY DEF Next
  <2>2. Keeps
    BY <2>1, StepKeeps
  <2>3. LocalSafe' \/ \E b \in Backends : ReplicaSafe(b)'
    BY <2>2 DEF Keeps, CheckInv, SafeCopy
  <2> QED BY <2>3 DEF LocalSafe, ReplicaSafe, GoodCopy
<1>2. CheckInv /\ [Next]_vars => CheckInv'
  BY NextCheckInv
<1> QED BY <1>1, <1>2, InitCheckInv, PTL DEF Spec, GoodCopySurvives

-------------------------------------------------------------------------------
(***************************************************************************)
(* An operation that no other overlaps, begun in whatever state faults,    *)
(* crashes and earlier operations have left: its copy of the record says   *)
(* what the record says, its marks are those of the record or have been    *)
(* checked, and a check or an archiver that writes replicas has seen that  *)
(* the file is right.                                                      *)
(***************************************************************************)
Trusted(m) == \A b \in Backends : m.locs[b] = "healthy" => replica[b] = m.sum \/ WrongMark(b)

SeenRight(c) ==
    /\ pc[c] \in {"local", "verify", "recheck"} => op[c] \in {"check", "force"}
    /\ pc[c] \in {"archive", "register", "replicas"} => op[c] = "archive"
    /\ pc[c] \in {"mark", "put", "written"} /\ op[c] # "replicate" => local = meta[c].sum
    /\ pc[c] \in {"mark", "put", "written"} /\ op[c] \in {"check", "force"} => meta[c].healthy
    /\ pc[c] = "recheck" => local = meta[c].sum /\ meta[c].healthy
    /\ pc[c] = "verify" /\ meta[c].healthy => local = meta[c].sum
    /\ pc[c] = "verify" /\ ~meta[c].healthy =>
        local # meta[c].sum \/ \E b \in Backends : replica[b] = meta[c].sum
    /\ pc[c] \in {"register", "replicas"} => local = meta[c].sum

Writing(c) ==
    /\ pc[c] \in {"put", "written"} =>
        /\ local # Missing
        /\ index.locs[backend[c]] # "healthy" /\ meta[c].locs[backend[c]] # "healthy"
    /\ pc[c] = "written" => replica[backend[c]] = meta[c].sum \/ WrongFile(c)
    /\ pc[c] = "remove" => \E b \in Backends : index.locs[b] = "healthy"

Working(c) ==
    pc[c] # "idle" =>
        /\ pc[c] # "register" => meta[c].sum = index.sum
        /\ Trusted(meta[c])
        /\ SeenRight(c)
        /\ Writing(c)

AloneInv ==
    /\ TypeInv
    /\ \A c \in Clients : alone = c => Working(c) /\ \A d \in Clients \ {c} : pc[d] = "idle"

\* What a step of an operation alone may do to the last copy and to the marks.
NoLoss(c) ==
    GoodCopy /\ ~GoodCopy' =>
        \/ WriteArchive(c)
        \/ RemoveLocal(c) /\ \E b \in Backends : WrongMark(b)
        \/ (PutError(c) \/ PutMismatch(c)) /\ WrongFile(c)

NoWrongMark(c) ==
    \A b \in Backends :
        WrongMark(b)' => \/ WrongMark(b)
                         \/ MarkHealthy(c) /\ backend[c] = b /\ WrongFile(c)

Sound(c) == Working(c)' /\ NoLoss(c) /\ NoWrongMark(c)

LEMMA AloneStart == Init => AloneInv
<1> SUFFICES ASSUME Init PROVE AloneInv
  OBVIOUS
<1>1. TypeInv /\ alone = None /\ None \notin Clients
  BY InitTypeInv, ManagerAssumption DEF Init
<1> QED BY <1>1 DEF AloneInv

\* Nothing is written: only the client's own variables change.
LEMMA AloneMoves ==
    ASSUME NEW c \in Clients, UNCHANGED <<copies, index>>, Working(c)'
    PROVE  Sound(c)
  BY DEF Sound, NoLoss, NoWrongMark, GoodCopy, WrongMark, copies

\* The record is written with the client's own copy.
LEMMA AloneWrites ==
    ASSUME NEW c \in Clients, UNCHANGED copies, index' = meta'[c],
           meta'[c].sum = index.sum, Trusted(meta'[c]), SeenRight(c)', Writing(c)'
    PROVE  Sound(c)
<1>1. Trusted(meta[c])'
  BY DEF Trusted, WrongMark, copies
<1>2. NoWrongMark(c)
  BY DEF NoWrongMark, WrongMark, Trusted, copies
<1>3. NoLoss(c)
  BY DEF NoLoss, GoodCopy, copies
<1> QED BY <1>1, <1>2, <1>3 DEF Sound, Working

\* A beginning looks at the record; whatever marks it finds are the record's.
LEMMA BeginAlone ==
    ASSUME TypeInv, NEW c \in Clients, NEW o, NEW where, Begin(c, o, where),
           where \in {"local", "mark", "remove", "archive"},
           where = "local" => o \in {"check", "force"},
           where = "mark" => o = "replicate",
           where = "archive" => o = "archive",
           where = "remove" => \E b \in Backends : index.locs[b] = "healthy"
    PROVE  /\ Sound(c)
           /\ alone' = IF \A d \in Clients : pc[d] = "idle" THEN c ELSE None
           /\ \A d \in Clients \ {c} : pc'[d] = pc[d]
<1>1. /\ meta'[c] = index /\ pc'[c] = where /\ op'[c] = o /\ UNCHANGED <<copies, index>>
      /\ \A d \in Clients \ {c} : pc'[d] = pc[d]
      /\ alone' = IF \A d \in Clients : pc[d] = "idle" THEN c ELSE None
  BY DEF Begin, Goto, TypeInv, TypeOK
<1>2. Trusted(meta[c])'
  BY <1>1 DEF Trusted, WrongMark, copies
<1>3. SeenRight(c)' /\ Writing(c)'
  BY <1>1 DEF SeenRight, Writing
<1>4. Working(c)'
  BY <1>1, <1>2, <1>3 DEF Working
<1> QED BY <1>1, <1>4, AloneMoves

\* A locator decided by looking at its replica.
LEMMA DecideTrusted ==
    ASSUME NEW m \in Metas, NEW b \in Backends, Trusted(m)
    PROVE  Trusted(Mark(m, b, Health(replica[b] = m.sum)))
  BY DEF Trusted, Mark, Health, Metas

LEMMA MarkTrusted ==
    ASSUME NEW m \in Metas, NEW b \in Backends, Trusted(m)
    PROVE  /\ Trusted(Mark(m, b, "unhealthy"))
           /\ Mark(m, b, "unhealthy").locs[b] # "healthy"
           /\ replica[b] = m.sum => Trusted(Mark(m, b, "healthy"))
           /\ \A e \in Backends \ {b} : Mark(m, b, "healthy").locs[e] = m.locs[e]
  BY DEF Trusted, Mark, Metas

LEMMA CheckAlone ==
    ASSUME TypeInv, NEW c \in Clients, Working(c), Check(c), ~BeginCheck(c)
    PROVE  Sound(c)
<1>0. /\ meta[c] \in Metas /\ meta \in [Clients -> Metas] /\ DOMAIN pc = Clients
      /\ pc[c] = "recheck" => backend[c] \in Backends
      /\ todo[c] \subseteq Backends /\ DOMAIN op = Clients
  BY DEF TypeInv, TypeOK, InReplicate, Replicating
<1>1. CASE CheckLocal(c)
  <2>1. pc[c] = "local" /\ pc'[c] = "verify" /\ UNCHANGED <<copies, index, op>>
    BY <1>0, <1>1 DEF CheckLocal, Goto
  <2>2. /\ meta'[c].locs = meta[c].locs /\ meta'[c].sum = meta[c].sum
        /\ meta'[c].healthy = (local = meta[c].sum)
    BY <1>0, <1>1 DEF CheckLocal, Metas
  <2>3. Trusted(meta[c])'
    BY <2>1, <2>2 DEF Working, Trusted, WrongMark, copies
  <2>4. SeenRight(c)' /\ Writing(c)'
    BY <2>1, <2>2 DEF Working, SeenRight, Writing, copies
  <2> QED BY <2>1, <2>2, <2>3, <2>4, AloneMoves DEF Working
<1>2. CASE Verify(c)
  <2>1. PICK b \in todo[c] :
          /\ SaveLocal(c, b)
          /\ backend' = [backend EXCEPT ![c] = b]
          /\ IF meta[c].healthy /\ replica[b] # meta[c].sum
             THEN Goto(c, "mark") /\ UNCHANGED <<meta, todo>>
             ELSE Decide(c, b, replica[b] = meta[c].sum)
    BY <1>2 DEF Verify
  <2>2. pc[c] = "verify" /\ b \in Backends /\ UNCHANGED <<replica, index, op>>
    BY <1>0, <1>2 DEF Verify
  <2>3. local' = local \/ (~meta[c].healthy /\ local' = replica[b])
    BY <2>1 DEF SaveLocal
  <2>4. /\ meta'[c].sum = meta[c].sum /\ meta'[c].healthy = meta[c].healthy
        /\ Trusted(meta'[c])
        /\ pc'[c] = "verify" \/ (pc'[c] = "mark" /\ meta[c].healthy)
    <3>1. CASE meta[c].healthy /\ replica[b] # meta[c].sum
      BY <1>0, <2>1, <2>2, <3>1 DEF Goto, Working
    <3>2. CASE ~(meta[c].healthy /\ replica[b] # meta[c].sum)
      <4>1. meta'[c] = Mark(meta[c], b, Health(replica[b] = meta[c].sum)) /\ pc'[c] = "verify"
        BY <1>0, <2>1, <3>2 DEF Goto, Decide
      <4>2. Trusted(meta'[c])
        BY <1>0, <2>2, <4>1, DecideTrusted DEF Working
      <4>3. meta'[c].sum = meta[c].sum /\ meta'[c].healthy = meta[c].healthy
        BY <1>0, <4>1 DEF Mark, Metas
      <4> QED BY <4>1, <4>2, <4>3
    <3> QED BY <3>1, <3>2
  <2>5. Trusted(meta[c])'
    BY <2>2, <2>4 DEF Trusted, WrongMark
  <2>6. op[c] \in {"check", "force"} /\ meta[c].sum = index.sum
    BY <2>2 DEF Working, SeenRight
  <2>7. /\ meta[c].healthy => local = meta[c].sum /\ local' = local
        /\ ~meta[c].healthy => local # meta[c].sum \/ \E e \in Backends : replica[e] = meta[c].sum
    BY <2>2, <2>3 DEF Working, SeenRight
  <2>8. ~meta[c].healthy => local' # meta[c].sum \/ \E e \in Backends : replica[e] = meta[c].sum
    BY <2>2, <2>3, <2>7
  <2>9. SeenRight(c)' /\ Writing(c)'
    BY <2>2, <2>4, <2>6, <2>7, <2>8 DEF SeenRight, Writing
  <2>10. NoLoss(c)
    BY <2>2, <2>6, <2>7 DEF NoLoss, GoodCopy
  <2>11. NoWrongMark(c)
    BY <2>2 DEF NoWrongMark, WrongMark
  <2> QED BY <2>2, <2>4, <2>5, <2>6, <2>9, <2>10, <2>11 DEF Sound, Working
<1>3. CASE CheckFails(c)
  <2>1. pc'[c] = "idle" /\ UNCHANGED <<copies, index>>
    BY <1>0, <1>3 DEF CheckFails, Goto
  <2> QED BY <2>1, AloneMoves DEF Working
<1>4. CASE Recheck(c)
  <2>1. /\ pc[c] = "recheck" /\ pc'[c] = "verify" /\ UNCHANGED <<copies, index, op>>
        /\ meta'[c] = Mark(meta[c], backend[c], Health(replica[backend[c]] = meta[c].sum))
    BY <1>0, <1>4 DEF Recheck, Decide, Goto
  <2>2. Trusted(meta'[c]) /\ meta'[c].sum = meta[c].sum /\ meta'[c].healthy = meta[c].healthy
    <3>1. Trusted(meta'[c])
      BY <1>0, <2>1, DecideTrusted DEF Working
    <3>2. meta'[c].sum = meta[c].sum /\ meta'[c].healthy = meta[c].healthy
      BY <1>0, <2>1 DEF Mark, Metas
    <3> QED BY <3>1, <3>2
  <2>3. Trusted(meta[c])'
    BY <2>1, <2>2 DEF Trusted, WrongMark, copies
  <2>4. SeenRight(c)' /\ Writing(c)'
    BY <2>1, <2>2 DEF Working, SeenRight, Writing, copies
  <2> QED BY <2>1, <2>2, <2>3, <2>4, AloneMoves DEF Working
<1>5. CASE CheckPut(c)
  <2>1. pc[c] = "verify" /\ pc'[c] = "idle" /\ index' = meta'[c] /\ meta'[c] = meta[c] /\ UNCHANGED copies
    BY <1>0, <1>5 DEF CheckPut, Goto
  <2>2. SeenRight(c)' /\ Writing(c)'
    BY <2>1 DEF SeenRight, Writing
  <2> QED BY <1>0, <2>1, <2>2, AloneWrites DEF Working
<1> QED BY <1>1, <1>2, <1>3, <1>4, <1>5 DEF Check

LEMMA ReplicateAlone ==
    ASSUME TypeInv, NEW c \in Clients, Working(c), Replicate(c), ~BeginReplicate(c)
    PROVE  Sound(c)
<1> DEFINE b == backend[c]
<1>0. /\ meta[c] \in Metas /\ meta \in [Clients -> Metas] /\ DOMAIN pc = Clients
      /\ pc[c] \in {"mark", "put", "written"} => b \in Backends
      /\ replica \in [Backends -> Contents]
  BY DEF TypeInv, TypeOK, InReplicate, Replicating
<1>1. CASE MarkUnhealthy(c)
  <2>1. /\ pc[c] = "mark" /\ meta'[c] = Mark(meta[c], b, "unhealthy") /\ index' = meta'[c]
        /\ UNCHANGED <<copies, backend, op>>
    BY <1>0, <1>1 DEF MarkUnhealthy
  <2>2. /\ pc'[c] = "put" => local # Missing
        /\ pc'[c] = "recheck" => op[c] \in {"check", "force"}
        /\ pc'[c] \in {"put", "recheck", "idle"}
    BY <1>0, <1>1 DEF MarkUnhealthy, ReplicateReturns, Goto
  <2>3. /\ Trusted(meta'[c]) /\ meta'[c].locs[b] # "healthy"
        /\ meta'[c].sum = meta[c].sum /\ meta'[c].healthy = meta[c].healthy
    BY <1>0, <2>1, MarkTrusted, MarkedFacts DEF Working
  <2>4. SeenRight(c)'
    BY <2>1, <2>2, <2>3 DEF Working, SeenRight, copies
  <2>5. Writing(c)'
    BY <2>1, <2>2, <2>3 DEF Writing, copies
  <2> QED BY <2>1, <2>3, <2>4, <2>5, AloneWrites DEF Working
<1>2. ASSUME pc[c] = "put", NEW x,
             replica' = replica \/ replica' = [replica EXCEPT ![b] = x],
             pc'[c] \in {"put", "written", "recheck", "replicas", "idle"},
             pc'[c] = "recheck" => op[c] \in {"check", "force"},
             pc'[c] = "replicas" => op[c] = "archive",
             pc'[c] = "written" => replica'[b] = meta[c].sum \/ WrongFile(c),
             UNCHANGED <<local, index, op, meta, backend>>
      PROVE  Working(c)' /\ NoWrongMark(c)
  <2>1. index.locs[b] # "healthy" /\ meta[c].locs[b] # "healthy" /\ b \in Backends /\ local # Missing
    BY <1>0, <1>2 DEF Working, Writing
  <2>2. \A e \in Backends \ {b} : replica'[e] = replica[e]
    BY <1>0, <1>2
  <2>3. NoWrongMark(c)
    BY <1>2, <2>1, <2>2 DEF NoWrongMark, WrongMark
  <2>4. Trusted(meta[c])'
    BY <1>2, <2>1, <2>2 DEF Working, Trusted, WrongMark
  <2>5. SeenRight(c)'
    BY <1>2 DEF Working, SeenRight
  <2>6. Writing(c)'
    BY <1>2, <2>1 DEF Writing, WrongFile
  <2> QED BY <1>2, <2>3, <2>4, <2>5, <2>6 DEF Working
<1>3. pc[c] = "put" => Read = {local} /\ meta[c].sum = index.sum /\ (op[c] # "replicate" => local = index.sum)
  BY DEF Read, Working, Writing, SeenRight
<1>4. CASE PutError(c)
  <2>1. /\ pc[c] = "put" /\ UNCHANGED <<local, index, op, meta, backend>>
        /\ pc'[c] \in {"put", "recheck", "idle"}
        /\ pc'[c] = "recheck" => op[c] \in {"check", "force"}
    BY <1>0, <1>4 DEF PutError, PutFailed, ReplicateReturns, Goto
  <2>2. \E x : replica' = replica \/ replica' = [replica EXCEPT ![b] = x]
    BY <1>3, <1>4, <2>1 DEF PutError
  <2>3. Working(c)' /\ NoWrongMark(c)
    BY <1>2, <2>1, <2>2
  <2>4. NoLoss(c)
    <3>1. CASE local = index.sum
      BY <2>1, <3>1 DEF NoLoss, GoodCopy
    <3>2. CASE local # index.sum /\ b \notin Verifying
      BY <1>3, <1>4, <2>1, <3>2 DEF NoLoss, WrongFile
    <3>3. CASE local # index.sum /\ b \in Verifying
      <4>1. replica' = replica \/ replica' = [replica EXCEPT ![b] = index.sum]
        BY <1>3, <1>4, <2>1, <3>3 DEF PutError
      <4>2. \A e \in Backends : replica[e] = index.sum => replica'[e] = index.sum
        BY <1>0, <2>1, <4>1
      <4> QED BY <2>1, <4>2 DEF NoLoss, GoodCopy
    <3> QED BY <3>1, <3>2, <3>3
  <2> QED BY <2>3, <2>4 DEF Sound
<1>5. CASE PutGood(c)
  <2>1. pc[c] = "put" /\ pc'[c] = "written" /\ UNCHANGED <<local, index, op, meta, backend>>
    BY <1>0, <1>5 DEF PutGood, Goto
  <2>2. replica' = [replica EXCEPT ![b] = meta[c].sum] /\ replica'[b] = meta[c].sum
    BY <1>0, <1>5, <2>1 DEF PutGood
  <2>3. Working(c)' /\ NoWrongMark(c)
    BY <1>2, <2>1, <2>2
  <2>4. NoLoss(c)
    BY <1>0, <1>3, <2>1, <2>2 DEF NoLoss, GoodCopy
  <2> QED BY <2>3, <2>4 DEF Sound
<1>6. CASE PutMismatch(c)
  <2>1. pc[c] = "put" /\ pc'[c] \in {"put", "written"} /\ UNCHANGED <<local, index, op, meta, backend>>
    BY <1>0, <1>6 DEF PutMismatch, Goto
  <2>2. /\ b \notin Verifying /\ local # index.sum
        /\ replica' = [replica EXCEPT ![b] = local]
    BY <1>3, <1>6, <2>1 DEF PutMismatch
  <2>3. WrongFile(c)
    BY <1>3, <2>1, <2>2 DEF WrongFile
  <2>4. Working(c)' /\ NoWrongMark(c)
    BY <1>2, <2>1, <2>2, <2>3
  <2> QED BY <1>6, <2>3, <2>4 DEF Sound, NoLoss
<1>7. CASE MarkHealthy(c)
  <2>1. /\ pc[c] = "written" /\ meta'[c] = Mark(meta[c], b, "healthy") /\ index' = meta'[c]
        /\ UNCHANGED <<copies, backend, op>> /\ b \in Backends
    BY <1>0, <1>7 DEF MarkHealthy
  <2>2. /\ pc'[c] \in {"recheck", "replicas", "idle"}
        /\ pc'[c] = "recheck" => op[c] \in {"check", "force"}
        /\ pc'[c] = "replicas" => op[c] = "archive"
    BY <1>0, <1>7 DEF MarkHealthy, ReplicateReturns, Goto
  <2>3. /\ meta'[c].sum = meta[c].sum /\ meta'[c].healthy = meta[c].healthy /\ meta[c].sum = index.sum
        /\ \A e \in Backends \ {b} : meta'[c].locs[e] = meta[c].locs[e]
    BY <1>0, <2>1, MarkTrusted, MarkedFacts DEF Working
  <2>4. SeenRight(c)' /\ Writing(c)'
    BY <2>1, <2>2, <2>3 DEF Working, SeenRight, Writing, copies
  <2>5. Trusted(meta[c])'
    BY <2>1 DEF Trusted, WrongMark, copies
  <2>6. NoWrongMark(c)
    <3>1. ASSUME NEW e \in Backends, WrongMark(e)', e # b
          PROVE  WrongMark(e)
      BY <2>1, <2>3, <3>1 DEF WrongMark, Working, Trusted, copies
    <3>2. ASSUME NEW e \in Backends, WrongMark(e)', e = b
          PROVE  WrongFile(c)
      BY <2>1, <2>3, <3>2 DEF WrongMark, Working, Writing, copies
    <3> SUFFICES ASSUME NEW e \in Backends, WrongMark(e)'
                 PROVE  WrongMark(e) \/ (MarkHealthy(c) /\ b = e /\ WrongFile(c))
      BY DEF NoWrongMark
    <3>3. CASE e = b
      BY <1>7, <3>2, <3>3
    <3> QED BY <3>1, <3>3
  <2>7. NoLoss(c)
    BY <2>1, <2>3 DEF NoLoss, GoodCopy, copies
  <2> QED BY <2>1, <2>3, <2>4, <2>5, <2>6, <2>7 DEF Sound, Working
<1> QED BY <1>1, <1>4, <1>5, <1>6, <1>7 DEF Replicate

LEMMA RetentionAlone ==
    ASSUME TypeInv, NEW c \in Clients, Working(c), ApplyRetention(c), ~BeginRetention(c)
    PROVE  Sound(c)
<1>0. meta[c] \in Metas /\ meta \in [Clients -> Metas] /\ DOMAIN pc = Clients
  BY DEF TypeInv, TypeOK
<1>1. CASE RemoveLocal(c)
  <2>1. /\ pc[c] = "remove" /\ pc'[c] = "removed" /\ local' = Missing
        /\ UNCHANGED <<replica, index, meta, backend, op>>
    BY <1>0, <1>1 DEF RemoveLocal, Goto
  <2>2. Working(c)'
    BY <2>1 DEF Working, Trusted, WrongMark, SeenRight, Writing
  <2>3. NoWrongMark(c)
    BY <2>1 DEF NoWrongMark, WrongMark
  <2>4. NoLoss(c)
    <3>1. PICK b \in Backends : index.locs[b] = "healthy"
      BY <2>1 DEF Working, Writing
    <3>2. ~GoodCopy' => WrongMark(b)
      BY <2>1, <3>1 DEF GoodCopy, WrongMark
    <3> QED BY <1>1, <3>2 DEF NoLoss
  <2> QED BY <2>2, <2>3, <2>4 DEF Sound
<1>2. CASE RetentionPut(c)
  <2>1. /\ pc[c] = "removed" /\ pc'[c] = "idle" /\ index' = meta'[c] /\ UNCHANGED copies
    BY <1>0, <1>2 DEF RetentionPut, Goto
  <2>2. meta'[c].locs = meta[c].locs /\ meta'[c].sum = meta[c].sum /\ meta[c].sum = index.sum
    BY <1>0, <1>2, <2>1 DEF RetentionPut, Metas, Working
  <2>3. Trusted(meta'[c])
    BY <2>1, <2>2 DEF Trusted, Working
  <2>4. SeenRight(c)' /\ Writing(c)'
    BY <2>1 DEF SeenRight, Writing
  <2> QED BY <2>1, <2>2, <2>3, <2>4, AloneWrites
<1> QED BY <1>1, <1>2 DEF ApplyRetention

LEMMA ArchiveAlone ==
    ASSUME TypeInv, NEW c \in Clients, Working(c), Archive(c), ~BeginArchive(c)
    PROVE  Sound(c)
<1>0. meta[c] \in Metas /\ meta \in [Clients -> Metas] /\ DOMAIN pc = Clients
  BY DEF TypeInv, TypeOK
<1>1. CASE WriteArchive(c)
  <2>1. /\ pc[c] = "archive" /\ pc'[c] = "register" /\ local' = meta'[c].sum
        /\ UNCHANGED <<replica, index, op>>
        /\ \A b \in Backends : meta'[c].locs[b] = "none"
    BY <1>0, <1>1 DEF WriteArchive, Goto
  <2>2. Working(c)'
    BY <2>1 DEF Working, Trusted, SeenRight, Writing
  <2>3. NoWrongMark(c)
    BY <2>1 DEF NoWrongMark, WrongMark
  <2> QED BY <1>1, <2>2, <2>3 DEF Sound, NoLoss
<1>2. CASE ArchivePut(c)
  <2>1. /\ pc[c] = "register" /\ pc'[c] = "replicas" /\ index' = meta[c] /\ UNCHANGED <<copies, meta, op>>
        /\ local = meta[c].sum
    BY <1>0, <1>2 DEF ArchivePut, Goto, Working, SeenRight
  <2>2. Trusted(meta[c])'
    BY <2>1 DEF Trusted, WrongMark, copies
  <2>3. SeenRight(c)' /\ Writing(c)'
    BY <2>1 DEF Working, SeenRight, Writing, copies
  <2>4. NoLoss(c)
    BY <2>1 DEF NoLoss, GoodCopy, copies
  <2>5. NoWrongMark(c)
    BY <2>1 DEF NoWrongMark, WrongMark, Working, Trusted, copies
  <2> QED BY <2>1, <2>2, <2>3, <2>4, <2>5 DEF Sound, Working
<1>3. CASE NextReplica(c) \/ ArchiveReturns(c)
  <2>1. /\ pc[c] = "replicas" /\ pc'[c] \in {"mark", "idle"} /\ meta'[c] = meta[c]
        /\ UNCHANGED <<copies, index, op>>
    BY <1>0, <1>3 DEF NextReplica, ArchiveReturns, Goto
  <2>2. Working(c)'
    BY <2>1 DEF Working, Trusted, WrongMark, SeenRight, Writing, copies
  <2> QED BY <2>1, <2>2, AloneMoves
<1> QED BY <1>1, <1>2, <1>3 DEF Archive

\* A step is a beginning, or one of an operation under way.
Begins(c) == BeginCheck(c) \/ BeginReplicate(c) \/ BeginRetention(c) \/ BeginArchive(c)

LEMMA StepAlone ==
    ASSUME TypeInv, NEW c \in Clients, Working(c), Step(c), ~Begins(c)
    PROVE  Sound(c) /\ alone' = alone /\ pc[c] # "idle" /\ \A d \in Clients \ {c} : pc'[d] = pc[d]
<1> USE DEF TypeInv, TypeOK, Goto
<1>1. CASE Crash(c)
  <2>1. pc'[c] = "idle" /\ UNCHANGED <<copies, index, alone>> /\ pc[c] # "idle"
        /\ \A d \in Clients \ {c} : pc'[d] = pc[d]
    BY <1>1 DEF Crash
  <2> QED BY <2>1, AloneMoves DEF Working
<1>2. CASE Check(c)
  <2>1. Sound(c)
    BY <1>2, CheckAlone DEF Begins
  <2>2. alone' = alone /\ pc[c] # "idle" /\ \A d \in Clients \ {c} : pc'[d] = pc[d]
    BY <1>2 DEF Begins, Check, CheckLocal, Verify, Decide, CheckFails, Recheck, CheckPut
  <2> QED BY <2>1, <2>2
<1>3. CASE Replicate(c)
  <2>1. Sound(c)
    BY <1>3, ReplicateAlone DEF Begins
  <2>2. alone' = alone /\ pc[c] # "idle" /\ \A d \in Clients \ {c} : pc'[d] = pc[d]
    BY <1>3 DEF Begins, Replicate, MarkUnhealthy, PutError, PutFailed, PutGood, PutMismatch, MarkHealthy,
                ReplicateReturns
  <2> QED BY <2>1, <2>2
<1>4. CASE ApplyRetention(c)
  <2>1. Sound(c)
    BY <1>4, RetentionAlone DEF Begins
  <2>2. alone' = alone /\ pc[c] # "idle" /\ \A d \in Clients \ {c} : pc'[d] = pc[d]
    BY <1>4 DEF Begins, ApplyRetention, RemoveLocal, RetentionPut
  <2> QED BY <2>1, <2>2
<1>5. CASE Archive(c)
  <2>1. Sound(c)
    BY <1>5, ArchiveAlone DEF Begins
  <2>2. alone' = alone /\ pc[c] # "idle" /\ \A d \in Clients \ {c} : pc'[d] = pc[d]
    BY <1>5 DEF Begins, Archive, WriteArchive, ArchivePut, NextReplica, ArchiveReturns
  <2> QED BY <2>1, <2>2
<1> QED BY <1>1, <1>2, <1>3, <1>4, <1>5 DEF Step

LEMMA BeginsAlone ==
    ASSUME TypeInv, NEW c \in Clients, Begins(c)
    PROVE  /\ Sound(c)
           /\ alone' = IF \A d \in Clients : pc[d] = "idle" THEN c ELSE None
           /\ \A d \in Clients \ {c} : pc'[d] = pc[d]
           /\ UNCHANGED <<copies, index>>
<1>1. CASE BeginCheck(c)
  BY <1>1, BeginAlone DEF BeginCheck, Begin
<1>2. CASE BeginReplicate(c)
  BY <1>2, BeginAlone DEF BeginReplicate, Begin
<1>3. CASE BeginRetention(c)
  BY <1>3, BeginAlone DEF BeginRetention, Begin
<1>4. CASE BeginArchive(c)
  BY <1>4, BeginAlone DEF BeginArchive, Begin
<1> QED BY <1>1, <1>2, <1>3, <1>4 DEF Begins

\* A step while a client works alone is its own, or a beginning that ends its being alone.
LEMMA AloneStep ==
    ASSUME AloneInv, Next
    PROVE  /\ AloneInv'
           /\ \A c \in Clients : alone = c => Fault \/ (NoLoss(c) /\ NoWrongMark(c))
<1>0. TypeInv /\ TypeInv' /\ None \notin Clients
  BY NextTypeInv, ManagerAssumption DEF AloneInv
<1>1. CASE Fault
  <2>1. \A c \in Clients : pc'[c] = "idle"
    BY <1>1 DEF Fault
  <2> QED BY <1>0, <1>1, <2>1 DEF AloneInv, Working
<1>2. ASSUME NEW c \in Clients, Begins(c)
      PROVE  AloneInv' /\ \A d \in Clients : NoLoss(d) /\ NoWrongMark(d)
  <2>1. AloneInv'
    BY <1>0, <1>2, BeginsAlone DEF AloneInv, Sound
  <2>2. \A d \in Clients : NoLoss(d) /\ NoWrongMark(d)
    BY <1>0, <1>2, BeginsAlone DEF copies, NoLoss, NoWrongMark, GoodCopy, WrongMark
  <2> QED BY <2>1, <2>2
<1>3. ASSUME NEW c \in Clients, Step(c), ~Begins(c), alone = c
      PROVE  AloneInv' /\ NoLoss(c) /\ NoWrongMark(c)
  BY <1>0, <1>3, StepAlone DEF AloneInv, Sound
<1>4. ASSUME NEW c \in Clients, Step(c), ~Begins(c), alone # c
      PROVE  AloneInv' /\ alone \notin Clients
  <2>1. pc[c] # "idle" /\ alone' = alone
    <3> USE DEF Begins
    <3>1. CASE Check(c)
      BY <1>4, <3>1 DEF Check, CheckLocal, Verify, CheckFails, Recheck, CheckPut
    <3>2. CASE Replicate(c)
      BY <1>4, <3>2 DEF Replicate, MarkUnhealthy, PutError, PutGood, PutMismatch, MarkHealthy
    <3>3. CASE ApplyRetention(c) \/ Archive(c) \/ Crash(c)
      BY <1>4, <3>3 DEF ApplyRetention, RemoveLocal, RetentionPut, Archive, WriteArchive, ArchivePut,
                        NextReplica, ArchiveReturns, Crash
    <3> QED BY <1>4, <3>1, <3>2, <3>3 DEF Step
  <2>2. alone \notin Clients
    BY <1>4, <2>1 DEF AloneInv
  <2> QED BY <1>0, <2>1, <2>2 DEF AloneInv
<1> QED BY <1>1, <1>2, <1>3, <1>4 DEF Next

LEMMA AloneAlways == Spec => []AloneInv
<1>1. AloneInv /\ [Next]_vars => AloneInv'
  <2>1. AloneInv /\ UNCHANGED vars => AloneInv'
    <3> SUFFICES ASSUME AloneInv, UNCHANGED vars PROVE AloneInv'
      OBVIOUS
    <3>1. TypeInv'
      BY NextTypeInv DEF AloneInv
    <3>2. \A c \in Clients : Working(c) => Working(c)'
      BY DEF vars, Working, Trusted, WrongMark, SeenRight, Writing, WrongFile
    <3> QED BY <3>1, <3>2 DEF AloneInv, vars
  <2> QED BY <2>1, AloneStep
<1> QED BY <1>1, AloneStart, PTL DEF Spec

\* For any clients, backends of both kinds, versions and faults: an operation that no other
\* overlaps loses the last good copy only where Archive moves the new file before it writes
\* the record, where retention believes a mark that was wrong before it began, and where
\* ReplicateMore puts a wrong file over a good replica (Archive, ApplyRetention, replicate).
THEOREM LossesKnown == Spec => LossesAreKnown
<1>1. AloneInv /\ [Next]_vars =>
        [\A c \in Clients :
            alone = c /\ GoodCopy /\ ~GoodCopy' =>
                \/ Fault
                \/ WriteArchive(c)
                \/ RemoveLocal(c) /\ \E b \in Backends : WrongMark(b)
                \/ (PutError(c) \/ PutMismatch(c)) /\ WrongFile(c)]_vars
  BY AloneStep DEF NoLoss
<1> QED BY <1>1, AloneAlways, PTL DEF Spec, LossesAreKnown

\* And no such operation leaves a mark wrong that was not, but the ReplicateMore whose wrong
\* file the backend took three times: a locator is marked unhealthy before its replica is
\* touched and healthy after it was found good (replicate, Check).
THEOREM MarksTrue == Spec => MarksStayTrue
<1>1. AloneInv /\ [Next]_vars =>
        [\A c \in Clients, b \in Backends :
            alone = c /\ WrongMark(b)' =>
                \/ WrongMark(b)
                \/ Fault
                \/ MarkHealthy(c) /\ backend[c] = b /\ WrongFile(c)]_vars
  BY AloneStep DEF NoWrongMark
<1> QED BY <1>1, AloneAlways, PTL DEF Spec, MarksStayTrue
===============================================================================
