------------------------------ MODULE DownloadProofs -----------------------------
(***************************************************************************)
(* Theorems about the comic downloads and about the keyed mutex that their *)
(* callers hold, which share no state: for any workers, calls and pages,   *)
(* any limit and numbers of connections, the pool closed or not, and for   *)
(* any goroutines, keys and lockers.                                       *)
(***************************************************************************)
EXTENDS ComicDownload, LocalMutex, FiniteSetTheorems, TLAPS

LEMMA NoneIsNoTask == None \notin Tasks
BY DownloaderAssumption

USE NoneIsNoTask

Awaiting == {t \in Tasks : task[t] = "awaiting"}
Offering == {w \in Workers : worker[w] = "offering"}
Running == {b \in Batches : job[b] \in Admitted}
Unasked == {"none", "queued", "taken", "invalid"}

\* How far the call of a batch, the batch and its tasks can be apart.
BatchesInOrder ==
    \A b \in Batches :
        /\ job[b] = "running" => batch[b] # "none"
        /\ job[b] \in {"ok", "failed"} => batch[b] = "closed" /\ InState(b, "result") = {}
        /\ job[b] \notin {"running", "ok", "failed"} => batch[b] = "none"
        /\ batch[b] = "none" => quota[b] = 0 /\ TasksOf(b) = InState(b, "none")
        /\ batch[b] = "closed" =>
            /\ quota[b] = 0 \/ InState(b, "queued") = {}
            /\ InState(b, "taken") \cup InState(b, "awaiting") = {}

\* A task is requested once, by one worker.
RequestsInOrder ==
    /\ \A t \in Tasks : transfer[t] = "none" <=> task[t] \in Unasked
    /\ \A w \in Workers : worker[w] \in {"offering", "downloading"} <=> req[w] # None
    /\ \A w \in Workers : req[w] # None => transfer[req[w]] # "none"
    /\ \A w, v \in Workers : req[w] # None /\ req[w] = req[v] => w = v

\* The response of a requested task is offered or has come with one result, not both.
ResponsesInOrder ==
    /\ \A t \in Tasks : answer[t] # None <=> task[t] \in {"result", "read"}
    /\ \A t \in Tasks : answer[t] # None => transfer[answer[t]] # "none"
    /\ \A w \in Offering, t \in Tasks : answer[t] # req[w]
    /\ \A t \in Tasks : transfer[t] # "none" =>
        (\E w \in Offering : req[w] = t) \/ \E u \in Tasks : answer[u] = t
    /\ ResponsesGoOnce

\* A result is read when its transfer has ended, and leaves a mark if it succeeded.
MarksInOrder ==
    /\ \A t \in Tasks : task[t] = "read" => transfer[answer[t]] \in {"ok", "err"}
    /\ marked = {t \in Tasks : task[t] = "read" /\ transfer[answer[t]] = "ok"}

\* SizeCountsJobs, with the finiteness that makes its cardinality one.
SizeInOrder == IsFiniteSet(Running) /\ size = Cardinality(Running)

DownloadInv ==
    /\ TypeOK /\ BatchesInOrder /\ RequestsInOrder /\ ResponsesInOrder /\ MarksInOrder
    /\ SizeInOrder /\ WaitersMatch

LEMMA FiniteSides ==
    /\ IsFiniteSet(Offering) /\ Cardinality(Offering) \in Nat
    /\ IsFiniteSet(Awaiting) /\ Cardinality(Awaiting) \in Nat
BY FS_Subset, FS_CardinalityType, DownloaderAssumption DEF Offering, Awaiting

LEMMA WaitersAre == WaitersMatch <=> Cardinality(Offering) = Cardinality(Awaiting)
BY DEF WaitersMatch, Offering, Awaiting

\* A task belongs to one batch.
LEMMA BatchOf == \A t \in Tasks : t[1] \in Batches /\ \A b \in Batches : t \in TasksOf(b) <=> b = t[1]
BY DownloaderAssumption DEF TasksOf

\* A task that has left the queue belongs to a batch that runs.
LEMMA TakenRuns ==
    ASSUME BatchesInOrder, TypeOK, NEW t \in Tasks, task[t] \in {"taken", "awaiting"}
    PROVE  batch[t[1]] = "running" /\ job[t[1]] = "running"
<1>1. t[1] \in Batches /\ t \in TasksOf(t[1])
    BY BatchOf
<1>2. batch[t[1]] # "none" /\ batch[t[1]] # "closed"
    BY <1>1 DEF BatchesInOrder, InState
<1> QED  BY <1>1, <1>2 DEF BatchesInOrder, TypeOK, DownloaderTypeOK

LEMMA Start == Init => DownloadInv
<1> SUFFICES ASSUME Init PROVE DownloadInv
    OBVIOUS
<1> USE DEF Init, DownloaderInit
<1>1. TypeOK
    BY DEF TypeOK, DownloaderTypeOK
<1>2. BatchesInOrder
    BY DEF BatchesInOrder, InState, TasksOf
<1>3. RequestsInOrder /\ ResponsesInOrder /\ MarksInOrder
    BY DEF RequestsInOrder, ResponsesInOrder, ResponsesGoOnce, MarksInOrder, Unasked, Offering
<1>4. Running = {} /\ Offering = {} /\ Awaiting = {}
    BY DEF Running, Admitted, Offering, Awaiting
<1>5. SizeInOrder /\ WaitersMatch
    BY <1>4, FS_EmptySet, WaitersAre DEF SizeInOrder
<1> QED  BY <1>1, <1>2, <1>3, <1>5 DEF DownloadInv

--------------------------------------------------------------------------------
(* The pool.                                                               *)

LEMMA TakeStep ==
    ASSUME DownloadInv, NEW b \in Batches, Take(b), UNCHANGED jobVars
    PROVE  DownloadInv'
<1> USE DEF DownloadInv
<1>1. PICK t \in InState(b, "queued"), s \in {"taken", "invalid"} : task' = [task EXCEPT ![t] = s]
    BY DEF Take
<1>2. t \in Tasks /\ t \in TasksOf(b) /\ task[t] = "queued"
    BY DEF InState, TasksOf
<1>3. /\ task'[t] = s
      /\ \A u \in Tasks \ {t} : task'[u] = task[u]
    BY <1>1, <1>2 DEF TypeOK, DownloaderTypeOK
<1>4. TypeOK'
    BY <1>1, <1>2 DEF Take, jobVars, TypeOK, DownloaderTypeOK
<1>5. BatchesInOrder'
    <2>1. batch[b] = "running"
        BY <1>2 DEF Take, BatchesInOrder, InState, TypeOK, DownloaderTypeOK
    <2>2. ASSUME NEW c \in Batches \ {b}
          PROVE  /\ quota'[c] = quota[c]
                 /\ \A u \in TasksOf(c) : task'[u] = task[u]
        BY <1>2, <1>3, BatchOf DEF Take, TypeOK, DownloaderTypeOK, TasksOf
    <2>3. \A u \in TasksOf(b) : task'[u] = "result" => task[u] = "result"
        BY <1>2, <1>3 DEF TasksOf
    <2> QED  BY <2>1, <2>2, <2>3 DEF Take, jobVars, BatchesInOrder, InState, TasksOf
<1>6. RequestsInOrder' /\ ResponsesInOrder' /\ MarksInOrder'
    BY <1>2, <1>3 DEF Take, jobVars, RequestsInOrder, ResponsesInOrder, ResponsesGoOnce, MarksInOrder, Unasked, Offering
<1>7. Offering' = Offering /\ Awaiting' = Awaiting /\ Running' = Running
    BY <1>2, <1>3 DEF Take, jobVars, Offering, Awaiting, Running
<1>8. SizeInOrder' /\ WaitersMatch'
    BY <1>7, WaitersAre DEF jobVars, SizeInOrder, WaitersMatch, Offering, Awaiting
<1> QED  BY <1>4, <1>5, <1>6, <1>8

\* The request goes to a worker that has none: one more offers, one more awaits.
LEMMA SendStep ==
    ASSUME DownloadInv, NEW t \in Tasks, Send(t), UNCHANGED jobVars
    PROVE  DownloadInv'
<1> USE DEF DownloadInv
<1>1. PICK w \in Workers :
        /\ worker[w] = "idle"
        /\ worker' = [worker EXCEPT ![w] = "offering"]
        /\ req' = [req EXCEPT ![w] = t]
    BY DEF Send
<1>2. /\ task[t] = "taken" /\ task'[t] = "awaiting" /\ transfer'[t] = "running"
      /\ \A u \in Tasks \ {t} : task'[u] = task[u] /\ transfer'[u] = transfer[u]
      /\ worker'[w] = "offering" /\ req'[w] = t
      /\ \A v \in Workers \ {w} : worker'[v] = worker[v] /\ req'[v] = req[v]
      /\ UNCHANGED <<answer, marked>>
    BY <1>1 DEF Send, jobVars, TypeOK, DownloaderTypeOK
<1>3. transfer[t] = "none" /\ req[w] = None /\ answer[t] = None
    BY <1>1, <1>2 DEF RequestsInOrder, ResponsesInOrder, Unasked
<1>4. TypeOK'
    BY <1>1 DEF Send, jobVars, TypeOK, DownloaderTypeOK
<1>5. BatchesInOrder'
    <2>1. batch[t[1]] = "running" /\ job[t[1]] = "running"
        BY <1>2, TakenRuns
    <2> QED  BY <1>2, <2>1, BatchOf DEF Send, jobVars, BatchesInOrder, InState, TasksOf
<1>6. RequestsInOrder'
    <2>1. \A u \in Tasks : transfer'[u] = "none" <=> task'[u] \in Unasked
        BY <1>2 DEF RequestsInOrder, Unasked
    <2>2. \A v \in Workers : worker'[v] \in {"offering", "downloading"} <=> req'[v] # None
        BY <1>2 DEF RequestsInOrder
    <2>3. \A v \in Workers : req'[v] # None => transfer'[req'[v]] # "none"
        BY <1>2, <1>3 DEF RequestsInOrder, TypeOK, DownloaderTypeOK
    <2>4. \A v \in Workers : req[v] # t
        BY <1>3 DEF RequestsInOrder
    <2>5. \A u, v \in Workers : req'[u] # None /\ req'[u] = req'[v] => u = v
        BY <1>2, <2>4 DEF RequestsInOrder
    <2> QED  BY <2>1, <2>2, <2>3, <2>5 DEF RequestsInOrder
<1>7. ResponsesInOrder'
    <2>1. \A u \in Tasks : answer[u] # t
        BY <1>3 DEF ResponsesInOrder
    <2>2. Offering' = Offering \cup {w}
        BY <1>2 DEF Offering
    <2>3. \A v \in Offering : v # w
        BY <1>1 DEF Offering
    <2>4. \A u \in Tasks : answer'[u] # None <=> task'[u] \in {"result", "read"}
        BY <1>2 DEF ResponsesInOrder
    <2>5. \A u \in Tasks : answer'[u] # None => transfer'[answer'[u]] # "none"
        BY <1>2 DEF ResponsesInOrder, TypeOK, DownloaderTypeOK
    <2>6. \A v \in Offering', u \in Tasks : answer'[u] # req'[v]
        BY <1>2, <2>1, <2>2, <2>3 DEF ResponsesInOrder, Offering
    <2>7. ASSUME NEW u \in Tasks, transfer'[u] # "none"
          PROVE  (\E v \in Offering' : req'[v] = u) \/ \E x \in Tasks : answer'[x] = u
        <3>1. CASE u = t
            BY <1>2, <2>2, <3>1
        <3>2. CASE \E v \in Offering : req[v] = u
            BY <1>2, <2>2, <2>3, <3>2 DEF Offering
        <3>3. CASE \E x \in Tasks : answer[x] = u
            BY <1>2, <3>3
        <3> QED  BY <1>2, <2>7, <3>1, <3>2, <3>3 DEF ResponsesInOrder
    <2>8. ResponsesGoOnce'
        BY <1>2 DEF ResponsesInOrder, ResponsesGoOnce
    <2> QED  BY <2>4, <2>5, <2>6, <2>7, <2>8 DEF ResponsesInOrder
<1>8. MarksInOrder'
    <2>1. \A u \in Tasks : answer[u] # t
        BY <1>3 DEF ResponsesInOrder
    <2>2. \A u \in Tasks : task[u] = "read" => answer[u] \in Tasks \ {t}
        BY <2>1 DEF ResponsesInOrder, TypeOK, DownloaderTypeOK
    <2> QED  BY <1>2, <2>2 DEF MarksInOrder
<1>9. WaitersMatch'
    <2>1. Offering' = Offering \cup {w} /\ w \notin Offering
        BY <1>1, <1>2 DEF Offering
    <2>2. Awaiting' = Awaiting \cup {t} /\ t \notin Awaiting
        BY <1>2 DEF Awaiting
    <2>3. Cardinality(Offering') = Cardinality(Offering) + 1
        BY <2>1, FS_AddElement, FiniteSides
    <2>4. Cardinality(Awaiting') = Cardinality(Awaiting) + 1
        BY <2>2, FS_AddElement, FiniteSides
    <2> QED  BY <2>3, <2>4, WaitersAre DEF WaitersMatch, Offering, Awaiting
<1>10. SizeInOrder'
    BY DEF jobVars, SizeInOrder, Running
<1> QED  BY <1>4, <1>5, <1>6, <1>7, <1>8, <1>9, <1>10

\* The response passes from the worker that offers it to one result.
LEMMA DeliverStep ==
    ASSUME DownloadInv, NEW t \in Tasks, Deliver(t), UNCHANGED jobVars
    PROVE  DownloadInv'
<1> USE DEF DownloadInv
<1>1. PICK w \in Workers :
        /\ worker[w] = "offering" /\ task[t] = "awaiting"
        /\ worker' = [worker EXCEPT ![w] = "downloading"]
        /\ answer' = [answer EXCEPT ![t] = req[w]]
        /\ task' = [task EXCEPT ![t] = "result"]
        /\ UNCHANGED <<started, open, batch, quota, req, transfer>>
    BY DEF Deliver
<1>2. req[w] \in Tasks /\ transfer[req[w]] # "none"
    BY <1>1 DEF RequestsInOrder, TypeOK, DownloaderTypeOK
<1>3. /\ task'[t] = "result" /\ answer'[t] = req[w] /\ worker'[w] = "downloading"
      /\ \A u \in Tasks \ {t} : task'[u] = task[u] /\ answer'[u] = answer[u]
      /\ \A v \in Workers \ {w} : worker'[v] = worker[v]
      /\ UNCHANGED <<req, transfer, marked>>
    BY <1>1 DEF jobVars, TypeOK, DownloaderTypeOK
<1>4. TypeOK'
    BY <1>1, <1>2 DEF jobVars, TypeOK, DownloaderTypeOK
<1>5. BatchesInOrder'
    <2>1. batch[t[1]] = "running" /\ job[t[1]] = "running"
        BY <1>1, TakenRuns
    <2> QED  BY <1>1, <1>3, <2>1, BatchOf DEF jobVars, BatchesInOrder, InState, TasksOf
<1>6. RequestsInOrder'
    BY <1>1, <1>3 DEF RequestsInOrder, Unasked
<1>7. ResponsesInOrder'
    <2>1. Offering' = Offering \ {w} /\ w \in Offering /\ Offering \subseteq Workers
        BY <1>1, <1>3 DEF Offering
    <2>2. \A u \in Tasks : answer[u] # req[w]
        BY <2>1 DEF ResponsesInOrder
    <2>3. \A v \in Offering' : req[v] # req[w]
        BY <1>2, <2>1 DEF RequestsInOrder
    <2>4. answer[t] = None
        BY <1>1 DEF ResponsesInOrder
    <2>5. \A u \in Tasks : answer'[u] # None <=> task'[u] \in {"result", "read"}
        BY <1>2, <1>3 DEF ResponsesInOrder
    <2>6. \A u \in Tasks : answer'[u] # None => transfer'[answer'[u]] # "none"
        BY <1>2, <1>3 DEF ResponsesInOrder
    <2>7. \A v \in Offering', u \in Tasks : answer'[u] # req'[v]
        BY <1>3, <2>1, <2>3 DEF ResponsesInOrder
    <2>8. ASSUME NEW u \in Tasks, transfer'[u] # "none"
          PROVE  (\E v \in Offering' : req'[v] = u) \/ \E x \in Tasks : answer'[x] = u
        <3>1. CASE u = req[w]
            BY <1>3, <3>1
        <3>2. CASE u # req[w] /\ \E v \in Offering : req[v] = u
            BY <1>3, <2>1, <3>2
        <3>3. CASE \E x \in Tasks : answer[x] = u
            BY <1>3, <2>4, <3>3
        <3> QED  BY <1>3, <2>8, <3>1, <3>2, <3>3 DEF ResponsesInOrder
    <2>9. ResponsesGoOnce'
        BY <1>3, <2>2 DEF ResponsesInOrder, ResponsesGoOnce
    <2> QED  BY <2>5, <2>6, <2>7, <2>8, <2>9 DEF ResponsesInOrder
<1>8. MarksInOrder'
    BY <1>1, <1>3 DEF MarksInOrder
<1>9. WaitersMatch'
    <2>1. Offering' = Offering \ {w} /\ w \in Offering
        BY <1>1, <1>3 DEF Offering
    <2>2. Awaiting' = Awaiting \ {t} /\ t \in Awaiting
        BY <1>1, <1>3 DEF Awaiting
    <2>3. Cardinality(Offering') = Cardinality(Offering) - 1
        BY <2>1, FS_RemoveElement, FiniteSides
    <2>4. Cardinality(Awaiting') = Cardinality(Awaiting) - 1
        BY <2>2, FS_RemoveElement, FiniteSides
    <2> QED  BY <2>3, <2>4, WaitersAre DEF WaitersMatch, Offering, Awaiting
<1>10. SizeInOrder'
    BY DEF jobVars, SizeInOrder, Running
<1> QED  BY <1>4, <1>5, <1>6, <1>7, <1>8, <1>9, <1>10

LEMMA TransferStep ==
    ASSUME DownloadInv, NEW t \in Tasks, TransferEnds(t), UNCHANGED jobVars
    PROVE  DownloadInv'
<1> USE DEF DownloadInv
<1>1. PICK outcome \in {"ok", "err"} : transfer' = [transfer EXCEPT ![t] = outcome]
    BY DEF TransferEnds
<1>2. /\ transfer[t] = "running" /\ transfer'[t] = outcome
      /\ \A u \in Tasks \ {t} : transfer'[u] = transfer[u]
      /\ UNCHANGED <<started, open, batch, quota, task, answer, worker, req, marked>>
    BY <1>1 DEF TransferEnds, jobVars, TypeOK, DownloaderTypeOK
<1>3. TypeOK'
    BY <1>1 DEF TransferEnds, jobVars, TypeOK, DownloaderTypeOK
<1>4. BatchesInOrder' /\ SizeInOrder' /\ WaitersMatch'
    BY DEF TransferEnds, jobVars, BatchesInOrder, InState, SizeInOrder, Running, WaitersMatch
<1>5. \A u \in Tasks : transfer'[u] = "none" <=> transfer[u] = "none"
    BY <1>2
<1>6. RequestsInOrder' /\ ResponsesInOrder'
    BY <1>2, <1>5 DEF RequestsInOrder, ResponsesInOrder, ResponsesGoOnce, Offering, TypeOK, DownloaderTypeOK
<1>7. MarksInOrder'
    <2>1. \A u \in Tasks : task[u] = "read" => answer[u] \in Tasks \ {t}
        BY <1>2 DEF MarksInOrder, ResponsesInOrder, TypeOK, DownloaderTypeOK
    <2> QED  BY <1>2, <2>1 DEF MarksInOrder
<1> QED  BY <1>3, <1>4, <1>6, <1>7

LEMMA WorkerStep ==
    ASSUME DownloadInv, NEW w \in Workers, NextRequest(w) \/ Stop(w), UNCHANGED jobVars
    PROVE  DownloadInv'
<1> USE DEF DownloadInv
<1>1. /\ UNCHANGED <<started, open, batch, quota, task, answer, transfer, marked>>
      /\ worker[w] # "offering" /\ worker'[w] \in {"idle", "stopped"}
      /\ req'[w] = None
      /\ \A v \in Workers \ {w} : worker'[v] = worker[v] /\ req'[v] = req[v]
    BY DEF NextRequest, Stop, jobVars, RequestsInOrder, TypeOK, DownloaderTypeOK
<1>2. TypeOK'
    BY DEF NextRequest, Stop, jobVars, TypeOK, DownloaderTypeOK
<1>3. Offering' = Offering /\ w \notin Offering /\ Offering \subseteq Workers
    BY <1>1 DEF Offering
<1>4. BatchesInOrder' /\ SizeInOrder' /\ MarksInOrder'
    BY <1>1 DEF jobVars, BatchesInOrder, InState, SizeInOrder, Running, MarksInOrder
<1>5. RequestsInOrder'
    BY <1>1 DEF RequestsInOrder, Unasked
<1>6. ResponsesInOrder'
    BY <1>1, <1>3 DEF ResponsesInOrder, ResponsesGoOnce
<1>7. WaitersMatch'
    BY <1>1, <1>3 DEF WaitersMatch, Offering
<1> QED  BY <1>2, <1>4, <1>5, <1>6, <1>7

LEMMA BatchStep ==
    ASSUME DownloadInv, (\E b \in Batches : CloseResults(b)) \/ Close, UNCHANGED jobVars
    PROVE  DownloadInv'
<1> USE DEF DownloadInv
<1>1. UNCHANGED <<started, quota, task, answer, worker, req, transfer, job, size, marked, failures>>
    BY DEF CloseResults, Close, jobVars
<1>2. TypeOK'
    BY DEF CloseResults, Close, jobVars, TypeOK, DownloaderTypeOK
<1>3. BatchesInOrder'
    BY <1>1 DEF CloseResults, Close, BatchesInOrder, InState, TypeOK, DownloaderTypeOK
<1>4. RequestsInOrder' /\ ResponsesInOrder' /\ MarksInOrder' /\ SizeInOrder' /\ WaitersMatch'
    BY <1>1 DEF RequestsInOrder, ResponsesInOrder, ResponsesGoOnce, Offering, MarksInOrder, SizeInOrder, Running, WaitersMatch
<1> QED  BY <1>2, <1>3, <1>4

LEMMA PoolStep ==
    ASSUME DownloadInv, PoolProgress \/ Close, UNCHANGED jobVars
    PROVE  DownloadInv'
<1>1. CASE Close
    BY <1>1, BatchStep
<1>2. CASE PoolProgress
    BY <1>2, TakeStep, SendStep, DeliverStep, TransferStep, WorkerStep, BatchStep DEF PoolProgress
<1> QED  BY <1>1, <1>2

--------------------------------------------------------------------------------
(* The calls.                                                              *)

\* What a step of a call that leaves the pool alone has to keep.
LEMMA CallStep ==
    ASSUME DownloadInv, UNCHANGED <<dlVars, marked, failures>>, TypeOK', BatchesInOrder', SizeInOrder'
    PROVE  DownloadInv'
BY DEF dlVars, DownloadInv, RequestsInOrder, ResponsesInOrder, ResponsesGoOnce, Offering, MarksInOrder, WaitersMatch

\* Calls start and end counting together.
LEMMA Started ==
    ASSUME SizeInOrder, NEW b \in Batches, b \notin Running, Running' = Running \cup {b}, size' = size + 1
    PROVE  SizeInOrder' /\ size' \in Nat
BY FS_AddElement, FS_CardinalityType DEF SizeInOrder

LEMMA Ended ==
    ASSUME SizeInOrder, NEW b \in Running, Running' = Running \ {b}, size' = size - 1
    PROVE  SizeInOrder' /\ size' \in Nat
<1>1. IsFiniteSet(Running') /\ Cardinality(Running') = Cardinality(Running) - 1
    BY FS_RemoveElement DEF SizeInOrder
<1>2. Cardinality(Running') \in Nat
    BY <1>1, FS_CardinalityType
<1> QED  BY <1>1, <1>2 DEF SizeInOrder

LEMMA AdmitStep ==
    ASSUME DownloadInv, NEW b \in Batches, CheckLimit(b) \/ Admit(b)
    PROVE  DownloadInv'
<1> USE DEF DownloadInv
<1>1. CASE CheckLimit(b)
    <2>1. job' \in [Batches -> {"called", "below"} \cup Admitted \cup Returned]
          /\ \A c \in Batches : job'[c] = job[c] \/ (job[c] = "called" /\ job'[c] \in {"over", "below"})
        <3>1. PICK how \in {"over", "below"} : job' = [job EXCEPT ![b] = how]
            BY <1>1 DEF CheckLimit
        <3>2. how \in {"called", "below"} \cup Admitted \cup Returned /\ job[b] = "called"
            BY <1>1 DEF CheckLimit, Returned
        <3> QED  BY <3>1, <3>2 DEF TypeOK
    <2>2. TypeOK' /\ BatchesInOrder'
        BY <1>1, <2>1 DEF CheckLimit, dlVars, TypeOK, DownloaderTypeOK, BatchesInOrder, InState
    <2>3. Running' = Running
        BY <2>1 DEF Running, Admitted
    <2> QED  BY <1>1, <2>2, <2>3, CallStep DEF CheckLimit, SizeInOrder
<1>2. CASE Admit(b)
    <2>1. /\ job[b] = "below" /\ job'[b] = "admitted"
          /\ \A c \in Batches \ {b} : job'[c] = job[c]
        BY <1>2 DEF Admit, TypeOK
    <2>2. b \notin Running /\ Running' = Running \cup {b}
        BY <2>1 DEF Running, Admitted
    <2>3. SizeInOrder' /\ size' \in Nat
        BY <1>2, <2>2, Started DEF Admit
    <2>4. TypeOK'
        BY <1>2, <2>3 DEF Admit, dlVars, TypeOK, DownloaderTypeOK, Admitted
    <2>5. BatchesInOrder'
        BY <1>2, <2>1 DEF Admit, dlVars, BatchesInOrder, InState
    <2> QED  BY <1>2, <2>3, <2>4, <2>5, CallStep DEF Admit
<1> QED  BY <1>1, <1>2

LEMMA ReturnStep ==
    ASSUME DownloadInv, NEW b \in Batches, PrepareFails(b) \/ Save(b)
    PROVE  DownloadInv'
<1> USE DEF DownloadInv
<1>1. PICK how \in Returned :
        /\ job' = [job EXCEPT ![b] = how] /\ size' = size - 1
        /\ \/ job[b] = "admitted" /\ how \in {"nocomic", "already"}
           \/ job[b] = "running" /\ how \in {"ok", "failed"} /\ batch[b] = "closed" /\ InState(b, "result") = {}
    BY DEF PrepareFails, Save, Return, Returned
<1>2. UNCHANGED <<dlVars, marked, failures>>
    BY DEF PrepareFails, Save
<1>3. job'[b] = how /\ \A c \in Batches \ {b} : job'[c] = job[c]
    BY <1>1 DEF TypeOK
<1>4. b \in Running /\ Running' = Running \ {b}
    BY <1>1, <1>3 DEF Running, Admitted, Returned
<1>5. SizeInOrder' /\ size' \in Nat
    BY <1>1, <1>4, Ended
<1>6. TypeOK'
    BY <1>1, <1>2, <1>5 DEF dlVars, TypeOK, DownloaderTypeOK
<1>7. BatchesInOrder'
    BY <1>1, <1>2, <1>3 DEF dlVars, BatchesInOrder, InState
<1> QED  BY <1>2, <1>5, <1>6, <1>7, CallStep

LEMMA StartStep ==
    ASSUME DownloadInv, NEW b \in Batches, StartBatch(b)
    PROVE  DownloadInv'
<1> USE DEF DownloadInv
<1>1. PICK tasks \in SUBSET TasksOf(b), workers \in MaxConns : DoBatch(b, tasks, workers)
    BY DEF StartBatch
<1>2. /\ job[b] = "admitted" /\ job'[b] = "running" /\ \A c \in Batches \ {b} : job'[c] = job[c]
      /\ batch[b] = "none" /\ batch'[b] = "running"
      /\ \A c \in Batches \ {b} : batch'[c] = batch[c] /\ quota'[c] = quota[c]
      /\ UNCHANGED <<open, answer, worker, req, transfer, size, marked, failures>>
    BY <1>1 DEF StartBatch, DoBatch, TypeOK, DownloaderTypeOK
<1>3. \A t \in tasks : t \in Tasks /\ t[1] = b /\ task[t] = "none"
    BY <1>2 DEF BatchesInOrder, TasksOf, InState
<1>4. \A t \in Tasks : task'[t] = task[t] \/ (t[1] = b /\ task[t] = "none" /\ task'[t] = "queued")
    <2>1. task' = [t \in Tasks |-> IF t \in tasks THEN "queued" ELSE task[t]]
        BY <1>1 DEF DoBatch
    <2> SUFFICES ASSUME NEW t \in Tasks
                 PROVE  task'[t] = task[t] \/ (t[1] = b /\ task[t] = "none" /\ task'[t] = "queued")
        OBVIOUS
    <2>2. task'[t] = IF t \in tasks THEN "queued" ELSE task[t]
        BY <2>1
    <2>3. CASE t \in tasks
        BY <1>3, <2>2, <2>3
    <2> QED  BY <2>2, <2>3
<1>5. TypeOK'
    <2>1. Cardinality(tasks) \in Nat
        BY FS_Subset, FS_CardinalityType, DownloaderAssumption DEF TasksOf
    <2>2. (IF workers < 1 THEN Cardinality(tasks) ELSE workers) \in Nat
        BY <2>1, LimitsAssumption
    <2>3. quota' \in [Batches -> Nat]
        BY <1>1, <2>2 DEF DoBatch, TypeOK, DownloaderTypeOK
    <2>4. task' \in [Tasks -> {"none", "queued", "taken", "invalid", "awaiting", "result", "read"}]
        BY <1>1 DEF DoBatch, TypeOK, DownloaderTypeOK
    <2> QED  BY <1>1, <1>2, <2>3, <2>4 DEF StartBatch, DoBatch, TypeOK, DownloaderTypeOK, Admitted
<1>6. BatchesInOrder'
    <2>1. ASSUME NEW c \in Batches \ {b}, NEW t \in TasksOf(c)
          PROVE  task'[t] = task[t]
        BY <1>4, BatchOf DEF TasksOf
    <2> QED  BY <1>2, <2>1 DEF BatchesInOrder, InState, TasksOf
<1>7. RequestsInOrder' /\ ResponsesInOrder' /\ MarksInOrder'
    BY <1>2, <1>4 DEF RequestsInOrder, ResponsesInOrder, ResponsesGoOnce, MarksInOrder, Unasked, Offering
<1>8. Offering' = Offering /\ Awaiting' = Awaiting /\ Running' = Running
    BY <1>2, <1>4 DEF Offering, Awaiting, Running, Admitted
<1>9. SizeInOrder' /\ WaitersMatch'
    BY <1>2, <1>8 DEF SizeInOrder, WaitersMatch, Offering, Awaiting
<1> QED  BY <1>5, <1>6, <1>7, <1>9

LEMMA ReadStep ==
    ASSUME DownloadInv, NEW b \in Batches, ReadResult(b)
    PROVE  DownloadInv'
<1> USE DEF DownloadInv
<1>1. PICK t \in InState(b, "result") :
        /\ transfer[answer[t]] # "running"
        /\ task' = [task EXCEPT ![t] = "read"]
        /\ IF transfer[answer[t]] = "ok"
           THEN marked' = marked \cup {t} /\ UNCHANGED failures
           ELSE failures' = [failures EXCEPT ![b] = @ + 1] /\ UNCHANGED marked
    BY DEF ReadResult
<1>2. /\ t \in Tasks /\ task[t] = "result" /\ task'[t] = "read"
      /\ \A u \in Tasks \ {t} : task'[u] = task[u]
      /\ UNCHANGED <<started, open, batch, quota, answer, worker, req, transfer, job, size>>
    BY <1>1 DEF ReadResult, InState, TasksOf, TypeOK, DownloaderTypeOK
<1>3. transfer[answer[t]] \in {"ok", "err"}
    BY <1>1, <1>2 DEF ResponsesInOrder, TypeOK, DownloaderTypeOK
<1>4. TypeOK'
    BY <1>1, <1>2 DEF TypeOK, DownloaderTypeOK
<1>5. BatchesInOrder'
    <2>1. \A c \in Batches, s \in {"none", "queued", "taken", "awaiting"} : InState(c, s)' = InState(c, s)
        BY <1>2 DEF InState, TasksOf
    <2>2. \A c \in Batches : InState(c, "result")' \subseteq InState(c, "result")
        BY <1>2 DEF InState, TasksOf
    <2> QED  BY <1>2, <2>1, <2>2 DEF BatchesInOrder
<1>6. RequestsInOrder' /\ ResponsesInOrder'
    BY <1>2 DEF RequestsInOrder, ResponsesInOrder, ResponsesGoOnce, Unasked, Offering
<1>7. MarksInOrder'
    <2>1. t \notin marked
        BY <1>2 DEF MarksInOrder
    <2>2. CASE transfer[answer[t]] = "ok"
        BY <1>1, <1>2, <2>2 DEF MarksInOrder
    <2>3. CASE transfer[answer[t]] = "err"
        BY <1>1, <1>2, <2>3 DEF MarksInOrder
    <2> QED  BY <1>3, <2>2, <2>3
<1>8. SizeInOrder' /\ WaitersMatch'
    <2>1. Awaiting' = Awaiting
        BY <1>2 DEF Awaiting
    <2> QED  BY <1>2, <2>1 DEF SizeInOrder, Running, WaitersMatch, Awaiting
<1> QED  BY <1>4, <1>5, <1>6, <1>7, <1>8

LEMMA Step == DownloadInv /\ [Next]_vars => DownloadInv'
<1> SUFFICES ASSUME DownloadInv, [Next]_vars PROVE DownloadInv'
    OBVIOUS
<1>1. CASE UNCHANGED vars
    BY <1>1 DEF vars, dlVars, jobVars, DownloadInv, TypeOK, DownloaderTypeOK, BatchesInOrder, InState, RequestsInOrder,
        ResponsesInOrder, ResponsesGoOnce, Offering, MarksInOrder, SizeInOrder, Running, WaitersMatch
<1> QED  BY <1>1, PoolStep, AdmitStep, ReturnStep, StartStep, ReadStep DEF Next, Progress, JobStep

LEMMA Always == Spec => []DownloadInv
BY Start, Step, PTL DEF Spec

--------------------------------------------------------------------------------

\* Tasks, workers and calls are where the code can have them, and no count of
\* goroutines or of running downloads becomes negative.
THEOREM TypeCorrect == Spec => []TypeOK
BY Always, PTL DEF DownloadInv

\* downloadSize counts exactly the calls that run: it is given back on every path out
\* of CreateDownloadTask.
THEOREM SizeCorrect == Spec => []SizeCountsJobs
<1>1. DownloadInv => SizeCountsJobs
    BY DEF DownloadInv, SizeInOrder, Running, SizeCountsJobs
<1> QED  BY <1>1, Always, PTL

\* Neither side of respCh is ever stuck: as many batch goroutines wait for a response
\* as workers offer one, also after Close.
THEOREM WaitersCorrect == Spec => []WaitersMatch
BY Always, PTL DEF DownloadInv

\* A response goes to one result only, in spite of channels that all batches share.
THEOREM ResponsesCorrect == Spec => []ResponsesGoOnce
BY Always, PTL DEF DownloadInv, ResponsesInOrder

\* When no call runs, answer maps the marked tasks one to one onto the requests whose
\* transfers have succeeded: as many pages are marked as have arrived.
THEOREM MarksCorrect == Spec => []MarksAreDownloads
<1> DEFINE Arrived == {t \in Tasks : transfer[t] = "ok"}
           f == [t \in marked |-> answer[t]]
<1>1. ASSUME DownloadInv, \A b \in Batches : job[b] # "running"
      PROVE  Cardinality(marked) = Cardinality(Arrived)
    <2> USE <1>1 DEF DownloadInv
    <2>1. \A t \in Tasks : task[t] \notin {"awaiting", "result"}
        <3> SUFFICES ASSUME NEW t \in Tasks PROVE task[t] \notin {"awaiting", "result"}
            OBVIOUS
        <3>1. task[t] # "awaiting"
            BY TakenRuns, BatchOf
        <3>2. task[t] # "result"
            BY BatchOf DEF BatchesInOrder, InState, TasksOf, TypeOK
        <3> QED  BY <3>1, <3>2
    <2>2. Offering = {}
        <3>1. Awaiting = {}
            BY <2>1 DEF Awaiting
        <3> QED  BY <3>1, WaitersAre, FiniteSides, FS_EmptySet
    <2>3. /\ f \in [marked -> Arrived]
          /\ \A t \in marked : f[t] = answer[t]
        BY DEF MarksInOrder, ResponsesInOrder, TypeOK, DownloaderTypeOK
    <2> HIDE DEF f
    <2>4. f \in Surjection(marked, Arrived)
        <3>1. ASSUME NEW u \in Arrived
              PROVE  \E t \in marked : f[t] = u
            <4>1. PICK t \in Tasks : answer[t] = u
                BY <2>2 DEF ResponsesInOrder
            <4>2. task[t] = "read"
                BY <2>1, <4>1 DEF ResponsesInOrder
            <4> QED  BY <2>3, <4>1, <4>2 DEF MarksInOrder
        <3> QED  BY <2>3, <3>1 DEF Surjection
    <2>5. f \in Injection(marked, Arrived)
        <3>1. \A t, u \in marked : f[t] = f[u] => t = u
            BY <2>3 DEF MarksInOrder, ResponsesInOrder, ResponsesGoOnce
        <3> QED  BY <2>3, <3>1 DEF Injection, IsInjective
    <2>6. IsFiniteSet(marked)
        BY FS_Subset, DownloaderAssumption DEF MarksInOrder
    <2>7. ExistsBijection(marked, Arrived)
        BY <2>4, <2>5 DEF ExistsBijection, Bijection
    <2> QED  BY <2>6, <2>7, FS_Bijection
<1>2. DownloadInv => MarksAreDownloads
    BY <1>1 DEF MarksAreDownloads
<1> QED  BY <1>2, Always, PTL

--------------------------------------------------------------------------------
(* The keyed mutex.                                                        *)

\* The users of a locker are a finite set.
LEMMA UsersFinite ==
    ASSUME NEW l
    PROVE  IsFiniteSet(Users(l)) /\ Cardinality(Users(l)) \in Nat
<1>1. Users(l) \subseteq Procs
  BY DEF Users
<1>2. QED
  BY <1>1, FS_Subset, FS_CardinalityType, LockersAssumption

\* A goroutine inside Lock or unlock, and an entry of the table, keep their
\* locker from being reused.
LEMMA InUse ==
    /\ \A p \in Procs : pc[p] # "idle" => ~Fresh(locker[p])
    /\ \A k \in Keys : ~Fresh(table[k])
BY DEF Fresh

\* No two keys of the table share a locker.
LEMMA TableInjective ==
    ASSUME MutexInv, NEW k1 \in Keys, NEW k2 \in Keys, table[k1] = table[k2], table[k1] # Nil
    PROVE  k1 = k2
BY DEF MutexInv, NoStaleKey, LockerHasOneKey

\* Nothing is locked and every count is zero.
LEMMA MutexStart == MutexInit => MutexInv
<1> SUFFICES ASSUME MutexInit
             PROVE  MutexInv
  OBVIOUS
<1>1. MutexTypeOK /\ LockerHasOneKey /\ NoStaleKey
  BY LockersAssumption DEF MutexInit, MutexTypeOK, LockerHasOneKey, NoStaleKey
<1>2. \A l \in Lockers : Users(l) = {} /\ count[l] = 0
  BY DEF MutexInit, Users, Counted
<1>3. CountIsUsers
  BY <1>2, FS_EmptySet DEF CountIsUsers
<1>4. QED
  BY <1>1, <1>3 DEF MutexInv

\* Load: the goroutine joins the users of the key's locker.
LEMMA LoadStep ==
    ASSUME MutexInv, NEW p \in Procs, NEW k \in Keys, Load(p, k)
    PROVE  MutexInv'
<1> USE DEF MutexInv, Load
<1>1. MutexTypeOK'
  BY DEF MutexTypeOK
<1>2. LockerHasOneKey'
  <2>1. \A q \in Procs : pc[q] # "idle" /\ locker[q] = table[k] => key[q] = k
    BY DEF LockerHasOneKey
  <2>2. \A k2 \in Keys : table[k2] = table[k] => k2 = k
    BY TableInjective
  <2>3. QED
    BY <2>1, <2>2 DEF LockerHasOneKey, MutexTypeOK
<1>3. CountIsUsers'
  <2>1. \A l \in Lockers : Users(l)' = Users(l)
    BY DEF Users, Counted, MutexTypeOK
  <2>2. \A l \in Lockers : Fresh(l) => Fresh(l)'
    BY DEF Fresh, MutexTypeOK
  <2>3. QED
    BY <2>1, <2>2 DEF CountIsUsers
<1>4. NoStaleKey'
  BY DEF NoStaleKey, MutexTypeOK
<1>5. QED
  BY <1>1, <1>2, <1>3, <1>4

\* Store: the key gets a locker that nobody uses.
LEMMA StoreStep ==
    ASSUME MutexInv, NEW p \in Procs, NEW k \in Keys, NEW l \in Lockers, Store(p, k, l)
    PROVE  MutexInv'
<1> USE DEF MutexInv, Store
<1>1. MutexTypeOK'
  BY DEF MutexTypeOK
<1>2. LockerHasOneKey'
  BY DEF LockerHasOneKey, MutexTypeOK, Fresh
<1>3. CountIsUsers'
  <2>1. \A m \in Lockers : Users(m)' = Users(m)
    BY DEF Users, Counted, MutexTypeOK
  <2>2. Users(l) = {}
    BY DEF Users, Counted, Fresh
  <2>3. \A m \in Lockers : m # l /\ Fresh(m) => Fresh(m)'
    BY DEF Fresh, MutexTypeOK
  <2>4. count'[l] = Cardinality(Users(l)')
    BY <2>1, <2>2, FS_EmptySet DEF MutexTypeOK
  <2>5. \A m \in Lockers : m # l => count'[m] = count[m]
    BY DEF MutexTypeOK
  <2>6. QED
    BY <2>1, <2>3, <2>4, <2>5 DEF CountIsUsers
<1>4. NoStaleKey'
  BY DEF NoStaleKey, MutexTypeOK
<1>5. QED
  BY <1>1, <1>2, <1>3, <1>4

\* Count: the goroutine becomes one of the users its locker counts.
LEMMA CountStep ==
    ASSUME MutexInv, NEW p \in Procs, Count(p)
    PROVE  MutexInv'
<1> USE DEF MutexInv, Count
<1> DEFINE n == locker[p]
<1>0. n \in Lockers /\ ~Fresh(n)
  BY InUse DEF MutexTypeOK
<1>1. MutexTypeOK'
  BY <1>0 DEF MutexTypeOK
<1>2. LockerHasOneKey'
  BY DEF LockerHasOneKey, MutexTypeOK
<1>3. CountIsUsers'
  <2>1. Users(n)' = Users(n) \cup {p} /\ p \notin Users(n)
    BY DEF Users, Counted, MutexTypeOK
  <2>2. Cardinality(Users(n)') = Cardinality(Users(n)) + 1
    BY <2>1, UsersFinite, FS_AddElement
  <2>3. count'[n] = count[n] + 1
    BY <1>0 DEF MutexTypeOK
  <2>4. \A l \in Lockers : l # n => Users(l)' = Users(l) /\ count'[l] = count[l]
    BY DEF Users, Counted, MutexTypeOK
  <2>5. \A l \in Lockers : Fresh(l) => Fresh(l)'
    BY DEF Fresh, MutexTypeOK
  <2>6. QED
    BY <1>0, <2>2, <2>3, <2>4, <2>5 DEF CountIsUsers
<1>4. NoStaleKey'
  BY DEF NoStaleKey, MutexTypeOK
<1>5. QED
  BY <1>1, <1>2, <1>3, <1>4

\* Acquire: a user stays a user.
LEMMA AcquireStep ==
    ASSUME MutexInv, NEW p \in Procs, Acquire(p)
    PROVE  MutexInv'
<1> USE DEF MutexInv, Acquire
<1>1. MutexTypeOK'
  BY DEF MutexTypeOK
<1>2. LockerHasOneKey'
  BY DEF LockerHasOneKey, MutexTypeOK
<1>3. CountIsUsers'
  <2>1. \A l \in Lockers : Users(l)' = Users(l)
    BY DEF Users, Counted, MutexTypeOK
  <2>2. \A l \in Lockers : Fresh(l) => Fresh(l)'
    BY DEF Fresh, MutexTypeOK
  <2>3. QED
    BY <2>1, <2>2 DEF CountIsUsers
<1>4. NoStaleKey'
  BY DEF NoStaleKey, MutexTypeOK
<1>5. QED
  BY <1>1, <1>2, <1>3, <1>4

\* Uncount: the last user goes on to delete the key; before that, another user
\* of the locker remains, and it has the same key.
LEMMA UncountStep ==
    ASSUME MutexInv, NEW p \in Procs, Uncount(p)
    PROVE  MutexInv'
<1> USE DEF MutexInv, Uncount
<1> DEFINE n == locker[p]
<1>0. n \in Lockers /\ ~Fresh(n)
  BY InUse DEF MutexTypeOK
<1>1. count[n] = Cardinality(Users(n)) /\ count[n] \in Nat
  BY <1>0 DEF CountIsUsers, MutexTypeOK
<1>2. /\ Users(n)' = Users(n) \ {p} /\ p \in Users(n)
      /\ Cardinality(Users(n)') = Cardinality(Users(n)) - 1
  <2>1. Users(n)' = Users(n) \ {p} /\ p \in Users(n)
    BY DEF Users, Counted, MutexTypeOK
  <2>2. QED
    BY <2>1, UsersFinite, FS_RemoveElement
<1>3. count'[n] = count[n] - 1 /\ count'[n] = Cardinality(Users(n)') /\ count'[n] \in Nat
  <2>1. count'[n] = count[n] - 1
    BY <1>0 DEF MutexTypeOK
  <2>2. Cardinality(Users(n) \ {p}) \in Nat
    BY UsersFinite, FS_RemoveElement, FS_CardinalityType
  <2>3. QED
    BY <1>1, <1>2, <2>1, <2>2
<1>4. MutexTypeOK'
  BY <1>0, <1>3 DEF MutexTypeOK
<1>5. LockerHasOneKey'
  BY DEF LockerHasOneKey, MutexTypeOK
<1>6. CountIsUsers'
  <2>1. \A l \in Lockers : l # n => Users(l)' = Users(l) /\ count'[l] = count[l]
    BY DEF Users, Counted, MutexTypeOK
  <2>2. \A l \in Lockers : Fresh(l) => Fresh(l)'
    BY DEF Fresh, MutexTypeOK
  <2>3. QED
    BY <1>3, <2>1, <2>2 DEF CountIsUsers
<1>7. NoStaleKey'
  <2> SUFFICES ASSUME NEW k \in Keys, table[k] # Nil
               PROVE  \E q \in Procs :
                         /\ pc'[q] \in {"loaded", "waiting", "locked", "deleting"}
                         /\ key[q] = k /\ locker[q] = table[k]
    BY DEF NoStaleKey
  <2>1. PICK q \in Procs : /\ pc[q] \in {"loaded", "waiting", "locked", "deleting"}
                           /\ key[q] = k /\ locker[q] = table[k]
    BY DEF NoStaleKey
  <2>2. CASE q # p
    BY <2>1, <2>2 DEF MutexTypeOK
  <2>3. CASE q = p /\ count'[n] = 0
    BY <2>1, <2>3 DEF MutexTypeOK
  <2>4. CASE q = p /\ count'[n] # 0
    <3>1. Users(n)' # {}
      BY <1>3, <2>4, FS_EmptySet
    <3>2. PICK r \in Procs : r # p /\ r \in Users(n)
      BY <1>2, <3>1 DEF Users
    <3>3. pc[r] \in {"waiting", "locked"} /\ locker[r] = n /\ key[r] = key[p]
      BY <3>2 DEF Users, Counted, LockerHasOneKey
    <3>4. QED
      BY <2>1, <2>4, <3>2, <3>3 DEF MutexTypeOK
  <2>5. QED
    BY <2>2, <2>3, <2>4
<1>8. QED
  BY <1>4, <1>5, <1>6, <1>7

\* Delete: only the entry of the deleter's own key goes.
LEMMA DeleteStep ==
    ASSUME MutexInv, NEW p \in Procs, Delete(p)
    PROVE  MutexInv'
<1> USE DEF MutexInv, Delete
<1>1. MutexTypeOK'
  BY DEF MutexTypeOK
<1>2. LockerHasOneKey'
  BY LockersAssumption DEF LockerHasOneKey, MutexTypeOK
<1>3. CountIsUsers'
  <2>1. \A l \in Lockers : Users(l)' = Users(l)
    BY DEF Users, Counted, MutexTypeOK
  <2>2. \A l \in Lockers : Fresh(l) => Fresh(l)'
    BY LockersAssumption DEF Fresh, MutexTypeOK
  <2>3. QED
    BY <2>1, <2>2 DEF CountIsUsers
<1>4. NoStaleKey'
  BY DEF NoStaleKey, MutexTypeOK
<1>5. QED
  BY <1>1, <1>2, <1>3, <1>4

\* Unlock: a goroutine that no count and no key relies on leaves.
LEMMA UnlockStep ==
    ASSUME MutexInv, NEW p \in Procs, Unlock(p)
    PROVE  MutexInv'
<1> USE DEF MutexInv, Unlock
<1>1. MutexTypeOK'
  BY DEF MutexTypeOK
<1>2. LockerHasOneKey'
  BY DEF LockerHasOneKey, MutexTypeOK
<1>3. CountIsUsers'
  <2>1. \A l \in Lockers : Users(l)' = Users(l)
    BY DEF Users, Counted, MutexTypeOK
  <2>2. \A l \in Lockers : Fresh(l) => Fresh(l)'
    BY DEF Fresh, MutexTypeOK
  <2>3. QED
    BY <2>1, <2>2 DEF CountIsUsers
<1>4. NoStaleKey'
  BY DEF NoStaleKey, MutexTypeOK
<1>5. QED
  BY <1>1, <1>2, <1>3, <1>4

\* Every step preserves the inductive invariant.
LEMMA InvStep == MutexInv /\ [MutexNext]_mutexVars => MutexInv'
<1> SUFFICES ASSUME MutexInv, [MutexNext]_mutexVars
             PROVE  MutexInv'
  OBVIOUS
<1>1. ASSUME NEW p \in Procs, LoadOrStore(p)
      PROVE  MutexInv'
  BY <1>1, LoadStep, StoreStep DEF LoadOrStore
<1>2. ASSUME NEW p \in Procs, Count(p) \/ Acquire(p)
      PROVE  MutexInv'
  BY <1>2, CountStep, AcquireStep
<1>3. ASSUME NEW p \in Procs, Release(p)
      PROVE  MutexInv'
  BY <1>3, UncountStep, DeleteStep, UnlockStep DEF Release
<1>4. CASE UNCHANGED mutexVars
  BY <1>4 DEF mutexVars, MutexInv, MutexTypeOK, LockerHasOneKey, CountIsUsers, NoStaleKey, Users,
              Counted, Fresh
<1>5. QED
  BY <1>1, <1>2, <1>3, <1>4 DEF MutexNext

\* The inductive invariant holds in every state of every behaviour.
THEOREM MutexInvCorrect == MutexSpec => []MutexInv
BY MutexStart, InvStep, PTL DEF MutexSpec

\* The count of a locker in use is the number of goroutines that wait for it or
\* hold it, however lookups, counts and deletions interleave.
THEOREM CountCorrect == MutexSpec => []CountIsUsers
<1>1. MutexInv => CountIsUsers
  BY DEF MutexInv
<1>2. QED
  BY <1>1, MutexInvCorrect, PTL

\* The provider's table never keeps a key that nobody uses any more.
THEOREM NoStaleKeyCorrect == MutexSpec => []NoStaleKey
<1>1. MutexInv => NoStaleKey
  BY DEF MutexInv
<1>2. QED
  BY <1>1, MutexInvCorrect, PTL
==================================================================================
